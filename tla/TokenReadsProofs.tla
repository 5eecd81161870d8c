-------------------------- MODULE TokenReadsProofs --------------------------
(***************************************************************************)
(* Proofs about the calls that report balances, for every number of        *)
(* tokens, contracts and rows and every page size.                         *)
(*                                                                         *)
(* PagesMissOnlyMoved: what a client that turns pages has passed is the    *)
(* first Len(read) rows of assets, which never shrinks (PageInv).  A token *)
(* that is created anew goes to the end, so a REPLACE lets at most one row *)
(* into the passed ones; and as a row is there once, what was read twice   *)
(* is what is missing from the passed ones.                                *)
(*                                                                         *)
(* HeldIsReported: what each of the three loops makes of one token is what *)
(* the tables have of it (Entries, with and without the zeros), so that an *)
(* answer is the entries of its tokens one after the other (AnswerIs), and *)
(* as a token is in assets once, it is in an answer once (ReportedOnce).   *)
(*                                                                         *)
(* QuantitiesReadBack: of the digits of precision + fract, the first       *)
(* stands for the precision and the others for fract (Fractions).          *)
(***************************************************************************)
EXTENDS TokenReads, SequenceFacts, FiniteSetTheorems, TLAPS

Keys == Symbols \cup {Broken}

(* What a client passed is there, and was read or pushed in by a REPLACE. *)
PageInv ==
  LET passed == SubSeq(assets, 1, Len(read)) IN
  /\ Len(read) <= Len(assets)
  /\ moves = 0 => read = passed
  /\ Cardinality(ToSet(passed) \ ToSet(read)) <= moves

IInv == TypeOK /\ PageInv

-----------------------------------------------------------------------------
(* The parts of the state.                                                 *)

LEMMA Bounds == PageSize \in Nat \ {0} /\ MaxMoves \in Nat /\ MaxAssets \in Nat
BY TokenReadsAssumption

LEMMA Lengths ==
  ASSUME TypeOK
  PROVE  /\ Len(assets) \in Nat /\ DOMAIN assets = 1..Len(assets)
         /\ Len(read) \in Nat /\ DOMAIN read = 1..Len(read)
         /\ \A i \in 1..Len(assets) : assets[i] \in Tokens
         /\ moves \in Nat /\ offset \in Nat /\ PageSize \in Nat \ {0}
         /\ MaxMoves \in Nat /\ MaxAssets \in Nat
<1>1. assets \in Seq(Tokens) /\ read \in Seq(Tokens)
  BY DEF TypeOK
<1>2. moves \in 0..MaxMoves /\ offset \in Nat
  BY DEF TypeOK
<1> QED
  BY <1>1, <1>2, Bounds, LenProperties, ElementOfSeq

(* What SubSeq makes of a page: rows of assets, behind the first n. *)
LEMMA PageRows ==
  ASSUME TypeOK, NEW n \in Nat, NEW k \in Nat, n <= Len(assets)
  PROVE  /\ Page(n, k) \in Seq(Tokens)
         /\ n + Len(Page(n, k)) \in 0..Len(assets)
         /\ SubSeq(assets, 1, n) \o Page(n, k) = SubSeq(assets, 1, n + Len(Page(n, k)))
         /\ n + k >= Len(assets) => n + Len(Page(n, k)) = Len(assets)
         /\ n + k <= Len(assets) => Len(Page(n, k)) = k
<1>0. /\ Len(assets) \in Nat /\ assets \in Seq(Tokens)
      /\ \A i \in 1..Len(assets) : assets[i] \in Tokens
  BY Lengths DEF TypeOK
<1> DEFINE m == Min({n + k, Len(assets)})
<1>1. /\ m \in n..Len(assets)
      /\ n + k >= Len(assets) => m = Len(assets)
      /\ n + k <= Len(assets) => m = n + k
  <2>1. CASE n + k <= Len(assets)
    <3>1. m = n + k
      BY <1>0, <2>1 DEF Min
    <3> QED
      BY <1>0, <2>1, <3>1
  <2>2. CASE ~(n + k <= Len(assets))
    <3>1. m = Len(assets)
      BY <1>0, <2>2 DEF Min
    <3> QED
      BY <1>0, <2>2, <3>1
  <2> QED
    BY <2>1, <2>2
<1>2. Page(n, k) = SubSeq(assets, n + 1, m)
  BY DEF Page
<1> HIDE DEF m
<1> DEFINE p == SubSeq(assets, n + 1, m)
<1>3. p \in Seq(Tokens) /\ Len(p) = IF n + 1 <= m THEN m - (n + 1) + 1 ELSE 0
  <2>1. \A i \in (n + 1)..m : assets[i] \in Tokens
    BY <1>0, <1>1
  <2>2. n + 1 \in Int /\ m \in Int
    BY <1>1
  <2> QED
    BY <2>1, <2>2, SubSeqProperties
<1>4. n + Len(p) = m
  BY <1>1, <1>3
<1>5. SubSeq(assets, 1, n) \o p = SubSeq(assets, 1, m)
  <2>1. 1 \in 1..(Len(assets) + 1) /\ n \in 0..Len(assets) /\ m \in n..Len(assets)
    BY <1>0, <1>1
  <2> QED
    BY <1>0, <2>1, ConcatAdjacentSubSeq
<1> HIDE DEF p
<1>6. m \in 0..Len(assets)
  BY <1>0, <1>1
<1>7. n + k <= Len(assets) => Len(p) = k
  BY <1>0, <1>1, <1>3, <1>4
<1> QED
  BY <1>1, <1>2, <1>3, <1>4, <1>5, <1>6, <1>7 DEF p
-----------------------------------------------------------------------------
(* Types and pages: the steps.                                             *)

LEMMA InitIInv == Init => IInv
<1> SUFFICES ASSUME Init PROVE IInv
  OBVIOUS
<1>1. /\ declared = Contracts /\ accounts = [c \in Contracts |-> <<>>]
      /\ assets = <<>> /\ offset = 0 /\ read = <<>> /\ moves = 0
  BY DEF Init, NoTable
<1>2. /\ <<>> \in Seq(Keys) /\ <<>> \in Seq(Tokens) /\ Len(<<>>) = 0
      /\ IsInjective(<<>>) /\ ToSet(<<>>) = {}
  BY EmptySeq DEF IsInjective, ToSet
<1>3. TypeOK
  BY <1>1, <1>2, Bounds DEF TypeOK, Keys
<1>4. SubSeq(assets, 1, Len(read)) = <<>>
  BY <1>1, <1>2, SubSeqEmpty
<1>5. Cardinality({}) = 0
  BY FS_EmptySet
<1>6. PageInv
  <2>1. ToSet(SubSeq(assets, 1, Len(read))) \ ToSet(read) = {}
    BY <1>1, <1>2, <1>4
  <2>2. Len(read) <= Len(assets) /\ read = SubSeq(assets, 1, Len(read))
    BY <1>1, <1>2, <1>4
  <2>3. Cardinality(ToSet(SubSeq(assets, 1, Len(read))) \ ToSet(read)) <= moves
    <3>1. Cardinality(ToSet(SubSeq(assets, 1, Len(read))) \ ToSet(read)) = 0
      BY <1>5, <2>1
    <3> QED
      BY <1>1, <3>1
  <2> QED
    BY <2>2, <2>3 DEF PageInv
<1> QED
  BY <1>3, <1>6 DEF IInv

(* The first page is what a client passed. *)
LEMMA FirstPageStep == IInv /\ FirstPage => IInv'
<1> SUFFICES ASSUME IInv, FirstPage PROVE IInv'
  OBVIOUS
<1>0. TypeOK
  BY DEF IInv
<1>1. /\ read' = Page(0, PageSize) /\ offset' = PageSize /\ moves' = 0
      /\ declared' = declared /\ accounts' = accounts /\ assets' = assets
  BY DEF FirstPage, chain
<1>2. Len(assets) \in Nat /\ assets \in Seq(Tokens) /\ PageSize \in Nat
  BY <1>0, Lengths DEF TypeOK
<1> DEFINE p == Page(0, PageSize)
<1>3. /\ p \in Seq(Tokens) /\ 0 + Len(p) \in 0..Len(assets)
      /\ SubSeq(assets, 1, 0) \o p = SubSeq(assets, 1, 0 + Len(p))
  <2> DEFINE n == 0
  <2>1. n \in Nat /\ n <= Len(assets)
    BY <1>2
  <2>2. p = Page(n, PageSize)
    OBVIOUS
  <2> HIDE DEF n, p
  <2>3. /\ p \in Seq(Tokens) /\ n + Len(p) \in 0..Len(assets)
        /\ SubSeq(assets, 1, n) \o p = SubSeq(assets, 1, n + Len(p))
    BY <1>0, <1>2, <2>1, <2>2, PageRows
  <2> QED
    BY <2>3 DEF n
<1> HIDE DEF p
<1>4. p = SubSeq(assets, 1, Len(p)) /\ Len(p) <= Len(assets)
  <2>1. SubSeq(assets, 1, 0) = <<>> /\ <<>> \o p = p
    BY <1>3, SubSeqEmpty, ConcatEmptySeq
  <2>2. Len(p) \in Nat /\ 0 + Len(p) = Len(p)
    BY <1>3, LenProperties
  <2> QED
    BY <1>2, <1>3, <2>1, <2>2
<1>5. TypeOK'
  BY <1>0, <1>1, <1>2, <1>3, Bounds DEF TypeOK, p
<1>6. ToSet(p) \ ToSet(p) = {} /\ Cardinality({}) = 0
  BY FS_EmptySet
<1>7. read' = p
  BY <1>1 DEF p
<1>8. PageInv'
  <2>1. SubSeq(assets', 1, Len(read')) = p
    BY <1>1, <1>4, <1>7
  <2>2. Len(read') <= Len(assets')
    BY <1>1, <1>4, <1>7
  <2>3. Cardinality(ToSet(SubSeq(assets', 1, Len(read'))) \ ToSet(read')) <= moves'
    <3>1. ToSet(SubSeq(assets', 1, Len(read'))) \ ToSet(read') = {}
      BY <1>6, <1>7, <2>1
    <3>2. Cardinality(ToSet(SubSeq(assets', 1, Len(read'))) \ ToSet(read')) = 0
      BY <1>6, <3>1
    <3> QED
      BY <1>1, <3>2
  <2> QED
    BY <1>7, <2>1, <2>2, <2>3 DEF PageInv
<1> QED
  BY <1>5, <1>8 DEF IInv

(* The next page continues where the client is. *)
LEMMA NextPageStep == IInv /\ NextPage => IInv'
<1> SUFFICES ASSUME IInv, NextPage PROVE IInv'
  OBVIOUS
<1>0. TypeOK /\ PageInv
  BY DEF IInv
<1>1. /\ Len(read) = offset
      /\ read' = read \o Page(offset, PageSize) /\ offset' = offset + PageSize
      /\ moves' = moves
      /\ declared' = declared /\ accounts' = accounts /\ assets' = assets
  BY DEF NextPage, chain
<1>2. /\ Len(assets) \in Nat /\ assets \in Seq(Tokens) /\ PageSize \in Nat
      /\ read \in Seq(Tokens) /\ Len(read) \in Nat /\ moves \in Nat
      /\ Len(read) <= Len(assets)
  BY <1>0, Lengths DEF TypeOK, PageInv
<1> DEFINE p == Page(offset, PageSize)
           q == SubSeq(assets, 1, Len(read))
<1>3. /\ p \in Seq(Tokens) /\ offset + Len(p) \in 0..Len(assets)
      /\ SubSeq(assets, 1, offset) \o p = SubSeq(assets, 1, offset + Len(p))
  BY <1>0, <1>1, <1>2, PageRows
<1>4. q \in Seq(Tokens)
  <2>1. Len(read) \in 0..Len(assets)
    BY <1>2
  <2> QED
    BY <1>2, <2>1, FirstElements
<1> HIDE DEF p
<1>5. read' \in Seq(Tokens) /\ Len(read') = Len(read) + Len(p)
  BY <1>1, <1>2, <1>3, ConcatProperties DEF p
<1>6. SubSeq(assets, 1, Len(read')) = q \o p
  BY <1>1, <1>3, <1>5
<1> HIDE DEF q
<1>7. read' = read \o p
  BY <1>1 DEF p
<1>8. TypeOK'
  <2>1. offset' \in Nat
    BY <1>1, <1>2
  <2> QED
    BY <1>0, <1>1, <1>5, <2>1 DEF TypeOK
<1>9. moves = 0 => read' = q \o p
  BY <1>0, <1>7 DEF PageInv, q
<1>10. Cardinality(ToSet(q \o p) \ ToSet(read \o p)) <= Cardinality(ToSet(q) \ ToSet(read))
  <2> DEFINE D == ToSet(q) \ ToSet(read)
             E == ToSet(q \o p) \ ToSet(read \o p)
  <2>1. /\ ToSet(q \o p) = ToSet(q) \cup ToSet(p)
        /\ ToSet(read \o p) = ToSet(read) \cup ToSet(p)
    BY <1>2, <1>3, <1>4, ToSetConcat
  <2>2. E \in SUBSET D
    BY <2>1
  <2>3. IsFiniteSet(D)
    <3>1. IsFiniteSet(ToSet(q))
      BY <1>4, ElementsOf
    <3> QED
      BY <3>1, FS_Difference
  <2> HIDE DEF D, E
  <2>4. Cardinality(E) <= Cardinality(D)
    BY <2>2, <2>3, FS_Subset
  <2> QED
    BY <2>4 DEF D, E
<1>11. Cardinality(ToSet(q) \ ToSet(read)) <= moves
  BY <1>0 DEF PageInv, q
<1>12. Cardinality(ToSet(q \o p) \ ToSet(read \o p)) <= moves
  <2>1. /\ Cardinality(ToSet(q) \ ToSet(read)) \in Nat
        /\ Cardinality(ToSet(q \o p) \ ToSet(read \o p)) \in Nat
    <3>1. q \o p \in Seq(Tokens)
      BY <1>3, <1>4
    <3>2. IsFiniteSet(ToSet(q)) /\ IsFiniteSet(ToSet(q \o p))
      BY <1>4, <3>1, ElementsOf
    <3> QED
      BY <3>2, FS_Difference, FS_CardinalityType
  <2> QED
    BY <1>2, <1>10, <1>11, <2>1
<1>13. Len(read') <= Len(assets)
  BY <1>1, <1>2, <1>3, <1>5
<1>14. PageInv'
  BY <1>1, <1>6, <1>7, <1>9, <1>12, <1>13 DEF PageInv
<1> QED
  BY <1>8, <1>14 DEF IInv

(* The chain changes nothing that a client or the worker keeps. *)
LEMMA ChainStep ==
  ASSUME IInv, UNCHANGED <<assets, client>>,
         declared' \subseteq Contracts,
         accounts' \in [Contracts -> Seq(Keys)],
         \A c \in Contracts : IsInjective(accounts'[c])
  PROVE  IInv'
<1>1. assets' = assets /\ offset' = offset /\ read' = read /\ moves' = moves
  BY DEF client
<1>2. TypeOK' 
  BY <1>1 DEF IInv, TypeOK, Keys
<1>3. PageInv'
  BY <1>1 DEF IInv, PageInv
<1> QED
  BY <1>2, <1>3 DEF IInv
(* What a REPLACE does to the table: a new row at the end, and those behind *)
(* the old one, if there was one, move up.                                  *)
LEMMA ReplacedRows ==
  ASSUME TypeOK, NEW t \in Tokens
  PROVE  /\ Replaced(t) \in Seq(Tokens) /\ IsInjective(Replaced(t))
         /\ Len(Replaced(t)) >= Len(assets)
         /\ ~Contains(assets, t) =>
              \A i \in 1..Len(assets) : Replaced(t)[i] = assets[i]
         /\ \A n \in 1..Len(assets) : \A i \in 1..(n - 1) :
              \E k \in 1..n : Replaced(t)[i] = assets[k]
<1>0. /\ assets \in Seq(Tokens) /\ IsInjective(assets)
      /\ Len(assets) \in Nat /\ DOMAIN assets = 1..Len(assets)
  BY Lengths DEF TypeOK
<1> DEFINE r == RemoveFirst(assets, t)
           a == Append(r, t)
<1>1. /\ r \in Seq(Tokens) /\ IsInjective(r) /\ Len(r) \in Nat /\ Len(r) <= Len(assets)
      /\ \A j \in 1..Len(r) : r[j] # t
  BY <1>0, Removed
<1>2. a \in Seq(Tokens) /\ IsInjective(a)
  BY <1>1, AppendNew
<1>3. /\ Len(a) = Len(r) + 1
      /\ \A i \in 1..Len(r) : a[i] = r[i]
  BY <1>1, AppendProperties
<1>4. CASE ~Contains(assets, t)
  <2>1. r = assets
    BY <1>4, RemoveAbsent DEF Contains
  <2> HIDE DEF a, r
  <2>2. \A i \in 1..Len(assets) : a[i] = assets[i]
    BY <1>3, <2>1
  <2>3. Len(a) >= Len(assets)
    BY <1>0, <1>3, <2>1
  <2>4. ASSUME NEW n \in 1..Len(assets), NEW i \in 1..(n - 1)
        PROVE  \E k \in 1..n : a[i] = assets[k]
    <3>1. i \in 1..n /\ i \in 1..Len(assets)
      BY <1>0
    <3> QED
      BY <2>2, <3>1
  <2> QED
    BY <1>2, <2>2, <2>3, <2>4 DEF Replaced, a, r
<1>5. CASE Contains(assets, t)
  <2>1. PICK o \in 1..Len(assets) : assets[o] = t
    BY <1>5 DEF Contains
  <2>2. /\ Len(r) = Len(assets) - 1
        /\ \A j \in 1..(Len(assets) - 1) : r[j] = IF j < o THEN assets[j] ELSE assets[j + 1]
    BY <1>0, <2>1, RemovePresent
  <2> HIDE DEF a, r
  <2>3. Len(a) >= Len(assets)
    BY <1>0, <1>3, <2>2
  <2>4. ASSUME NEW n \in 1..Len(assets), NEW i \in 1..(n - 1)
        PROVE  \E k \in 1..n : a[i] = assets[k]
    <3>1. /\ i \in 1..(Len(assets) - 1) /\ i \in 1..Len(r)
          /\ i \in 1..n /\ i + 1 \in 1..n
      BY <1>0, <2>2
    <3>2. a[i] = IF i < o THEN assets[i] ELSE assets[i + 1]
      BY <1>3, <2>2, <3>1
    <3> QED
      BY <3>1, <3>2
  <2> QED
    BY <1>2, <1>5, <2>3, <2>4, SMTT(40) DEF Replaced, a, r
<1> QED
  BY <1>4, <1>5

(* A new token disturbs nobody; one that was there lets one row into what  *)
(* the client passed.                                                      *)
LEMMA HandleCreateStep == ASSUME NEW t \in Tokens PROVE IInv /\ HandleCreate(t) => IInv'
<1> SUFFICES ASSUME IInv, HandleCreate(t) PROVE IInv'
  OBVIOUS
<1>0. TypeOK /\ PageInv
  BY DEF IInv
<1>1. /\ assets' = Replaced(t) /\ Len(assets') <= MaxAssets
      /\ moves' = moves + (IF Contains(assets, t) THEN 1 ELSE 0) /\ moves' <= MaxMoves
      /\ declared' = declared /\ accounts' = accounts /\ offset' = offset /\ read' = read
  BY DEF HandleCreate, chain
<1>2. /\ Len(assets) \in Nat /\ assets \in Seq(Tokens) /\ read \in Seq(Tokens)
      /\ Len(read) \in Nat /\ moves \in Nat /\ MaxMoves \in Nat /\ Len(read) <= Len(assets)
  BY <1>0, Lengths DEF TypeOK, PageInv
<1>3. /\ assets' \in Seq(Tokens) /\ IsInjective(assets')
      /\ Len(assets') >= Len(assets)
      /\ ~Contains(assets, t) => \A i \in 1..Len(assets) : assets'[i] = assets[i]
      /\ \A n \in 1..Len(assets) : \A i \in 1..(n - 1) :
           \E k \in 1..n : assets'[i] = assets[k]
  BY <1>0, <1>1, ReplacedRows
<1>4. Len(assets') \in Nat
  BY <1>3, LenProperties
<1>5. moves' \in 0..MaxMoves
  BY <1>1, <1>2
<1>6. TypeOK'
  BY <1>0, <1>1, <1>3, <1>5 DEF TypeOK
<1>7. Len(read) \in 0..Len(assets) /\ Len(read) \in 0..Len(assets') /\ Len(read) <= Len(assets')
  BY <1>2, <1>3, <1>4
<1> DEFINE n == Len(read)
           p == SubSeq(assets, 1, n)
           q == SubSeq(assets', 1, n)
           D == ToSet(p) \ ToSet(read)
           E == ToSet(q) \ ToSet(read)
<1>8. /\ p \in Seq(Tokens) /\ Len(p) = n /\ \A i \in 1..n : p[i] = assets[i]
      /\ q \in Seq(Tokens) /\ Len(q) = n /\ \A i \in 1..n : q[i] = assets'[i]
  BY <1>2, <1>3, <1>7, FirstElements
<1>9. /\ IsFiniteSet(D) /\ Cardinality(D) \in Nat /\ Cardinality(D) <= moves
      /\ IsFiniteSet(E) /\ Cardinality(E) \in Nat
  <2>1. IsFiniteSet(ToSet(p)) /\ IsFiniteSet(ToSet(q))
    BY <1>8, ElementsOf
  <2>2. IsFiniteSet(D) /\ IsFiniteSet(E)
    BY <2>1, FS_Difference
  <2>3. Cardinality(D) \in Nat /\ Cardinality(E) \in Nat
    BY <2>2, FS_CardinalityType
  <2>4. Cardinality(D) <= moves
    BY <1>0 DEF PageInv
  <2> QED
    BY <2>2, <2>3, <2>4
<1>10. (moves' = 0 => read = q) /\ Cardinality(E) <= moves'
  <2>1. CASE ~Contains(assets, t)
    <3> HIDE DEF D, E, p, q, n
    <3>1. moves' = moves
      BY <1>1, <1>2, <2>1
    <3>2. \A i \in 1..n : p[i] = q[i]
      BY <1>2, <1>3, <1>8, <2>1 DEF n
    <3>3. p = q
      BY <1>8, <3>2, SeqEqual
    <3>4. moves = 0 => read = p
      BY <1>0 DEF PageInv, p, n
    <3>5. D = E
      BY <3>3 DEF D, E
    <3> QED
      BY <1>9, <3>1, <3>3, <3>4, <3>5
  <2>2. CASE Contains(assets, t)
    <3>1. moves' = moves + 1
      BY <1>1, <2>2
    <3>2. PICK x : E \in SUBSET (D \cup {x})
      <4> DEFINE x == assets'[n]
      <4> SUFFICES ToSet(q) \subseteq ToSet(p) \cup {x}
        OBVIOUS
      <4>1. DOMAIN q = 1..n /\ DOMAIN p = 1..n
        BY <1>8, LenProperties
      <4> HIDE DEF p, q
      <4>2. ASSUME NEW i \in 1..n PROVE q[i] \in ToSet(p) \cup {x}
        <5>1. CASE i = n
          BY <1>8, <5>1
        <5>2. CASE i # n
          <6>1. n \in 1..Len(assets) /\ i \in 1..(n - 1)
            BY <1>2, <5>2
          <6>2. PICK k \in 1..n : assets'[i] = assets[k]
            BY <1>3, <6>1
          <6>3. q[i] = p[k] /\ k \in DOMAIN p
            BY <1>8, <4>1, <6>2
          <6> QED
            BY <6>3 DEF ToSet
        <5> QED
          BY <5>1, <5>2
      <4> QED
        BY <4>1, <4>2 DEF ToSet
    <3> HIDE DEF D, E, p, q, n
    <3>3. /\ IsFiniteSet(D \cup {x})
          /\ Cardinality(D \cup {x}) = IF x \in D THEN Cardinality(D) ELSE Cardinality(D) + 1
      BY <1>9, FS_AddElement
    <3>4. Cardinality(D \cup {x}) \in Nat /\ Cardinality(D \cup {x}) <= Cardinality(D) + 1
      BY <1>9, <3>3
    <3>5. Cardinality(E) <= Cardinality(D \cup {x})
      BY <3>2, <3>3, FS_Subset
    <3> QED
      BY <1>2, <1>9, <3>1, <3>4, <3>5
  <2> QED
    BY <2>1, <2>2
<1>11. PageInv'
  BY <1>1, <1>7, <1>10 DEF PageInv
<1> QED
  BY <1>6, <1>11 DEF IInv

(* The rows of the account at a contract keep their keys apart. *)
LEMMA WriteStep ==
  ASSUME NEW c \in Contracts, NEW row \in Keys
  PROVE  IInv /\ (Write(c, row) \/ Erase(c, row)) => IInv'
<1> SUFFICES ASSUME IInv, Write(c, row) \/ Erase(c, row) PROVE IInv'
  OBVIOUS
<1>0. TypeOK
  BY DEF IInv
<1>1. declared' = declared /\ UNCHANGED <<assets, client>>
  BY DEF Write, Erase
<1>2. accounts \in [Contracts -> Seq(Keys)] /\ \A d \in Contracts : IsInjective(accounts[d])
  BY <1>0 DEF TypeOK, Keys
<1>3. \E rows \in Seq(Keys) :
        /\ IsInjective(rows)
        /\ accounts' = [accounts EXCEPT ![c] = rows]
  <2>1. CASE Write(c, row)
    <3>1. PICK i \in 1..(Len(accounts[c]) + 1) :
            accounts' = [accounts EXCEPT ![c] = InsertAt(accounts[c], i, row)]
      BY <2>1 DEF Write
    <3>2. \A j \in 1..Len(accounts[c]) : accounts[c][j] # row
      BY <2>1 DEF Write, Contains
    <3>3. InsertAt(accounts[c], i, row) \in Seq(Keys) /\ IsInjective(InsertAt(accounts[c], i, row))
      BY <1>2, <3>2, InsertNew
    <3> QED
      BY <3>1, <3>3
  <2>2. CASE Erase(c, row)
    <3>1. accounts' = [accounts EXCEPT ![c] = RemoveFirst(accounts[c], row)]
      BY <2>2 DEF Erase
    <3>2. /\ RemoveFirst(accounts[c], row) \in Seq(Keys)
          /\ IsInjective(RemoveFirst(accounts[c], row))
      BY <1>2, Removed
    <3> QED
      BY <3>1, <3>2
  <2> QED
    BY <2>1, <2>2
<1>4. accounts' \in [Contracts -> Seq(Keys)] /\ \A d \in Contracts : IsInjective(accounts'[d])
  BY <1>2, <1>3
<1>5. declared' \subseteq Contracts
  BY <1>0, <1>1 DEF TypeOK
<1> QED
  BY <1>1, <1>4, <1>5, ChainStep

LEMMA SetAbiStep == ASSUME NEW c \in Contracts PROVE IInv /\ SetAbi(c) => IInv'
<1> SUFFICES ASSUME IInv, SetAbi(c) PROVE IInv'
  OBVIOUS
<1>1. TypeOK
  BY DEF IInv
<1>2. UNCHANGED <<assets, client>> /\ accounts' = accounts
  BY DEF SetAbi
<1>3. declared' \subseteq Contracts
  BY <1>1 DEF SetAbi, TypeOK
<1>4. accounts' \in [Contracts -> Seq(Keys)] /\ \A d \in Contracts : IsInjective(accounts'[d])
  BY <1>1, <1>2 DEF TypeOK, Keys
<1> QED
  BY <1>2, <1>3, <1>4, ChainStep

LEMMA NextIInv == IInv /\ [Next]_vars => IInv'
<1> SUFFICES ASSUME IInv, [Next]_vars PROVE IInv'
  OBVIOUS
<1>1. CASE FirstPage
  BY <1>1, FirstPageStep
<1>2. CASE NextPage
  BY <1>2, NextPageStep
<1>3. CASE \E t \in Tokens : HandleCreate(t)
  BY <1>3, HandleCreateStep
<1>4. CASE \E c \in Contracts : SetAbi(c)
  BY <1>4, SetAbiStep
<1>5. CASE \E c \in Contracts, row \in Keys : Write(c, row) \/ Erase(c, row)
  BY <1>5, WriteStep
<1>6. CASE UNCHANGED vars
  <2>1. /\ UNCHANGED <<assets, client>>
        /\ declared' = declared /\ accounts' = accounts
    BY <1>6 DEF vars, client
  <2>2. declared' \subseteq Contracts /\ accounts' \in [Contracts -> Seq(Keys)]
    BY <2>1 DEF IInv, TypeOK, Keys
  <2>3. \A c \in Contracts : IsInjective(accounts'[c])
    BY <2>1 DEF IInv, TypeOK
  <2> QED
    BY <2>1, <2>2, <2>3, ChainStep
<1> QED
  BY <1>1, <1>2, <1>3, <1>4, <1>5, <1>6 DEF Next, Keys

(* The inductive invariant of the client and the tables.                   *)
THEOREM Invariance == Spec => []IInv
BY InitIInv, NextIInv, PTL DEF Spec

(* Every variable has its type: in particular the table has one row for a  *)
(* token, and the account one balance for a symbol at each contract.       *)
THEOREM TypeCorrectness == Spec => []TypeOK
<1>1. IInv => TypeOK
  BY DEF IInv
<1> QED
  BY <1>1, Invariance, PTL

(* A client that turns pages misses or repeats at most as many tokens as   *)
(* were created again since its first page: what it read twice is what is  *)
(* missing from the rows it passed.                                        *)
THEOREM PagesAreTurned == Spec => []PagesMissOnlyMoved
<1>1. IInv => PagesMissOnlyMoved
  <2> SUFFICES ASSUME IInv PROVE PagesMissOnlyMoved
    OBVIOUS
  <2> DEFINE n == Len(read)
             p == SubSeq(assets, 1, n)
             P == ToSet(p)
             R == ToSet(read)
  <2>1. TypeOK /\ PageInv
    BY DEF IInv
  <2>2. /\ assets \in Seq(Tokens) /\ IsInjective(assets) /\ DOMAIN assets = 1..Len(assets)
        /\ read \in Seq(Tokens) /\ n \in 0..Len(assets) /\ moves \in Nat /\ Len(assets) \in Nat
    BY <2>1, Lengths DEF TypeOK, PageInv
  <2>3. p \in Seq(Tokens) /\ Len(p) = n /\ \A i \in 1..n : p[i] = assets[i]
    BY <2>2, FirstElements
  <2>4. IsInjective(p)
    <3>1. DOMAIN p = 1..n
      BY <2>3, LenProperties
    <3> HIDE DEF p
    <3> QED
      BY <2>2, <2>3, <3>1 DEF IsInjective
  <2> HIDE DEF p
  <2>5. IsFiniteSet(P) /\ Cardinality(P) = n /\ IsFiniteSet(R) /\ Cardinality(R) \in Nat
    BY <2>2, <2>3, <2>4, ElementsOf
  <2>6. moves = 0 => read = p
    BY <2>1 DEF PageInv, p
  <2>7. Cardinality(P \ R) <= moves
    BY <2>1 DEF PageInv, p
  <2> HIDE DEF P, R, n
  <2>8. IsFiniteSet(P \ R) /\ Cardinality(P \ R) \in Nat
    BY <2>5, FS_Difference, FS_CardinalityType
  <2>9. n <= Cardinality(P \ R) + Cardinality(R)
    <3>1. P \in SUBSET ((P \ R) \cup R) /\ (P \ R) \cap R = {}
      OBVIOUS
    <3>2. /\ IsFiniteSet((P \ R) \cup R)
          /\ Cardinality((P \ R) \cup R) =
               Cardinality(P \ R) + Cardinality(R) - Cardinality((P \ R) \cap R)
      BY <2>5, <2>8, FS_Union
    <3>3. Cardinality((P \ R) \cap R) = 0
      BY <3>1, FS_EmptySet
    <3>4. Cardinality(P) <= Cardinality((P \ R) \cup R)
      BY <3>1, <3>2, FS_Subset
    <3> QED
      BY <2>2, <2>5, <2>8, <3>2, <3>3, <3>4
  <2>10. n - Cardinality(R) <= moves
    BY <2>2, <2>5, <2>7, <2>8, <2>9
  <2> QED
    BY <2>6, <2>7, <2>10 DEF PagesMissOnlyMoved, n, p, P, R
<1> QED
  BY <1>1, Invariance, PTL
-----------------------------------------------------------------------------
(* What the calls make of the tables.                                      *)

Entry == [token : Tokens, held : BOOLEAN]

(* What the chain has of a token; zero says whether nothing at all counts. *)
Entries(t, zero) ==
  IF t.contract \in declared /\ Readable(t) THEN <<Has(t)>>
  ELSE IF zero /\ t.contract \in declared /\ accounts[t.contract] = NoTable THEN <<Zero(t)>>
  ELSE <<>>

(* The walk finds the row of a symbol if it comes to it, and no table only *)
(* where there is none.                                                    *)
LEMMA WalkFinds ==
  ASSUME TypeOK, NEW t \in Tokens
  PROVE  /\ Walk(t.contract, {t.symbol, Broken}) = t.symbol <=> Readable(t)
         /\ Walk(t.contract, {t.symbol, Broken}) = "no table" <=> accounts[t.contract] = NoTable
         /\ t.symbol \notin {Broken, "no table", "no row"}
<1> DEFINE rows == accounts[t.contract]
           s == t.symbol
           stops == {i \in DOMAIN rows : rows[i] \in {s, Broken}}
           w == Walk(t.contract, {t.symbol, Broken})
<1>1. /\ rows \in Seq(Keys) /\ s \in Symbols /\ s \notin {Broken, "no table", "no row"}
  BY TokenReadsAssumption DEF TypeOK, Tokens, Keys
<1>2. Len(rows) \in Nat /\ DOMAIN rows = 1..Len(rows)
  BY <1>1, LenProperties
<1>3. w = IF rows = NoTable THEN "no table"
          ELSE IF stops = {} THEN "no row" ELSE rows[Min(stops)]
  BY DEF Walk
<1>4. Broken # "no table" /\ Broken # "no row" /\ "no table" # "no row"
  BY DEF Broken
<1>5. Readable(t) <=> \E i \in 1..Len(rows) : rows[i] = s /\ \A j \in 1..i : rows[j] # Broken
  BY <1>2 DEF Readable
<1> HIDE DEF w, rows, s
<1>6. stops # {} => Min(stops) \in stops /\ \A k \in stops : Min(stops) <= k
  <2>1. stops \subseteq Nat
    BY <1>2
  <2> HIDE DEF stops
  <2> QED
    BY <2>1, Least
<1>7. ASSUME w = s PROVE \E i \in 1..Len(rows) : rows[i] = s /\ \A j \in 1..i : rows[j] # Broken
  <2>1. stops # {} /\ rows[Min(stops)] = s
    BY <1>1, <1>3, <1>4, <1>7
  <2> DEFINE m == Min(stops)
  <2>2. m \in stops /\ \A k \in stops : m <= k
    BY <1>6, <2>1
  <2>3. rows[m] = s
    BY <2>1
  <2> HIDE DEF m
  <2>4. m \in 1..Len(rows)
    BY <1>2, <2>2
  <2>5. ASSUME NEW j \in 1..m, rows[j] = Broken PROVE FALSE
    <3>1. j \in stops
      BY <1>2, <2>4, <2>5
    <3>2. m <= j
      BY <2>2, <3>1
    <3>3. j = m
      BY <1>2, <2>4, <3>2
    <3> QED
      BY <1>1, <2>3, <2>5, <3>3
  <2> QED
    BY <2>3, <2>4, <2>5
<1>8. ASSUME NEW i \in 1..Len(rows), rows[i] = s, \A j \in 1..i : rows[j] # Broken
      PROVE  w = s
  <2>1. i \in stops
    BY <1>2, <1>8
  <2> DEFINE m == Min(stops)
  <2>2. m \in stops /\ m <= i
    BY <1>6, <2>1
  <2>3. rows # NoTable
    BY <1>2, <1>8 DEF NoTable
  <2>4. w = rows[m]
    BY <1>3, <2>1, <2>3
  <2> HIDE DEF m
  <2>5. m \in 1..i /\ rows[m] \in {s, Broken}
    BY <1>2, <2>2
  <2> QED
    BY <1>8, <2>4, <2>5
<1>9. w = "no table" <=> rows = NoTable
  <2>1. stops # {} => rows[Min(stops)] \in {s, Broken}
    BY <1>6
  <2> HIDE DEF stops
  <2> QED
    BY <1>1, <1>3, <1>4, <2>1
<1> QED
  BY <1>1, <1>5, <1>7, <1>8, <1>9 DEF w, rows, s

(* What each of the loops reports of one token. *)
LEMMA EntriesOf ==
  ASSUME TypeOK, NEW t \in Tokens
  PROVE  /\ Has(t) \in Entry /\ Zero(t) \in Entry /\ Has(t) # Zero(t)
         /\ Has(t).token = t /\ Zero(t).token = t
         /\ AllTokensEntries(t) = Entries(t, TRUE)
         /\ HoldTokensEntries(t) = Entries(t, FALSE)
         /\ \A precision \in Nat : TokenEntries(t, precision) = Entries(t, precision \in 0..18)
<1> DEFINE w == Walk(t.contract, {t.symbol, Broken})
           here == t.contract \in declared
           none == accounts[t.contract] = NoTable
<1>1. /\ w = t.symbol <=> Readable(t)
      /\ w = "no table" <=> none
      /\ t.symbol \notin {Broken, "no table", "no row"}
  BY WalkFinds
<1>2. Broken # "no table"
  BY DEF Broken
<1>3. HasTable(t.contract) <=> here
  BY DEF HasTable
<1>4. /\ Has(t).token = t /\ Has(t).held = TRUE
      /\ Zero(t).token = t /\ Zero(t).held = FALSE
  BY DEF Has, Zero
<1>5. Has(t) \in Entry /\ Zero(t) \in Entry
  <2>1. TRUE \in BOOLEAN /\ FALSE \in BOOLEAN
    OBVIOUS
  <2> QED
    BY <2>1 DEF Entry, Has, Zero
<1>6. Has(t) # Zero(t)
  BY <1>4
<1>7. AllTokensEntries(t) = IF ~HasTable(t.contract) \/ w = Broken THEN <<>>
                            ELSE IF w = t.symbol THEN <<Has(t)>>
                            ELSE IF w = "no table" THEN <<Zero(t)>> ELSE <<>>
  BY DEF AllTokensEntries
<1>8. HoldTokensEntries(t) =
        IF ~HasTable(t.contract) \/ w # t.symbol THEN <<>> ELSE <<Has(t)>>
  BY DEF HoldTokensEntries
<1>9. \A precision \in Nat :
        TokenEntries(t, precision) =
          IF ~HasTable(t.contract) \/ w = Broken THEN <<>>
          ELSE IF w = t.symbol THEN <<Has(t)>>
          ELSE IF w = "no table" /\ ~(precision > 18) THEN <<Zero(t)>> ELSE <<>>
  BY DEF TokenEntries
<1>10. \A zero \in BOOLEAN :
         Entries(t, zero) = IF here /\ Readable(t) THEN <<Has(t)>>
                            ELSE IF zero /\ here /\ none THEN <<Zero(t)>> ELSE <<>>
  BY DEF Entries
<1> HIDE DEF w, here, none
<1>11. AllTokensEntries(t) = Entries(t, TRUE)
  <2>1. Entries(t, TRUE) = IF here /\ Readable(t) THEN <<Has(t)>>
                           ELSE IF here /\ none THEN <<Zero(t)>> ELSE <<>>
    BY <1>10
  <2>2. CASE here /\ Readable(t)
    BY <1>1, <1>3, <1>7, <2>1, <2>2
  <2>3. CASE ~(here /\ Readable(t)) /\ here /\ none
    BY <1>1, <1>2, <1>3, <1>7, <2>1, <2>3
  <2>4. CASE ~(here /\ Readable(t)) /\ ~(here /\ none)
    BY <1>1, <1>3, <1>7, <2>1, <2>4
  <2> QED
    BY <2>2, <2>3, <2>4
<1>12. HoldTokensEntries(t) = Entries(t, FALSE)
  BY <1>1, <1>2, <1>3, <1>8, <1>10
<1>13. ASSUME NEW precision \in Nat
       PROVE  TokenEntries(t, precision) = Entries(t, precision \in 0..18)
  <2>1. CASE precision \in 0..18
    <3>1. ~(precision > 18) /\ (precision \in 0..18) = TRUE
      BY <2>1
    <3> QED
      BY <1>1, <1>2, <1>3, <1>9, <1>10, <3>1
  <2>2. CASE precision \notin 0..18
    <3>1. precision > 18 /\ (precision \in 0..18) = FALSE
      BY <2>2
    <3> QED
      BY <1>1, <1>2, <1>3, <1>9, <1>10, <3>1
  <2> QED
    BY <2>1, <2>2
<1> QED
  BY <1>4, <1>5, <1>6, <1>11, <1>12, <1>13

(* An answer is the entries of its tokens, one after the other. *)
EntriesEach(tokens, zero) == [i \in DOMAIN tokens |-> Entries(tokens[i], zero)]
Answer(tokens, zero) == FlattenSeq(EntriesEach(tokens, zero))

LEMMA AnswerIs ==
  ASSUME TypeOK, NEW tokens \in Seq(Tokens), NEW zero \in BOOLEAN
  PROVE  /\ EntriesEach(tokens, zero) \in Seq(Seq(Entry))
         /\ Len(EntriesEach(tokens, zero)) = Len(tokens)
         /\ \A i \in 1..Len(tokens) : EntriesEach(tokens, zero)[i] = Entries(tokens[i], zero)
         /\ Answer(tokens, zero) = FlattenSeq(EntriesEach(tokens, zero))
<1> DEFINE e == EntriesEach(tokens, zero)
<1>1. Len(tokens) \in Nat /\ DOMAIN tokens = 1..Len(tokens)
      /\ \A i \in 1..Len(tokens) : tokens[i] \in Tokens
  BY LenProperties, ElementOfSeq
<1>2. \A t \in Tokens : Entries(t, zero) \in Seq(Entry)
  <2> SUFFICES ASSUME NEW t \in Tokens PROVE Entries(t, zero) \in Seq(Entry)
    OBVIOUS
  <2>1. Entries(t, zero) \in {<<>>, <<Has(t)>>, <<Zero(t)>>}
    BY DEF Entries
  <2>2. Has(t) \in Entry /\ Zero(t) \in Entry
    BY EntriesOf
  <2>3. \A x \in Entry : <<x>> \in Seq(Entry)
    OBVIOUS
  <2>4. <<>> \in Seq(Entry)
    OBVIOUS
  <2> QED
    BY <2>1, <2>2, <2>3, <2>4
<1>3. e = [i \in 1..Len(tokens) |-> Entries(tokens[i], zero)]
  BY <1>1 DEF EntriesEach
<1>4. e \in [1..Len(tokens) -> Seq(Entry)]
  BY <1>1, <1>2, <1>3
<1>5. e \in Seq(Seq(Entry)) /\ Len(e) = Len(tokens)
  <2> HIDE DEF e
  <2> QED
    BY <1>1, <1>4, SequenceOf
<1>6. Answer(tokens, zero) = FlattenSeq(e)
  BY DEF Answer
<1> QED
  BY <1>3, <1>5, <1>6

-----------------------------------------------------------------------------
(* The answers.                                                            *)

(* Each call answers with what the chain has of its tokens. *)
LEMMA Answers ==
  ASSUME TypeOK
  PROVE  /\ GetAllTokens(0, MaxAssets) = Answer(assets, TRUE)
         /\ GetHoldTokens = Answer(assets, FALSE)
         /\ \A precision \in Nat :
              GetTokens(assets, precision) = Answer(assets, precision \in 0..18)
<1>1. /\ Len(assets) \in Nat /\ assets \in Seq(Tokens) /\ MaxAssets \in Nat
      /\ Len(assets) <= MaxAssets /\ DOMAIN assets = 1..Len(assets)
      /\ \A i \in DOMAIN assets : assets[i] \in Tokens
  BY Lengths DEF TypeOK
<1>2. Page(0, MaxAssets) = assets
  <2> DEFINE n == 0
             m == Min({n + MaxAssets, Len(assets)})
  <2>1. n \in Nat /\ n + MaxAssets = MaxAssets /\ n + 1 = 1
    BY <1>1
  <2>2. Page(n, MaxAssets) = SubSeq(assets, n + 1, m)
    BY DEF Page
  <2> HIDE DEF n
  <2>3. m = Len(assets)
    <3> DEFINE S == {n + MaxAssets, Len(assets)}
    <3>1. S \subseteq Nat /\ S # {} /\ n + MaxAssets \in S /\ Len(assets) \in S
      BY <1>1, <2>1
    <3>2. \A x \in S : x = n + MaxAssets \/ x = Len(assets)
      OBVIOUS
    <3> HIDE DEF S
    <3>3. Min(S) \in S /\ \A k \in S : Min(S) <= k
      BY <3>1, Least
    <3> QED
      BY <1>1, <2>1, <3>1, <3>2, <3>3 DEF S
  <2>4. Page(n, MaxAssets) = assets
    BY <1>1, <2>1, <2>2, <2>3, SubSeqFull
  <2> QED
    BY <2>4 DEF n
<1>3. GetAllTokens(0, MaxAssets) = Answer(assets, TRUE)
  <2>1. ~(0 < 0) /\ ~(MaxAssets < 0)
    BY <1>1
  <2>2. GetAllTokens(0, MaxAssets) =
          FlattenSeq([i \in DOMAIN assets |-> AllTokensEntries(assets[i])])
    BY <1>2, <2>1 DEF GetAllTokens
  <2>3. [i \in DOMAIN assets |-> AllTokensEntries(assets[i])] = EntriesEach(assets, TRUE)
    BY <1>1, EntriesOf DEF EntriesEach
  <2> QED
    BY <2>2, <2>3 DEF Answer
<1>4. GetHoldTokens = Answer(assets, FALSE)
  <2>1. [i \in DOMAIN assets |-> HoldTokensEntries(assets[i])] = EntriesEach(assets, FALSE)
    BY <1>1, EntriesOf DEF EntriesEach
  <2> QED
    BY <2>1 DEF Answer, GetHoldTokens
<1>5. ASSUME NEW precision \in Nat
      PROVE  GetTokens(assets, precision) = Answer(assets, precision \in 0..18)
  <2> DEFINE zero == precision \in 0..18
  <2>1. \A i \in DOMAIN assets :
          TokenEntries(assets[i], precision) = Entries(assets[i], zero)
    BY <1>1, EntriesOf
  <2> HIDE DEF zero
  <2>2. [i \in DOMAIN assets |-> TokenEntries(assets[i], precision)]
          = EntriesEach(assets, zero)
    BY <2>1 DEF EntriesEach
  <2>3. GetTokens(assets, precision) = Answer(assets, zero)
    BY <2>2 DEF Answer, GetTokens
  <2> QED
    BY <2>3 DEF zero
<1> QED
  BY <1>3, <1>4, <1>5

(* The entries of the list are about its tokens, each one's at most once.  *)
LEMMA ReportedOnce ==
  ASSUME TypeOK, NEW zero \in BOOLEAN
  PROVE  LET all == Answer(assets, zero)
         IN  \A i, j \in 1..Len(all) : all[i].token = all[j].token => i = j
<1> DEFINE e == EntriesEach(assets, zero)
           A(n) == SubSeq(e, 1, n)
           F(n) == FlattenSeq(A(n))
           P(n) == n <= Len(assets) =>
                     /\ \A i \in 1..Len(F(n)) : \E k \in 1..n : F(n)[i].token = assets[k]
                     /\ \A i, j \in 1..Len(F(n)) : F(n)[i].token = F(n)[j].token => i = j
           T == {n \in Nat : P(n)}
<1>1. /\ assets \in Seq(Tokens) /\ IsInjective(assets)
      /\ Len(assets) \in Nat /\ DOMAIN assets = 1..Len(assets)
      /\ \A i \in 1..Len(assets) : assets[i] \in Tokens
  BY Lengths DEF TypeOK
<1>2. /\ e \in Seq(Seq(Entry)) /\ Len(e) = Len(assets)
      /\ \A i \in 1..Len(assets) : e[i] = Entries(assets[i], zero)
      /\ Answer(assets, zero) = FlattenSeq(e)
  BY <1>1, AnswerIs
<1> HIDE DEF e
<1>3. P(0)
  <2>1. F(0) = <<>>
    <3>1. A(0) = <<>>
      BY SubSeqEmpty
    <3> QED
      BY <3>1, FlattenEmpty
  <2>2. Len(<<>>) = 0
    OBVIOUS
  <2> HIDE DEF F
  <2>3. \A i \in 1..Len(F(0)) : FALSE
    BY <2>1, <2>2
  <2> QED
    BY <2>3
<1>4. ASSUME NEW n \in Nat, n < Len(assets), P(n) PROVE P(n + 1)
  <2>1. n \in 0..Len(assets) /\ n <= Len(assets) /\ n + 1 \in 1..Len(assets)
    BY <1>1, <1>4
  <2>2. /\ \A i \in 1..Len(F(n)) : \E k \in 1..n : F(n)[i].token = assets[k]
        /\ \A i, j \in 1..Len(F(n)) : F(n)[i].token = F(n)[j].token => i = j
    BY <1>4, <2>1
  <2> DEFINE t == assets[n + 1]
             x == e[n + 1]
             E == Seq(Entry)
  <2>3. e \in Seq(E) /\ n < Len(e) /\ n \in 0..Len(e)
    BY <1>2, <1>4, <2>1
  <2>4. t \in Tokens /\ x = Entries(t, zero)
    BY <1>1, <1>2, <2>1
  <2> HIDE DEF E, t, x
  <2>5. A(n) \in Seq(E) /\ x \in E /\ A(n + 1) = Append(A(n), x)
    BY <2>3, FirstElements DEF x
  <2> HIDE DEF A
  <2>6. F(n + 1) = F(n) \o x
    BY <2>5, FlattenAppend DEF E
  <2>7. F(n) \in Seq(Entry) /\ x \in Seq(Entry)
    BY <2>5, FlattenType DEF E
  <2>8. x = <<>> \/ (Len(x) = 1 /\ x[1].token = t)
    <3>1. x \in {<<>>, <<Has(t)>>, <<Zero(t)>>} /\ Has(t).token = t /\ Zero(t).token = t
      BY <2>4, EntriesOf DEF Entries
    <3> QED
      BY <3>1
  <2> DEFINE f == F(n)
             g == F(n + 1)
  <2>9. Len(f) \in Nat /\ g = f \o x
    BY <2>6, <2>7, LenProperties
  <2>10. /\ \A i \in 1..Len(f) : \E k \in 1..n : f[i].token = assets[k]
         /\ \A i, j \in 1..Len(f) : f[i].token = f[j].token => i = j
    BY <2>2
  <2>11. f \in Seq(Entry)
    BY <2>7
  <2> HIDE DEF F, f, g
  <2>12. SUFFICES /\ \A i \in 1..Len(g) : \E k \in 1..(n + 1) : g[i].token = assets[k]
                  /\ \A i, j \in 1..Len(g) : g[i].token = g[j].token => i = j
    BY DEF g
  <2>13. CASE x = <<>>
    <3>1. g = f
      BY <2>9, <2>11, <2>13, ConcatEmptySeq
    <3>2. \A k \in 1..n : k \in 1..(n + 1)
      OBVIOUS
    <3> QED
      BY <2>10, <3>1, <3>2
  <2>14. CASE Len(x) = 1 /\ x[1].token = t
    <3>1. /\ Len(g) = Len(f) + 1
          /\ \A i \in 1..Len(f) : g[i] = f[i]
          /\ g[Len(f) + 1] = x[1]
      <4>1. /\ Len(g) = Len(f) + Len(x)
            /\ \A i \in 1..(Len(f) + Len(x)) : g[i] = IF i <= Len(f) THEN f[i] ELSE x[i - Len(f)]
        BY <2>7, <2>9, <2>11, ConcatProperties
      <4>2. /\ Len(f) + 1 \in 1..(Len(f) + Len(x)) /\ ~(Len(f) + 1 <= Len(f))
            /\ (Len(f) + 1) - Len(f) = 1
        BY <2>9, <2>14
      <4> QED
        BY <2>9, <2>14, <4>1, <4>2
    \* The token is not one of those before it.
    <3>2. ASSUME NEW i \in 1..Len(f) PROVE f[i].token # t
      <4>1. PICK k \in 1..n : f[i].token = assets[k]
        BY <2>10
      <4>2. k \in 1..Len(assets) /\ k # n + 1
        BY <1>1, <2>1
      <4>3. assets[k] # assets[n + 1]
        BY <1>1, <2>1, <4>2 DEF IsInjective
      <4> QED
        BY <4>1, <4>3 DEF t
    <3>3. ASSUME NEW i \in 1..Len(g)
          PROVE  \/ i \in 1..Len(f) /\ g[i] = f[i]
                 \/ i = Len(f) + 1 /\ g[i].token = t
      BY <2>9, <2>14, <3>1
    <3>4. \A i \in 1..Len(g) : \E k \in 1..(n + 1) : g[i].token = assets[k]
      <4>1. n + 1 \in 1..(n + 1) /\ \A k \in 1..n : k \in 1..(n + 1)
        OBVIOUS
      <4> QED
        BY <2>10, <3>3, <4>1 DEF t
    <3>5. ASSUME NEW i \in 1..Len(g), NEW j \in 1..Len(g), g[i].token = g[j].token
          PROVE  i = j
      BY <2>10, <3>2, <3>3, <3>5
    <3> QED
      BY <3>4, <3>5
  <2> QED
    BY <2>8, <2>13, <2>14
<1>5. P(Len(assets)) =>
        \A i, j \in 1..Len(FlattenSeq(e)) :
          FlattenSeq(e)[i].token = FlattenSeq(e)[j].token => i = j
  <2>1. A(Len(assets)) = e /\ Len(assets) <= Len(assets)
    <3> DEFINE E == Seq(Entry)
    <3>1. e \in Seq(E)
      BY <1>2
    <3> HIDE DEF E
    <3> QED
      BY <1>1, <1>2, <3>1, SubSeqFull
  <2>2. F(Len(assets)) = FlattenSeq(e)
    BY <2>1
  <2> HIDE DEF F
  <2> QED
    BY <2>1, <2>2
<1> HIDE DEF P
<1>6. 0 \in T /\ \A n \in Nat : n < Len(assets) /\ n \in T => n + 1 \in T
  BY <1>3, <1>4
<1>7. Len(assets) \in T
  <2> HIDE DEF T
  <2>1. \A n \in 0..Len(assets) : n \in T
    BY <1>1, <1>6, UpTo
  <2> QED
    BY <1>1, <2>1
<1> QED
  BY <1>2, <1>5, <1>7

(* What an answer says of a token is what the chain has of it, and none is *)
(* in an answer twice.                                                     *)
LEMMA AnswerReports ==
  ASSUME TypeOK, NEW zero \in BOOLEAN
  PROVE  Reports(Answer(assets, zero), zero)
<1> DEFINE all == Answer(assets, zero)
           e == EntriesEach(assets, zero)
<1>1. /\ assets \in Seq(Tokens) /\ DOMAIN assets = 1..Len(assets)
      /\ \A i \in 1..Len(assets) : assets[i] \in Tokens
  <2>1. assets \in Seq(Tokens)
    BY DEF TypeOK
  <2> QED
    BY <2>1, Lengths
<1>2. /\ e \in Seq(Seq(Entry)) /\ Len(e) = Len(assets)
      /\ \A i \in 1..Len(assets) : e[i] = Entries(assets[i], zero)
      /\ all = FlattenSeq(e)
  BY <1>1, AnswerIs DEF Answer
<1> HIDE DEF e, all
<1>3. all \in Seq(Entry)
  BY <1>2, FlattenType
<1>4. DOMAIN all = 1..Len(all)
  BY <1>3, LenProperties
<1>5. \A x : x \in ToSet(all) <=> \E i \in 1..Len(assets) : Contains(Entries(assets[i], zero), x)
  <2>1. \A x : Contains(all, x) <=> \E i \in 1..Len(e) : Contains(e[i], x)
    BY <1>2, FlattenContains
  <2>2. \A x : x \in ToSet(all) <=> Contains(all, x)
    BY <1>4 DEF ToSet, Contains
  <2> QED
    BY <1>2, <2>1, <2>2
<1>6. ASSUME NEW t \in ToSet(assets)
      PROVE  /\ Has(t) \in ToSet(all) <=> t.contract \in declared /\ Readable(t)
             /\ Zero(t) \in ToSet(all) <=>
                  zero /\ t.contract \in declared /\ accounts[t.contract] = NoTable
  <2> DEFINE none == zero /\ t.contract \in declared /\ accounts[t.contract] = NoTable
  <2>1. PICK o \in 1..Len(assets) : assets[o] = t
    BY <1>1 DEF ToSet
  <2>7. \A x, y : Contains(<<y>>, x) <=> x = y
    BY DEF Contains
  <2>8. \A x : ~Contains(<<>>, x)
    BY DEF Contains
  <2>2. \A u \in Tokens : \A x : Contains(Entries(u, zero), x) => x \in {Has(u), Zero(u)}
    <3> SUFFICES ASSUME NEW u \in Tokens, NEW x, Contains(Entries(u, zero), x)
                 PROVE  x \in {Has(u), Zero(u)}
      OBVIOUS
    <3>1. Entries(u, zero) \in {<<>>, <<Has(u)>>, <<Zero(u)>>}
      BY DEF Entries
    <3>2. CASE Entries(u, zero) = <<>>
      BY <2>8, <3>2
    <3>3. CASE Entries(u, zero) = <<Has(u)>>
      <4>1. Contains(<<Has(u)>>, x)
        BY <3>3
      <4>2. x = Has(u)
        BY <2>7, <4>1
      <4> QED
        BY <4>2
    <3>4. CASE Entries(u, zero) = <<Zero(u)>>
      <4>1. Contains(<<Zero(u)>>, x)
        BY <3>4
      <4>2. x = Zero(u)
        BY <2>7, <4>1
      <4> QED
        BY <4>2
    <3> QED
      BY <3>1, <3>2, <3>3, <3>4
  <2>3. \A u \in Tokens : Has(u).token = u /\ Zero(u).token = u
    BY EntriesOf
  <2>5. t \in Tokens
    BY <1>1, <2>1
  <2>4. ASSUME NEW x \in {Has(t), Zero(t)}
        PROVE  x \in ToSet(all) <=> Contains(Entries(t, zero), x)
    <3>1. x.token = t
      BY <2>3, <2>5
    <3>2. ASSUME NEW i \in 1..Len(assets), Contains(Entries(assets[i], zero), x)
          PROVE  assets[i] = t
      <4>1. assets[i] \in Tokens
        BY <1>1
      <4>2. x \in {Has(assets[i]), Zero(assets[i])}
        BY <2>2, <3>2, <4>1
      <4>3. x.token = assets[i]
        BY <2>3, <4>1, <4>2
      <4> QED
        BY <3>1, <4>3
    <3>3. x \in ToSet(all) => Contains(Entries(t, zero), x)
      BY <1>5, <3>2
    <3>4. Contains(Entries(t, zero), x) => x \in ToSet(all)
      BY <1>5, <2>1
    <3> QED
      BY <3>3, <3>4
  <2>6. Readable(t) => accounts[t.contract] # NoTable
    BY DEF Readable, NoTable
  <2>9. /\ Has(t) # Zero(t)
        /\ Entries(t, zero) = IF t.contract \in declared /\ Readable(t) THEN <<Has(t)>>
                              ELSE IF none THEN <<Zero(t)>> ELSE <<>>
    BY <2>5, EntriesOf DEF Entries
  <2>13. /\ Has(t) \in ToSet(all) <=> Contains(Entries(t, zero), Has(t))
         /\ Zero(t) \in ToSet(all) <=> Contains(Entries(t, zero), Zero(t))
    BY <2>4
  <2>10. CASE t.contract \in declared /\ Readable(t)
    <3>1. Entries(t, zero) = <<Has(t)>>
      BY <2>9, <2>10
    <3>2. Contains(<<Has(t)>>, Has(t)) /\ ~Contains(<<Has(t)>>, Zero(t))
      BY <2>7, <2>9
    <3>3. Has(t) \in ToSet(all) /\ Zero(t) \notin ToSet(all)
      BY <2>13, <3>1, <3>2
    <3>4. accounts[t.contract] # NoTable
      BY <2>6, <2>10
    <3> QED
      BY <2>10, <3>3, <3>4
  <2>11. CASE ~(t.contract \in declared /\ Readable(t)) /\ none
    <3>1. Entries(t, zero) = <<Zero(t)>>
      BY <2>9, <2>11
    <3>2. Contains(<<Zero(t)>>, Zero(t)) /\ ~Contains(<<Zero(t)>>, Has(t))
      BY <2>7, <2>9
    <3>3. Zero(t) \in ToSet(all) /\ Has(t) \notin ToSet(all)
      BY <2>13, <3>1, <3>2
    <3> QED
      BY <2>11, <3>3
  <2>12. CASE ~(t.contract \in declared /\ Readable(t)) /\ ~none
    <3>1. Entries(t, zero) = <<>>
      BY <2>9, <2>12
    <3> QED
      BY <2>8, <2>12, <2>13, <3>1
  <2> QED
    BY <2>10, <2>11, <2>12
<1>7. \A i, j \in DOMAIN all : all[i].token = all[j].token => i = j
  BY <1>4, ReportedOnce DEF all
<1> QED
  BY <1>6, <1>7 DEF Reports, all

(* The three calls report what the chain has of their tokens, none twice,  *)
(* and differ in the zeros that they report.                               *)
THEOREM HeldTokensAreReported == Spec => []HeldIsReported
<1>1. TypeOK => HeldIsReported
  <2> SUFFICES ASSUME TypeOK PROVE HeldIsReported
    OBVIOUS
  <2>1. Reports(GetAllTokens(0, MaxAssets), TRUE) /\ Reports(GetHoldTokens, FALSE)
    BY Answers, AnswerReports
  <2>2. ASSUME NEW precision \in {0, 18, 19, 255}
        PROVE  Reports(GetTokens(assets, precision), precision \in 0..18)
    <3> DEFINE zero == precision \in 0..18
    <3>1. precision \in Nat /\ zero \in BOOLEAN
      OBVIOUS
    <3>2. GetTokens(assets, precision) = Answer(assets, zero)
      BY <3>1, Answers
    <3> HIDE DEF zero
    <3>3. Reports(Answer(assets, zero), zero)
      BY <3>1, AnswerReports
    <3> QED
      BY <3>2, <3>3 DEF zero
  <2> QED
    BY <2>1, <2>2 DEF HeldIsReported
<1> QED
  BY <1>1, TypeCorrectness, PTL

-----------------------------------------------------------------------------
(* Quantities: the text of an amount reads back as the amount.             *)

LEMMA Precisions ==
  /\ Precision[0] = 1
  /\ \A n \in Nat : Precision[n] \in Nat \ {0} /\ Precision[n + 1] = 10 * Precision[n]
<1> DEFINE Body(f) == [n \in Nat |-> IF n = 0 THEN 1 ELSE 10 * f[n - 1]]
<1>1. \E f : f = Body(f)
  <2> DEFINE b == [n \in Nat |-> 1]
             d == [n \in Nat |-> IF n = 0 THEN 0 ELSE n - 1]
             h == [x \in Nat \X Nat |-> 10 * x[2]]
  <2>1. b \in [Nat -> Nat] /\ d \in [Nat -> Nat] /\ h \in [Nat \X Nat -> Nat]
    OBVIOUS
  <2>2. Descends(d, {0})
    BY DEF Descends
  <2>3. /\ \A n \in Nat : b[n] = 1 /\ (n # 0 => d[n] = n - 1)
        /\ \A n \in Nat, v \in Nat : h[<<n, v>>] = 10 * v
    OBVIOUS
  <2> HIDE DEF b, d, h
  <2>4. PICK f \in [Nat -> Nat] : Unfolds(f, {0}, b, d, h)
    BY <2>1, <2>2, Recursion
  <2>5. \A n \in Nat : f[n] = IF n = 0 THEN 1 ELSE 10 * f[n - 1]
    <3> SUFFICES ASSUME NEW n \in Nat PROVE f[n] = IF n = 0 THEN 1 ELSE 10 * f[n - 1]
      OBVIOUS
    <3>1. f[n] = IF n \in {0} THEN b[n] ELSE h[<<n, f[d[n]]>>]
      BY <2>4 DEF Unfolds
    <3>2. n # 0 => d[n] = n - 1 /\ f[n - 1] \in Nat
      BY <2>3
    <3>3. n # 0 => h[<<n, f[n - 1]>>] = 10 * f[n - 1]
      BY <2>3, <3>2
    <3> QED
      BY <2>3, <3>1, <3>2, <3>3
  <2>6. f = Body(f)
    BY <2>5
  <2> QED
    BY <2>6
<1>2. Precision = Body(Precision)
  BY <1>1 DEF Precision
<1>3. \A n \in Nat : Precision[n] = IF n = 0 THEN 1 ELSE 10 * Precision[n - 1]
  BY <1>2
<1> HIDE DEF Body
<1>4. \A n \in Nat : Precision[n + 1] = 10 * Precision[n]
  BY <1>3
<1> DEFINE S == {n \in Nat : Precision[n] \in Nat \ {0}}
<1>5. ASSUME NEW n \in Nat PROVE n \in S
  <2>1. 0 \in S
    BY <1>3
  <2>2. \A k \in Nat : k < n /\ k \in S => k + 1 \in S
    BY <1>4
  <2>3. n \in 0..n
    OBVIOUS
  <2> HIDE DEF S
  <2> QED
    BY <2>1, <2>2, <2>3, UpTo
<1> QED
  BY <1>3, <1>4, <1>5

LEMMA DigitsOf ==
  \A n \in Nat : Digits[n] = IF n < 10 THEN <<n>> ELSE Append(Digits[n \div 10], n % 10)
<1> DEFINE Body(f) == [n \in Nat |-> IF n < 10 THEN <<n>> ELSE Append(f[n \div 10], n % 10)]
<1>1. \E f : f = Body(f)
  <2> DEFINE S == Seq(Nat)
             b == [n \in Nat |-> <<n>>]
             d == [n \in Nat |-> n \div 10]
             h == [x \in Nat \X S |-> Append(x[2], x[1] % 10)]
  <2>1. b \in [Nat -> S] /\ d \in [Nat -> Nat]
    OBVIOUS
  <2>2. h \in [Nat \X S -> S]
    OBVIOUS
  <2>3. Descends(d, 0..9)
    BY DEF Descends
  <2>4. /\ \A n \in Nat : b[n] = <<n>> /\ d[n] = n \div 10 /\ n \div 10 \in Nat
        /\ \A n \in Nat, v \in S : h[<<n, v>>] = Append(v, n % 10)
    OBVIOUS
  <2> HIDE DEF S, b, d, h
  <2>5. PICK f \in [Nat -> S] : Unfolds(f, 0..9, b, d, h)
    BY <2>1, <2>2, <2>3, Recursion
  <2>6. \A n \in Nat : f[n] = IF n < 10 THEN <<n>> ELSE Append(f[n \div 10], n % 10)
    <3> SUFFICES ASSUME NEW n \in Nat
                 PROVE  f[n] = IF n < 10 THEN <<n>> ELSE Append(f[n \div 10], n % 10)
      OBVIOUS
    <3>1. f[n] = IF n \in 0..9 THEN b[n] ELSE h[<<n, f[d[n]]>>]
      BY <2>5 DEF Unfolds
    <3>2. n < 10 <=> n \in 0..9
      OBVIOUS
    <3>3. b[n] = <<n>> /\ d[n] = n \div 10 /\ n \div 10 \in Nat
      BY <2>4
    <3>4. f[n \div 10] \in S
      BY <3>3
    <3>5. h[<<n, f[n \div 10]>>] = Append(f[n \div 10], n % 10)
      BY <2>4, <3>4
    <3> QED
      BY <3>1, <3>2, <3>3, <3>5
  <2>7. f = Body(f)
    BY <2>6
  <2> QED
    BY <2>7
<1>2. Digits = Body(Digits)
  BY <1>1 DEF Digits
<1> QED
  BY <1>2

\* f is what the digits of s behind the first, read after w, come to.
Reads(f, w, s, d) ==
  /\ f[0] = w
  /\ \A k \in 1..d : f[k] = 10 * f[k - 1] + s[k + 1]

\* The digits of Precision[d] + r: the first stands for Precision[d], the other
\* d ones, with zeros in front, for r.
Means(d, r) ==
  LET s == Digits[Precision[d] + r] IN
  /\ s \in Seq(Nat) /\ Len(s) = d + 1
  /\ \A w \in Nat : \A f : Reads(f, w, s, d) => f[d] = w * Precision[d] + r

LEMMA Fractions ==
  \A d \in Nat : \A r \in 0..(Precision[d] - 1) : Means(d, r)
<1> DEFINE D == {d \in Nat : \A r \in 0..(Precision[d] - 1) : Means(d, r)}
<1>1. 0 \in D
  <2> SUFFICES Means(0, 0)
    BY Precisions
  <2>1. Precision[0] = 1 /\ Precision[0] + 0 = 1
    BY Precisions
  <2>2. Digits[1] = <<1>>
    <3>1. 1 \in Nat /\ 1 < 10
      OBVIOUS
    <3>2. Digits[1] = IF 1 < 10 THEN <<1>> ELSE Append(Digits[1 \div 10], 1 % 10)
      BY <3>1, DigitsOf, Zenon
    <3> QED
      BY <3>1, <3>2
  <2>3. <<1>> \in Seq(Nat) /\ Len(<<1>>) = 0 + 1
    OBVIOUS
  <2>4. \A w \in Nat : \A f : Reads(f, w, <<1>>, 0) => f[0] = w * 1 + 0
    BY DEF Reads
  <2> QED
    BY <2>1, <2>2, <2>3, <2>4 DEF Means
<1>2. ASSUME NEW d \in Nat, d \in D PROVE d + 1 \in D
  <2> SUFFICES ASSUME NEW r \in 0..(Precision[d + 1] - 1) PROVE Means(d + 1, r)
    OBVIOUS
  <2> DEFINE P == Precision[d]
             q == r \div 10
             u == r % 10
             s == Digits[P + q]
             t == Digits[Precision[d + 1] + r]
  <2>1. P \in Nat \ {0} /\ Precision[d + 1] = 10 * P
    BY Precisions
  <2>2. r \in Nat /\ r < 10 * P
    BY <2>1
  <2> HIDE DEF P
  <2>3. q \in 0..(P - 1) /\ u \in 0..9 /\ r = 10 * q + u /\ q \in Nat
    BY <2>1, <2>2
  <2>4. (10 * P + r) \div 10 = P + q /\ (10 * P + r) % 10 = u /\ 10 * P + r >= 10
    BY <2>1, <2>2
  <2> HIDE DEF q, u
  <2>5. t = Append(s, u)
    <3>1. Precision[d + 1] + r = 10 * P + r /\ 10 * P + r \in Nat /\ ~(10 * P + r < 10)
      BY <2>1, <2>2, <2>4
    <3>2. Digits[10 * P + r] = Append(Digits[(10 * P + r) \div 10], (10 * P + r) % 10)
      BY <3>1, DigitsOf
    <3> QED
      BY <2>4, <3>1, <3>2
  <2>6. Means(d, q)
    BY <1>2, <2>3 DEF P
  <2>7. s \in Seq(Nat) /\ Len(s) = d + 1
    BY <2>6 DEF Means, P
  <2>8. \A w \in Nat : \A f : Reads(f, w, s, d) => f[d] = w * P + q
    BY <2>6 DEF Means, P
  <2> HIDE DEF s, t
  <2>9. /\ t \in Seq(Nat) /\ Len(t) = d + 2 /\ t[d + 2] = u
        /\ \A k \in 1..d : t[k + 1] = s[k + 1]
    BY <2>3, <2>5, <2>7
  <2>10. ASSUME NEW w \in Nat, NEW f, Reads(f, w, t, d + 1)
         PROVE  f[d + 1] = w * (10 * P) + r
    <3>1. Reads(f, w, s, d)
      BY <2>9, <2>10 DEF Reads
    <3>2. f[d] = w * P + q
      BY <2>8, <3>1
    <3>3. f[d + 1] = 10 * f[d] + u
      <4>1. d + 1 \in 1..(d + 1) /\ (d + 1) - 1 = d /\ (d + 1) + 1 = d + 2
        OBVIOUS
      <4>2. f[d + 1] = 10 * f[(d + 1) - 1] + t[(d + 1) + 1]
        BY <2>10, <4>1 DEF Reads
      <4> QED
        BY <2>9, <4>1, <4>2
    <3>4. w * (10 * P) = 10 * (w * P) /\ w * P \in Nat
      BY <2>1
    <3> QED
      BY <2>3, <3>2, <3>3, <3>4
  <2> QED
    BY <2>1, <2>9, <2>10 DEF Means, t
<1>3. ASSUME NEW d \in Nat PROVE d \in D
  <2>1. d \in 0..d
    OBVIOUS
  <2> HIDE DEF D
  <2> QED
    BY <1>1, <1>2, <2>1, UpTo
<1> QED
  BY <1>3

(* Numeral has its defining equation. *)
LEMMA NumeralOf ==
  ASSUME NEW text, text.fraction \in Seq(Nat), text.whole \in Nat
  PROVE  \E f : /\ f[0] = text.whole
                /\ \A k \in 1..Len(text.fraction) : f[k] = 10 * f[k - 1] + text.fraction[k]
                /\ Numeral(text) = IF text.minus THEN 0 - f[Len(text.fraction)]
                                                 ELSE f[Len(text.fraction)]
<1> DEFINE places == Len(text.fraction)
           Body(f) == [k \in 0..places |->
                         IF k = 0 THEN text.whole ELSE 10 * f[k - 1] + text.fraction[k]]
<1>1. \E f : f = Body(f)
  <2> DEFINE b == [n \in Nat |-> text.whole]
             d == [n \in Nat |-> IF n = 0 THEN 0 ELSE n - 1]
             digit == [n \in Nat |-> IF n \in 1..places THEN text.fraction[n] ELSE 0]
             h == [x \in Nat \X Nat |-> 10 * x[2] + digit[x[1]]]
  <2>1. places \in Nat
    OBVIOUS
  <2>2. digit \in [Nat -> Nat] /\ \A n \in 1..places : digit[n] = text.fraction[n]
    BY <2>1
  <2> HIDE DEF places, digit
  <2>3. b \in [Nat -> Nat] /\ d \in [Nat -> Nat] /\ h \in [Nat \X Nat -> Nat]
    <3>1. b \in [Nat -> Nat] /\ d \in [Nat -> Nat]
      OBVIOUS
    <3>2. \A n \in Nat, v \in Nat : 10 * v + digit[n] \in Nat
      <4>1. \A n \in Nat : digit[n] \in Nat
        BY <2>2
      <4> QED
        BY <4>1
    <3>3. h \in [Nat \X Nat -> Nat]
      BY <3>2
    <3> QED
      BY <3>1, <3>3
  <2>4. Descends(d, {0})
    BY DEF Descends
  <2>5. /\ \A n \in Nat : b[n] = text.whole /\ (n # 0 => d[n] = n - 1)
        /\ \A n \in Nat, v \in Nat : h[<<n, v>>] = 10 * v + digit[n]
    OBVIOUS
  <2> HIDE DEF b, d, h
  <2>6. PICK f \in [Nat -> Nat] : Unfolds(f, {0}, b, d, h)
    BY <2>3, <2>4, Recursion
  <2> DEFINE g == [k \in 0..places |-> f[k]]
  <2>7. ASSUME NEW k \in 0..places
        PROVE  g[k] = IF k = 0 THEN text.whole ELSE 10 * g[k - 1] + text.fraction[k]
    <3>1. k \in Nat
      BY <2>1
    <3>2. f[k] = IF k \in {0} THEN b[k] ELSE h[<<k, f[d[k]]>>]
      BY <2>6, <3>1 DEF Unfolds
    <3>3. CASE k = 0
      BY <2>5, <3>2, <3>3
    <3>4. CASE k # 0
      <4>1. d[k] = k - 1 /\ k - 1 \in 0..places /\ k - 1 \in Nat /\ k \in 1..places
        BY <2>1, <2>5, <3>4
      <4>2. f[k - 1] \in Nat
        BY <4>1
      <4>3. h[<<k, f[k - 1]>>] = 10 * f[k - 1] + digit[k]
        BY <2>5, <3>1, <4>2
      <4>4. f[k] = 10 * f[k - 1] + text.fraction[k]
        BY <2>2, <3>2, <3>4, <4>1, <4>3
      <4> QED
        BY <3>4, <4>1, <4>4
    <3> QED
      BY <3>3, <3>4
  <2>8. g = Body(g)
    BY <2>7
  <2> QED
    BY <2>8
<1> DEFINE F == CHOOSE f : f = Body(f)
<1>2. F = Body(F)
  BY <1>1
<1>3. Numeral(text) = IF text.minus THEN 0 - F[places] ELSE F[places]
  BY DEF Numeral
<1> HIDE DEF F
<1>4. places \in Nat
  OBVIOUS
<1> HIDE DEF places
<1>5. \A k \in 0..places :
        F[k] = IF k = 0 THEN text.whole ELSE 10 * F[k - 1] + text.fraction[k]
  BY <1>2
<1>6. F[0] = text.whole /\ \A k \in 1..places : F[k] = 10 * F[k - 1] + text.fraction[k]
  BY <1>4, <1>5
<1> QED
  BY <1>3, <1>6 DEF places

LEMMA ReadsBack ==
  ASSUME NEW a \in Amounts \ {0 - Limit}, NEW decimals \in 0..MaxDecimals
  PROVE  LET text == AmountToString(a, decimals)
         IN  Numeral(text) = a /\ Len(text.fraction) = decimals
<1> DEFINE P == Precision[decimals]
           abs == IF a >= 0 THEN a ELSE 0 - a
           whole == abs \div P
           fract == abs - whole * P
           text == AmountToString(a, decimals)
<1>1. decimals \in Nat /\ Limit \in Nat /\ a \in Int /\ abs \in Nat /\ a # 0 - Limit
  <2>1. Limit \in Nat /\ MaxDecimals \in Nat
    BY TokenReadsAssumption
  <2>2. decimals \in Nat
    BY <2>1
  <2>3. a \in Int /\ a # 0 - Limit
    BY <2>1 DEF Amounts
  <2>4. abs \in Nat
    BY <2>3
  <2> QED
    BY <2>1, <2>2, <2>3, <2>4
<1>2. P \in Nat \ {0} /\ Precision[0] = 1
  BY <1>1, Precisions
<1>3. AbsAmount(a) = abs
  BY <1>1 DEF AbsAmount
<1>4. Quotient(abs, P) = whole
  BY <1>1 DEF Quotient
<1>5. text = [minus |-> a < 0, whole |-> whole, fraction |-> Fraction(fract, decimals)]
  BY <1>3, <1>4 DEF AmountToString
<1> HIDE DEF abs
<1> HIDE DEF P
<1>6. whole \in Nat /\ fract \in 0..(P - 1)
  BY <1>1, <1>2, Division
<1>7. whole * P + fract = abs
  <2>1. whole * P \in Nat
    BY <1>2, <1>6
  <2> QED
    BY <1>1, <2>1
<1> HIDE DEF whole, fract
<1> DEFINE s == Digits[P + fract]
           t == Fraction(fract, decimals)
<1>8. Means(decimals, fract)
  BY <1>1, <1>6, Fractions DEF P
<1>9. /\ s \in Seq(Nat) /\ Len(s) = decimals + 1
      /\ \A f : Reads(f, whole, s, decimals) => f[decimals] = whole * P + fract
  BY <1>6, <1>8 DEF Means, P
<1>10. t = IF decimals = 0 THEN <<>> ELSE Tail(s)
  BY DEF Fraction, P
<1> HIDE DEF s, t
<1>11. /\ t \in Seq(Nat) /\ Len(t) = decimals
       /\ \A k \in 1..decimals : t[k] = s[k + 1]
  <2>1. CASE decimals = 0
    BY <1>1, <1>10, <2>1
  <2>2. CASE decimals # 0
    BY <1>1, <1>9, <1>10, <2>2
  <2> QED
    BY <2>1, <2>2
<1>12. text.whole = whole /\ text.fraction = t /\ text.minus = (a < 0)
  BY <1>5 DEF t
<1> HIDE DEF text
<1>13. PICK f : /\ f[0] = whole
                /\ \A k \in 1..decimals : f[k] = 10 * f[k - 1] + t[k]
                /\ Numeral(text) = IF a < 0 THEN 0 - f[decimals] ELSE f[decimals]
  <2>1. text.fraction \in Seq(Nat) /\ text.whole \in Nat /\ Len(text.fraction) = decimals
    BY <1>6, <1>11, <1>12
  <2> QED
    BY <1>12, <2>1, NumeralOf
<1>14. Reads(f, whole, s, decimals)
  BY <1>11, <1>13 DEF Reads
<1>15. f[decimals] = abs
  BY <1>7, <1>9, <1>14
<1>16. Numeral(text) = a
  BY <1>1, <1>13, <1>15 DEF abs
<1> QED
  BY <1>11, <1>12, <1>16 DEF text

(* Every amount but the least reads back from its quantity, for any number *)
(* of decimals: zeros in front of the fraction stay, there is one sign.    *)
THEOREM AmountsReadBack == Spec => []QuantitiesReadBack
<1>1. TypeOK => QuantitiesReadBack
  BY ReadsBack DEF QuantitiesReadBack, Misread
<1> QED
  BY <1>1, TypeCorrectness, PTL
=============================================================================
