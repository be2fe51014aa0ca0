----------------------------- MODULE MatchProofs -----------------------------
(***************************************************************************)
(* The match service, for any requests, accounts, ratings, levels, time-    *)
(* outs and size of a match, and any number of overlapping updates: every   *)
(* request waits in one place (QueuedOnce), groups are well formed          *)
(* (GroupsSound), nobody who could play waits beside his match              *)
(* (NoMissedMatch), and forming a group removes exactly its members         *)
(* (OnlyMatchedLeave).                                                      *)
(*                                                                         *)
(* The search and the removals are proved first, as facts about sequences:  *)
(* InOrder enumerates a set, one element after the other and in order;      *)
(* TakeOut, by removals that shift what follows, takes out exactly what the *)
(* indexes meant before the first of them.                                  *)
(***************************************************************************)
EXTENDS Match, FiniteSetTheorems, FunctionTheorems, WellFoundedInduction, TLAPS
-----------------------------------------------------------------------------
(* A set of numbers that is not empty has a least one.                      *)
LEMMA LeastNumber ==
  ASSUME NEW S, S \subseteq Nat, S # {}
  PROVE  \E i \in S : \A j \in S : i <= j
<1>1. PICK x \in S : \A y \in S : ~(<<y, x>> \in OpToRel(<, Nat))
  BY NatLessThanWellFounded, WFMin
<1>2. \A y \in S : ~(y < x) BY <1>1 DEF OpToRel
<1>3. QED BY <1>2

(* What a concatenation holds, index by index.                              *)
LEMMA ConcatElements ==
  ASSUME NEW S, NEW a \in Seq(S), NEW b \in Seq(S)
  PROVE  /\ a \o b \in Seq(S) /\ Len(a \o b) = Len(a) + Len(b)
         /\ \A j \in 1 .. Len(a) + Len(b) :
              (a \o b)[j] = IF j <= Len(a) THEN a[j] ELSE b[j - Len(a)]
  OBVIOUS

(* Taking one element out of a sequence moves those behind it forward.      *)
LEMMA RemoveAtElements ==
  ASSUME NEW S, NEW s \in Seq(S), NEW at \in 1 .. Len(s)
  PROVE  /\ RemoveAt(s, at) \in Seq(S)
         /\ Len(RemoveAt(s, at)) = Len(s) - 1
         /\ \A j \in 1 .. Len(s) - 1 :
              RemoveAt(s, at)[j] = IF j < at THEN s[j] ELSE s[j + 1]
<1> DEFINE a == SubSeq(s, 1, at - 1)
           b == SubSeq(s, at + 1, Len(s))
<1>1. a \in Seq(S) /\ Len(a) = at - 1 /\ \A j \in 1 .. at - 1 : a[j] = s[j]
  OBVIOUS
<1>2. /\ b \in Seq(S) /\ Len(b) = Len(s) - at
      /\ \A j \in 1 .. Len(s) - at : b[j] = s[at + j]
  OBVIOUS
<1>3. RemoveAt(s, at) = a \o b BY DEF RemoveAt
<1> HIDE DEF a, b
<1>4. /\ a \o b \in Seq(S) /\ Len(a \o b) = Len(a) + Len(b)
      /\ \A j \in 1 .. Len(a) + Len(b) :
           (a \o b)[j] = IF j <= Len(a) THEN a[j] ELSE b[j - Len(a)]
  BY ONLY <1>1, <1>2, ConcatElements
<1>5. Len(s) \in Nat /\ Len(a) + Len(b) = Len(s) - 1 BY <1>1, <1>2
<1>6. ASSUME NEW j \in 1 .. Len(s) - 1
      PROVE  (a \o b)[j] = IF j < at THEN s[j] ELSE s[j + 1]
  <2>1. CASE j < at BY <2>1, <1>1, <1>4, <1>5
  <2>2. CASE ~(j < at)
    <3>1. j - at + 1 \in 1 .. Len(s) - at BY <2>2
    <3>2. b[j - at + 1] = s[at + (j - at + 1)] BY <1>2, <3>1
    <3>3. at + (j - at + 1) = j + 1 OBVIOUS
    <3>4. (a \o b)[j] = b[j - at + 1] BY <2>2, <1>1, <1>4, <1>5
    <3>. QED BY <2>2, <3>2, <3>3, <3>4
  <2>. QED BY <2>1, <2>2
<1>. QED BY <1>3, <1>4, <1>5, <1>6

(* A set of pairs that orders S strictly and totally.                       *)
Orders(R, S) ==
  /\ \A x \in S : <<x, x>> \notin R
  /\ \A x, y, z \in S : <<x, y>> \in R /\ <<y, z>> \in R => <<x, z>> \in R
  /\ \A x, y \in S : x # y => <<x, y>> \in R \/ <<y, x>> \in R

(* InOrder gives each element of the set a place of its own, in their order. *)
LEMMA InOrderIs ==
  ASSUME NEW S, IsFiniteSet(S), NEW R, Orders(R, S)
  PROVE  LET o == InOrder(S, R) IN
         /\ o \in Seq(S) /\ Len(o) = Cardinality(S) /\ ToSet(o) = S /\ IsInjective(o)
         /\ \A i, j \in DOMAIN o : i < j => <<o[i], o[j]>> \in R
<1> DEFINE n == Cardinality(S)
           Below(x) == {y \in S : <<y, x>> \in R}
           rank == [x \in S |-> Cardinality(Below(x)) + 1]
           pick == [j \in 1 .. n |-> CHOOSE x \in S : Cardinality(Below(x)) = j - 1]
<1>1. n \in Nat BY FS_CardinalityType
<1>2. ASSUME NEW x \in S
      PROVE  IsFiniteSet(Below(x)) /\ Cardinality(Below(x)) \in 0 .. n - 1
  <2>1. IsFiniteSet(S \ {x}) /\ Cardinality(S \ {x}) = n - 1 BY FS_RemoveElement
  <2>2. Below(x) \subseteq S \ {x} BY DEF Orders
  <2>3. /\ IsFiniteSet(Below(x))
        /\ Cardinality(Below(x)) <= Cardinality(S \ {x})
    BY ONLY <2>1, <2>2, FS_Subset
  <2>4. Cardinality(Below(x)) \in Nat BY <2>3, FS_CardinalityType
  <2>. QED BY <1>1, <2>1, <2>3, <2>4
<1>3. ASSUME NEW x \in S, NEW y \in S, <<x, y>> \in R
      PROVE  Cardinality(Below(x)) < Cardinality(Below(y))
  <2>1. IsFiniteSet(Below(x)) /\ IsFiniteSet(Below(y)) BY <1>2
  <2>2. x \notin Below(x) /\ Below(x) \cup {x} \subseteq Below(y) BY <1>3 DEF Orders
  <2>3. Cardinality(Below(x) \cup {x}) = Cardinality(Below(x)) + 1
    BY <2>1, <2>2, FS_AddElement
  <2>4. Cardinality(Below(x) \cup {x}) <= Cardinality(Below(y)) BY <2>1, <2>2, FS_Subset
  <2>5. Cardinality(Below(x)) \in Nat /\ Cardinality(Below(y)) \in Nat
    BY ONLY <2>1, FS_CardinalityType
  <2>. QED BY <2>3, <2>4, <2>5
<1> HIDE DEF Below
<1>4. rank \in [S -> 1 .. n] BY <1>1, <1>2
<1>5. \A x, y \in S : rank[x] = rank[y] => x = y
  <2> SUFFICES ASSUME NEW x \in S, NEW y \in S, rank[x] = rank[y] PROVE x = y
    OBVIOUS
  <2>1. Cardinality(Below(x)) \in Nat /\ Cardinality(Below(y)) \in Nat BY <1>2
  <2>2. Cardinality(Below(x)) = Cardinality(Below(y)) BY <2>1
  <2>3. ~(<<x, y>> \in R) /\ ~(<<y, x>> \in R) BY <1>3, <2>1, <2>2
  <2>. QED BY <2>3 DEF Orders
<1>6. rank \in Surjection(S, 1 .. n)
  <2>1. rank \in Injection(S, 1 .. n) BY <1>4, <1>5, Fun_IsInj
  <2>2. IsFiniteSet(1 .. n) /\ Cardinality(1 .. n) = n
    <3>1. 1 \in Int /\ n \in Int BY <1>1
    <3>. QED BY <1>1, <3>1, FS_Interval
  <2>. QED BY <2>1, <2>2, FS_Injection
<1>7. \A j \in 1 .. n : \E x \in S : rank[x] = j
  <2> HIDE DEF rank
  <2>. QED BY <1>6, Fun_SurjectionProperties
<1>8. \A j \in 1 .. n : pick[j] \in S /\ rank[pick[j]] = j
  <2> SUFFICES ASSUME NEW j \in 1 .. n PROVE pick[j] \in S /\ rank[pick[j]] = j
    OBVIOUS
  <2>1. PICK x \in S : rank[x] = j BY <1>7
  <2>2. Cardinality(Below(x)) = j - 1 BY <2>1, <1>2
  <2>3. pick[j] = CHOOSE y \in S : Cardinality(Below(y)) = j - 1 OBVIOUS
  <2>4. pick[j] \in S /\ Cardinality(Below(pick[j])) = j - 1 BY <2>2, <2>3
  <2>. QED BY <2>4
<1>9. InOrder(S, R) = pick BY DEF InOrder, Below
<1> DEFINE o == InOrder(S, R)
<1> HIDE DEF n, pick, rank
<1>a. DOMAIN o = 1 .. n /\ \A j \in 1 .. n : o[j] \in S /\ rank[o[j]] = j
  BY <1>8, <1>9 DEF pick
<1>b. o \in Seq(S) /\ Len(o) = n
  <2>1. o = [j \in 1 .. n |-> o[j]] BY <1>9, <1>a DEF pick
  <2>2. o \in [1 .. n -> S] BY <2>1, <1>a
  <2>. QED BY <1>1, <2>2
<1>c. ASSUME NEW x \in S PROVE x \in ToSet(o)
  <2>1. rank[x] \in 1 .. n BY <1>4
  <2>2. o[rank[x]] \in S /\ rank[o[rank[x]]] = rank[x] BY <2>1, <1>a
  <2>3. o[rank[x]] = x BY <2>2, <1>5
  <2>. QED BY <1>a, <2>1, <2>3 DEF ToSet
<1>d. ToSet(o) = S BY <1>a, <1>c DEF ToSet
<1>e. IsInjective(o) BY <1>a DEF IsInjective
<1>f. ASSUME NEW i \in 1 .. n, NEW j \in 1 .. n, i < j PROVE <<o[i], o[j]>> \in R
  <2>1. o[i] \in S /\ o[j] \in S /\ rank[o[i]] = i /\ rank[o[j]] = j BY <1>a
  <2>2. o[i] # o[j] BY <1>f, <2>1
  <2>3. CASE <<o[j], o[i]>> \in R
    <3>1. Cardinality(Below(o[j])) < Cardinality(Below(o[i])) BY <1>3, <2>1, <2>3
    <3>2. Cardinality(Below(o[i])) + 1 = i /\ Cardinality(Below(o[j])) + 1 = j
      BY <2>1 DEF rank
    <3>3. Cardinality(Below(o[i])) \in Nat /\ Cardinality(Below(o[j])) \in Nat
      BY <1>2, <2>1
    <3>. QED BY <1>f, <3>1, <3>2, <3>3
  <2>. QED BY <2>1, <2>2, <2>3 DEF Orders
<1>. QED BY <1>a, <1>b, <1>d, <1>e, <1>f DEF n

(* The elements of a sequence at some of its indexes.                       *)
LEMMA ChosenIs ==
  ASSUME NEW S, NEW q \in Seq(S), NEW I, I \subseteq DOMAIN q
  PROVE  LET c == Chosen(q, I) IN
         /\ c \in Seq(S) /\ ToSet(c) = {q[i] : i \in I}
         /\ IsInjective(q) => IsInjective(c)
<1> DEFINE R == {x \in I \X I : x[1] < x[2]}
           at == InOrder(I, R)
           c == Chosen(q, I)
<1>1. I \subseteq Nat /\ \A i \in I : i \in DOMAIN q /\ q[i] \in S OBVIOUS
<1>2. IsFiniteSet(I)
  <2>1. IsFiniteSet(1 .. Len(q)) BY FS_Interval
  <2>2. I \subseteq 1 .. Len(q) OBVIOUS
  <2>. QED BY ONLY <2>1, <2>2, FS_Subset
<1>3. Orders(R, I) BY <1>1 DEF Orders
<1> HIDE DEF R
<1>4. /\ at \in Seq(I) /\ ToSet(at) = I /\ IsInjective(at) BY ONLY <1>2, <1>3, InOrderIs
<1>5. c = [j \in DOMAIN at |-> q[at[j]]] BY DEF Chosen, R
<1> HIDE DEF at, c
<1>6. DOMAIN at = 1 .. Len(at) /\ Len(at) \in Nat /\ \A j \in DOMAIN at : at[j] \in I
  BY <1>4
<1>7. c \in [1 .. Len(at) -> S] BY <1>1, <1>5, <1>6
<1>8. c \in Seq(S) BY <1>6, <1>7
<1>9. ToSet(c) = {q[i] : i \in I} BY <1>4, <1>5, <1>6 DEF ToSet
<1>a. ASSUME IsInjective(q) PROVE IsInjective(c)
  BY <1>1, <1>4, <1>5, <1>6, <1>a DEF IsInjective
<1>. QED BY <1>8, <1>9, <1>a DEF c

(* The search finds every place within the range, and each once.            *)
LEMMA SearchIs ==
  ASSUME NEW p \in Entries, NEW failNum \in Nat,
         NEW keep \in Seq(Entries), NEW strict \in Seq(Entries)
  PROVE  LET t == Search(p, failNum, keep, strict)
             found == Found(p, failNum, strict \o keep)
         IN  /\ found \subseteq 1 .. Len(strict) + Len(keep) /\ IsFiniteSet(found)
             /\ t \in Seq(found) /\ ToSet(t) = found /\ IsInjective(t)
             /\ Len(t) = Cardinality(found)
<1> DEFINE all == strict \o keep
           found == Found(p, failNum, all)
           Key(i) == IF Level[all[i]] = Level[p] THEN -i ELSE i
           R == {x \in found \X found : Key(x[1]) < Key(x[2])}
<1>1. all \in Seq(Entries) /\ Len(all) = Len(strict) + Len(keep) /\ Len(all) \in Nat
  BY ConcatElements
<1> HIDE DEF all
<1>2. found \subseteq 1 .. Len(all) BY <1>1 DEF Found
<1>3. IsFiniteSet(found)
  <2>1. IsFiniteSet(1 .. Len(all)) BY <1>1, FS_Interval
  <2>. QED BY ONLY <2>1, <1>2, FS_Subset
<1>4. Orders(R, found)
  <2>1. \A i \in found : i \in Nat /\ i > 0 BY <1>1, <1>2
  <2> HIDE DEF found
  <2>2. \A i \in found : Key(i) \in Int BY <2>1
  <2>3. \A i, j \in found : Key(i) = Key(j) => i = j BY <2>1
  <2> HIDE DEF Key
  <2>4. \A i, j \in found : <<i, j>> \in R <=> Key(i) < Key(j) OBVIOUS
  <2> HIDE DEF R
  <2>. QED BY <2>2, <2>3, <2>4 DEF Orders
<1> HIDE DEF R
<1>5. LET o == InOrder(found, R) IN
      /\ o \in Seq(found) /\ Len(o) = Cardinality(found) /\ ToSet(o) = found /\ IsInjective(o)
  BY ONLY <1>3, <1>4, InOrderIs
<1>6. Search(p, failNum, keep, strict) = InOrder(found, R) BY DEF Search, R, all
<1>. QED BY <1>1, <1>2, <1>3, <1>5, <1>6 DEF all

(* The matched are removed from the largest index down.                     *)
LEMMA RemovalIs ==
  ASSUME NEW ms, ms \subseteq Nat \ {0}, IsFiniteSet(ms), NEW n \in Nat
  PROVE  LET o == RemovalOrder(ms, n) IN
         /\ o \in Seq(ms) /\ ToSet(o) = ms /\ IsInjective(o) /\ Len(o) = Cardinality(ms)
         /\ \A i, j \in DOMAIN o : i < j => Index(o[i], n) >= Index(o[j], n)
<1> DEFINE R == {x \in ms \X ms : \/ Index(x[1], n) > Index(x[2], n)
                                  \/ Index(x[1], n) = Index(x[2], n) /\ x[1] < x[2]}
           o == InOrder(ms, R)
<1>1. \A i \in ms : i \in Nat /\ Index(i, n) \in Int BY DEF Index
<1>2. \A i, j \in ms :
        <<i, j>> \in R <=> \/ Index(i, n) > Index(j, n)
                           \/ Index(i, n) = Index(j, n) /\ i < j
  OBVIOUS
<1> HIDE DEF R
<1>3. Orders(R, ms)
  <2>1. \A x \in ms : <<x, x>> \notin R BY <1>1, <1>2
  <2>2. \A x, y, z \in ms : <<x, y>> \in R /\ <<y, z>> \in R => <<x, z>> \in R
    BY <1>1, <1>2
  <2>3. \A x, y \in ms : x # y => <<x, y>> \in R \/ <<y, x>> \in R BY <1>1, <1>2
  <2>. QED BY <2>1, <2>2, <2>3 DEF Orders
<1>4. /\ o \in Seq(ms) /\ ToSet(o) = ms /\ IsInjective(o) /\ Len(o) = Cardinality(ms)
      /\ \A i, j \in DOMAIN o : i < j => <<o[i], o[j]>> \in R
  BY ONLY <1>3, InOrderIs, IsFiniteSet(ms)
<1>5. RemovalOrder(ms, n) = o BY DEF RemovalOrder, R
<1> HIDE DEF o
<1>6. \A i \in DOMAIN o : o[i] \in ms BY <1>4
<1>7. ASSUME NEW i \in DOMAIN o, NEW j \in DOMAIN o, i < j
      PROVE  Index(o[i], n) >= Index(o[j], n)
  <2>1. o[i] \in ms /\ o[j] \in ms BY <1>6
  <2>2. <<o[i], o[j]>> \in R BY <1>4, <1>7
  <2>3. Index(o[i], n) > Index(o[j], n) \/ Index(o[i], n) = Index(o[j], n)
    BY <1>2, <2>1, <2>2
  <2>4. Index(o[i], n) \in Int /\ Index(o[j], n) \in Int BY <1>1, <2>1
  <2>. QED BY <2>3, <2>4
<1>. QED BY <1>4, <1>5, <1>7

-----------------------------------------------------------------------------
(* TakeOut, one removal after the other.                                    *)

(* What the removal of the k-th place leaves of the list s.                 *)
Without(s, k, q, n, ms) == IF ms[k] - n \in DOMAIN q THEN RemoveAt(s, ms[k] - n) ELSE s

Removals(f, last, q, n, ms) ==
  f = [k \in 0 .. last |-> IF k = 0 THEN q ELSE Without(f[k - 1], k, q, n, ms)]

(* However many removals there are, there is a function that does them.     *)
LEMMA RemovalsExist ==
  ASSUME NEW q, NEW n, NEW ms, NEW last \in Nat
  PROVE  \E f : Removals(f, last, q, n, ms)
<1> DEFINE Fails == {k \in Nat : ~\E f : Removals(f, k, q, n, ms)}
<1> SUFFICES ASSUME Fails # {} PROVE FALSE OBVIOUS
<1>1. PICK k \in Fails : \A j \in Fails : k <= j BY LeastNumber
<1>2. k \in Nat /\ ~\E f : Removals(f, k, q, n, ms) OBVIOUS
<1>3. CASE k = 0
  <2> DEFINE f == [j \in 0 .. 0 |-> q]
  <2>1. \A j \in 0 .. 0 : j = 0 OBVIOUS
  <2>2. f = [j \in 0 .. 0 |-> IF j = 0 THEN q ELSE Without(f[j - 1], j, q, n, ms)] BY <2>1
  <2>. QED BY <1>2, <1>3, <2>2 DEF Removals
<1>4. CASE k # 0
  <2>1. k - 1 \in Nat /\ k - 1 \notin Fails BY <1>1, <1>2, <1>4
  <2>2. PICK f : Removals(f, k - 1, q, n, ms) BY <2>1
  <2>3. \A j \in 0 .. k - 1 : f[j] = IF j = 0 THEN q ELSE Without(f[j - 1], j, q, n, ms)
    BY <2>2 DEF Removals
  <2> DEFINE h == [j \in 0 .. k |-> IF j = k THEN Without(f[k - 1], k, q, n, ms) ELSE f[j]]
  <2>4. \A j \in 0 .. k - 1 : h[j] = f[j] BY <1>2
  <2>5. h[k] = Without(h[k - 1], k, q, n, ms) BY <1>2, <1>4, <2>4
  <2>6. DOMAIN h = 0 .. k OBVIOUS
  <2>7. ASSUME NEW j \in 0 .. k
        PROVE  h[j] = IF j = 0 THEN q ELSE Without(h[j - 1], j, q, n, ms)
    <3>1. CASE j = k BY <1>4, <2>5, <3>1
    <3>2. CASE j = 0 BY <1>2, <1>4, <2>3, <2>4, <3>2
    <3>3. CASE j # 0 /\ j # k
      <4>1. j \in 0 .. k - 1 /\ j - 1 \in 0 .. k - 1 BY <1>2, <3>3
      <4>. QED BY <2>3, <2>4, <3>3, <4>1
    <3>. QED BY <3>1, <3>2, <3>3
  <2>8. h = [j \in 0 .. k |-> h[j]] OBVIOUS
  <2> HIDE DEF h
  <2>9. Removals(h, k, q, n, ms) BY <2>7, <2>8 DEF Removals
  <2>. QED BY <1>2, <2>9
<1>. QED BY <1>3, <1>4

(* TakeOut is the last of its removals.                                     *)
LEMMA TakeOutIs ==
  ASSUME NEW q, NEW n, NEW ms, Len(ms) \in Nat
  PROVE  \E f : /\ f[0] = q
                /\ \A k \in 1 .. Len(ms) : f[k] = Without(f[k - 1], k, q, n, ms)
                /\ TakeOut(q, n, ms) = f[Len(ms)]
<1> DEFINE P(f) == f = [k \in 0 .. Len(ms) |->
                          IF k = 0 THEN q
                          ELSE IF ms[k] - n \in DOMAIN q THEN RemoveAt(f[k - 1], ms[k] - n)
                          ELSE f[k - 1]]
<1>1. \A f : P(f) <=> Removals(f, Len(ms), q, n, ms) BY DEF Removals, Without
<1>2. TakeOut(q, n, ms) = (CHOOSE f : P(f))[Len(ms)] BY DEF TakeOut
<1> HIDE DEF P
<1>3. \E f : P(f) BY <1>1, RemovalsExist
<1>4. P(CHOOSE f : P(f)) BY <1>3
<1>5. PICK f : f = CHOOSE g : P(g) OBVIOUS
<1>6. Removals(f, Len(ms), q, n, ms) BY <1>1, <1>4, <1>5
<1>7. \A k \in 0 .. Len(ms) : f[k] = IF k = 0 THEN q ELSE Without(f[k - 1], k, q, n, ms)
  BY <1>6 DEF Removals
<1>8. f[0] = q BY <1>7
<1>9. \A k \in 1 .. Len(ms) : k \in 0 .. Len(ms) /\ k # 0 OBVIOUS
<1>. QED BY <1>2, <1>5, <1>7, <1>8, <1>9

(* A removal takes the element at the index, and what is before it stays.   *)
LEMMA OneTakenOut ==
  ASSUME NEW S, NEW s \in Seq(S), IsInjective(s), NEW d \in DOMAIN s
  PROVE  LET t == RemoveAt(s, d) IN
         /\ t \in Seq(S) /\ IsInjective(t) /\ ToSet(t) = ToSet(s) \ {s[d]}
         /\ \A i \in DOMAIN s : i < d => i \in DOMAIN t /\ t[i] = s[i]
<1> DEFINE t == RemoveAt(s, d)
           At(j) == IF j < d THEN j ELSE j + 1
<1>1. d \in 1 .. Len(s) /\ DOMAIN s = 1 .. Len(s) /\ Len(s) \in Nat OBVIOUS
<1>2. /\ t \in Seq(S) /\ Len(t) = Len(s) - 1
      /\ \A j \in 1 .. Len(s) - 1 : t[j] = IF j < d THEN s[j] ELSE s[j + 1]
  BY <1>1, RemoveAtElements
<1> HIDE DEF t
<1>3. DOMAIN t = 1 .. Len(s) - 1 BY <1>2
<1>4. \A j \in DOMAIN t : At(j) \in DOMAIN s /\ At(j) # d /\ t[j] = s[At(j)]
  BY <1>1, <1>2, <1>3
<1>5. \A i \in DOMAIN s : i # d => \E j \in DOMAIN t : At(j) = i
  <2> SUFFICES ASSUME NEW i \in DOMAIN s, i # d PROVE \E j \in DOMAIN t : At(j) = i
    OBVIOUS
  <2>1. CASE i < d
    <3>1. i \in DOMAIN t /\ At(i) = i BY <1>1, <1>3, <2>1
    <3>. QED BY <3>1
  <2>2. CASE ~(i < d)
    <3>1. i - 1 \in DOMAIN t /\ At(i - 1) = i BY <1>1, <1>3, <2>2
    <3>. QED BY <3>1
  <2>. QED BY <2>1, <2>2
<1>6. \A j, k \in DOMAIN t : At(j) = At(k) => j = k BY <1>1, <1>3
<1>7. \A i \in DOMAIN s : i < d => i \in DOMAIN t /\ t[i] = s[i] BY <1>1, <1>2, <1>3
<1> HIDE DEF At
<1>8. IsInjective(t) BY <1>4, <1>6 DEF IsInjective
<1>9. ToSet(t) = ToSet(s) \ {s[d]}
  <2>1. \A j \in DOMAIN t : t[j] \in ToSet(s) /\ t[j] # s[d]
    BY <1>1, <1>4 DEF IsInjective, ToSet
  <2>2. \A i \in DOMAIN s : s[i] # s[d] => \E j \in DOMAIN t : t[j] = s[i] BY <1>4, <1>5
  <2>. QED BY <2>1, <2>2 DEF ToSet
<1>. QED BY <1>2, <1>7, <1>8, <1>9 DEF t

(* If the places are removed from the largest index down, exactly those      *)
(* elements leave that were at the places before the first removal.         *)
LEMMA TakenOut ==
  ASSUME NEW S, NEW q \in Seq(S), IsInjective(q), NEW n \in Nat, NEW ms \in Seq(Nat),
         \A j, k \in DOMAIN ms :
           j < k /\ ms[j] - n \in DOMAIN q /\ ms[k] - n \in DOMAIN q => ms[j] > ms[k]
  PROVE  LET t == TakeOut(q, n, ms) IN
         /\ t \in Seq(S) /\ IsInjective(t)
         /\ ToSet(t) = {q[i] : i \in {i \in DOMAIN q : i + n \notin ToSet(ms)}}
<1>0. DOMAIN ms = 1 .. Len(ms) /\ Len(ms) \in Nat /\ \A j \in DOMAIN ms : ms[j] \in Nat
  OBVIOUS
<1>q. DOMAIN q = 1 .. Len(q) /\ Len(q) \in Nat OBVIOUS
<1>1. PICK f : /\ f[0] = q
               /\ \A k \in 1 .. Len(ms) : f[k] = Without(f[k - 1], k, q, n, ms)
               /\ TakeOut(q, n, ms) = f[Len(ms)]
  BY <1>0, TakeOutIs
<1> DEFINE Gone(i, k) == \E j \in 1 .. k : ms[j] = i + n
           Left(k) == {q[i] : i \in {i \in DOMAIN q : ~Gone(i, k)}}
           Untouched(i, k) == \A j \in 1 .. k : ms[j] - n \in DOMAIN q => i < ms[j] - n
           Good(k) == /\ f[k] \in Seq(S) /\ IsInjective(f[k]) /\ ToSet(f[k]) = Left(k)
                      /\ \A i \in DOMAIN q : Untouched(i, k) =>
                           i \in DOMAIN f[k] /\ f[k][i] = q[i]
           Bad == {k \in Nat : k <= Len(ms) /\ ~Good(k)}
<1>2. Good(0)
  <2>1. \A i \in DOMAIN q : ~Gone(i, 0) OBVIOUS
  <2>2. Left(0) = ToSet(q) BY <2>1 DEF ToSet
  <2>. QED BY <1>1, <2>2
<1>3. ASSUME NEW k \in 1 .. Len(ms), Good(k - 1) PROVE Good(k)
  <2>0. k \in DOMAIN ms /\ ms[k] \in Nat /\ k \in Nat /\ k - 1 \in Nat BY <1>0
  <2>1. f[k] = IF ms[k] - n \in DOMAIN q THEN RemoveAt(f[k - 1], ms[k] - n) ELSE f[k - 1]
    BY <1>1 DEF Without
  <2>2. \A i \in DOMAIN q : Gone(i, k) <=> Gone(i, k - 1) \/ ms[k] = i + n
    <3>1. 1 .. k = (1 .. k - 1) \cup {k} BY <2>0
    <3>. QED BY <3>1
  <2>3. \A i \in DOMAIN q :
          Untouched(i, k) => Untouched(i, k - 1) /\ (ms[k] - n \in DOMAIN q => i < ms[k] - n)
    BY <2>0
  <2>4. CASE ms[k] - n \notin DOMAIN q
    <3>1. \A i \in DOMAIN q : ms[k] # i + n BY <2>0, <2>4, <1>q
    <3>2. Left(k) = Left(k - 1) BY <2>2, <3>1
    <3>. QED BY <1>3, <2>1, <2>3, <2>4, <3>2
  <2>5. CASE ms[k] - n \in DOMAIN q
    <3> DEFINE d == ms[k] - n
               s == f[k - 1]
    <3>1. Untouched(d, k - 1)
      <4> SUFFICES ASSUME NEW j \in 1 .. k - 1, ms[j] - n \in DOMAIN q PROVE d < ms[j] - n
        OBVIOUS
      <4>1. j \in DOMAIN ms /\ j < k /\ ms[j] \in Nat BY <1>0, <2>0
      <4>2. ms[j] > ms[k] BY <2>0, <2>5, <4>1
      <4>. QED BY <2>0, <4>1, <4>2
    <3>2. d \in DOMAIN s /\ s[d] = q[d] BY <1>3, <2>5, <3>1
    <3>3. s \in Seq(S) /\ IsInjective(s) /\ ToSet(s) = Left(k - 1) BY <1>3
    <3>4. f[k] = RemoveAt(s, d) BY <2>1, <2>5
    <3>i. \A i \in DOMAIN q : Untouched(i, k - 1) => i \in DOMAIN s /\ s[i] = q[i] BY <1>3
    <3>e. d \in DOMAIN q /\ \A i \in DOMAIN q : ms[k] = i + n <=> i = d
      <4>1. d \in DOMAIN q BY <2>5
      <4>2. \A i \in DOMAIN q : i \in Nat BY <1>q
      <4>3. \A m, i \in Nat : m = i + n <=> i = m - n OBVIOUS
      <4>. QED BY <2>0, <4>1, <4>2, <4>3
    <3>h. \A i \in DOMAIN q : Untouched(i, k) => Untouched(i, k - 1) /\ i < d
      BY <2>3, <2>5
    <3> HIDE DEF d, s, Gone, Untouched
    <3>5. /\ f[k] \in Seq(S) /\ IsInjective(f[k]) /\ ToSet(f[k]) = ToSet(s) \ {s[d]}
          /\ \A i \in DOMAIN s : i < d => i \in DOMAIN f[k] /\ f[k][i] = s[i]
      BY ONLY <3>2, <3>3, <3>4, OneTakenOut
    <3>6. Left(k) = Left(k - 1) \ {q[d]}
      <4>1. \A i \in DOMAIN q : Gone(i, k) <=> Gone(i, k - 1) \/ i = d BY <2>2, <3>e
      <4>2. \A i \in DOMAIN q : q[i] = q[d] => i = d BY <3>e DEF IsInjective
      <4>. QED BY <4>1, <4>2, <3>e
    <3>7. ToSet(f[k]) = Left(k) BY <3>2, <3>3, <3>5, <3>6
    <3>8. \A i \in DOMAIN q : Untouched(i, k) => i \in DOMAIN f[k] /\ f[k][i] = q[i]
      BY <3>5, <3>h, <3>i
    <3>. QED BY <3>5, <3>7, <3>8
  <2>. QED BY <2>4, <2>5
<1> HIDE DEF Good
<1>4. Bad = {}
  <2> SUFFICES ASSUME Bad # {} PROVE FALSE OBVIOUS
  <2>1. PICK k \in Bad : \A j \in Bad : k <= j
    <3>1. Bad \subseteq Nat OBVIOUS
    <3> HIDE DEF Bad
    <3>. QED BY <3>1, LeastNumber
  <2>2. k # 0 BY <1>2
  <2>3. k \in 1 .. Len(ms) /\ k - 1 \in Nat /\ k - 1 <= Len(ms) BY <1>0, <2>2
  <2>4. Good(k - 1) BY <2>1, <2>3
  <2>. QED BY <1>3, <2>3, <2>4
<1>5. Good(Len(ms)) BY <1>0, <1>4
<1>6. \A i \in DOMAIN q : Gone(i, Len(ms)) <=> i + n \in ToSet(ms) BY <1>0 DEF ToSet
<1>7. Left(Len(ms)) = {q[i] : i \in {i \in DOMAIN q : i + n \notin ToSet(ms)}} BY <1>6
<1>. QED BY <1>1, <1>5, <1>7 DEF Good

-----------------------------------------------------------------------------
(* addtoStictlist.                                                          *)

(* No request is in two places of the two lists.                            *)
Apart(a, b) == IsInjective(a) /\ IsInjective(b) /\ ToSet(a) \cap ToSet(b) = {}

LEMMA ApartIs ==
  ASSUME NEW S, NEW a \in Seq(S), NEW b \in Seq(S)
  PROVE  /\ a \o b \in Seq(S) /\ ToSet(a \o b) = ToSet(a) \cup ToSet(b)
         /\ IsInjective(a \o b) <=> Apart(a, b)
<1>0. PICK c \in Seq(S) : c = a \o b BY ConcatElements
<1>1. PICK m \in Nat : m = Len(a) OBVIOUS
<1>2. PICK n \in Nat : n = Len(b) OBVIOUS
<1>3. DOMAIN a = 1 .. m /\ DOMAIN b = 1 .. n /\ DOMAIN c = 1 .. m + n
  BY <1>0, <1>1, <1>2, ConcatElements
<1>4. \A i \in 1 .. m : i \in 1 .. m + n /\ c[i] = a[i]
  BY <1>0, <1>1, <1>2, ConcatElements
<1>5. \A i \in 1 .. n : m + i \in 1 .. m + n /\ c[m + i] = b[i]
  <2> SUFFICES ASSUME NEW i \in 1 .. n PROVE m + i \in 1 .. m + n /\ c[m + i] = b[i]
    OBVIOUS
  <2>1. m + i \in 1 .. m + n /\ ~(m + i <= m) /\ (m + i) - m = i OBVIOUS
  <2>. QED BY <1>0, <1>1, <1>2, <2>1, ConcatElements
<1>6. \A i \in 1 .. m + n : i \in 1 .. m \/ \E j \in 1 .. n : i = m + j
  <2> SUFFICES ASSUME NEW i \in 1 .. m + n, i \notin 1 .. m
               PROVE  i - m \in 1 .. n /\ i = m + (i - m)
    OBVIOUS
  <2>. QED OBVIOUS
<1>7. ToSet(c) = ToSet(a) \cup ToSet(b)
  <2>1. ASSUME NEW i \in 1 .. m + n PROVE c[i] \in ToSet(a) \cup ToSet(b)
    <3>1. CASE i \in 1 .. m BY <1>3, <1>4, <3>1 DEF ToSet
    <3>2. CASE i \notin 1 .. m
      <4>1. PICK j \in 1 .. n : i = m + j BY <1>6, <3>2
      <4>2. c[i] = b[j] BY <1>5, <4>1
      <4>. QED BY <1>3, <4>2 DEF ToSet
    <3>. QED BY <3>1, <3>2
  <2>2. \A x \in ToSet(a) \cup ToSet(b) : x \in ToSet(c) BY <1>3, <1>4, <1>5 DEF ToSet
  <2>3. \A x \in ToSet(c) : \E i \in 1 .. m + n : x = c[i] BY <1>3 DEF ToSet
  <2>. QED BY <2>1, <2>2, <2>3
<1>8. ASSUME IsInjective(c) PROVE Apart(a, b)
  <2>1. IsInjective(a) BY <1>3, <1>4, <1>8 DEF IsInjective
  <2>2. IsInjective(b)
    <3> SUFFICES ASSUME NEW i \in 1 .. n, NEW j \in 1 .. n, b[i] = b[j] PROVE i = j
      BY <1>3 DEF IsInjective
    <3>1. m + i = m + j BY <1>3, <1>5, <1>8 DEF IsInjective
    <3>. QED BY <3>1
  <2>3. ASSUME NEW x \in ToSet(a) \cap ToSet(b) PROVE FALSE
    <3>1. PICK i \in 1 .. m : a[i] = x BY <1>3 DEF ToSet
    <3>2. PICK j \in 1 .. n : b[j] = x BY <1>3 DEF ToSet
    <3>3. c[i] = c[m + j] /\ i \in DOMAIN c /\ m + j \in DOMAIN c
      BY <1>3, <1>4, <1>5, <3>1, <3>2
    <3>4. i = m + j BY <1>8, <3>3 DEF IsInjective
    <3>. QED BY <3>4
  <2>. QED BY <2>1, <2>2, <2>3 DEF Apart
<1>9. ASSUME Apart(a, b) PROVE IsInjective(c)
  <2> SUFFICES ASSUME NEW i \in 1 .. m + n, NEW j \in 1 .. m + n, c[i] = c[j] PROVE i = j
    BY <1>3 DEF IsInjective
  <2>0. \A k \in 1 .. m : c[k] \in ToSet(a) BY <1>3, <1>4 DEF ToSet
  <2>1. \A k \in 1 .. n : c[m + k] \in ToSet(b) BY <1>3, <1>5 DEF ToSet
  <2>2. CASE i \in 1 .. m /\ j \in 1 .. m
    BY <1>3, <1>4, <1>9, <2>2 DEF Apart, IsInjective
  <2>3. CASE i \notin 1 .. m /\ j \notin 1 .. m
    <3>1. PICK k \in 1 .. n : i = m + k BY <1>6, <2>3
    <3>2. PICK l \in 1 .. n : j = m + l BY <1>6, <2>3
    <3>3. b[k] = b[l] BY <1>5, <3>1, <3>2
    <3>4. k = l BY <1>3, <1>9, <3>3 DEF Apart, IsInjective
    <3>. QED BY <3>1, <3>2, <3>4
  <2>4. CASE i \in 1 .. m /\ j \notin 1 .. m
    <3>1. PICK l \in 1 .. n : j = m + l BY <1>6, <2>4
    <3>. QED BY <1>9, <2>0, <2>1, <2>4, <3>1 DEF Apart
  <2>5. CASE i \notin 1 .. m /\ j \in 1 .. m
    <3>1. PICK k \in 1 .. n : i = m + k BY <1>6, <2>5
    <3>. QED BY <1>9, <2>0, <2>1, <2>5, <3>1 DEF Apart
  <2>. QED BY <2>2, <2>3, <2>4, <2>5
<1>. QED BY <1>0, <1>7, <1>8, <1>9

(* An injective sequence's first n elements are n.                          *)
LEMMA FirstAreAsMany ==
  ASSUME NEW S, NEW s \in Seq(S), IsInjective(s), NEW n \in 0 .. Len(s)
  PROVE  LET firsts == {s[j] : j \in 1 .. n} IN
         firsts \subseteq ToSet(s) /\ IsFiniteSet(firsts) /\ Cardinality(firsts) = n
<1> DEFINE firsts == {s[j] : j \in 1 .. n}
           f == [j \in 1 .. n |-> s[j]]
<1>1. n \in Nat /\ \A j \in 1 .. n : j \in DOMAIN s OBVIOUS
<1>2. firsts \subseteq ToSet(s) BY <1>1 DEF ToSet
<1>3. IsFiniteSet(1 .. n) /\ Cardinality(1 .. n) = n BY <1>1, FS_Interval
<1>4. f \in Bijection(1 .. n, firsts)
  <2>1. f \in [1 .. n -> firsts] OBVIOUS
  <2>2. \A j, k \in 1 .. n : f[j] = f[k] => j = k BY <1>1 DEF IsInjective
  <2>3. \A x \in firsts : \E j \in 1 .. n : f[j] = x OBVIOUS
  <2> HIDE DEF f, firsts
  <2>. QED BY <2>1, <2>2, <2>3, Fun_IsBij
<1>5. ExistsBijection(1 .. n, firsts) BY <1>4 DEF ExistsBijection
<1> HIDE DEF f, firsts
<1>6. IsFiniteSet(firsts) /\ Cardinality(firsts) = n BY ONLY <1>3, <1>5, FS_Bijection
<1>. QED BY <1>2, <1>6 DEF firsts

(* A sequence over fewer elements is one over more.                         *)
LEMMA WiderSeq ==
  ASSUME NEW A, NEW B, A \subseteq B, NEW s \in Seq(A)
  PROVE  s \in Seq(B)
<1>1. s \in [1 .. Len(s) -> A] /\ Len(s) \in Nat OBVIOUS
<1>2. s \in [1 .. Len(s) -> B] BY <1>1
<1>. QED BY <1>1, <1>2

(* The requests at some places of a list, and p: a group.                   *)
Group(all, ms, p) == Append([j \in DOMAIN ms |-> all[ms[j]]], p)
Members(all, ms, p) == {p} \cup {all[i] : i \in ToSet(ms)}

LEMMA Grouped ==
  ASSUME NEW S, NEW all \in Seq(S), IsInjective(all), NEW p \in S, p \notin ToSet(all),
         NEW ms \in Seq(DOMAIN all), IsInjective(ms)
  PROVE  LET g == Group(all, ms, p) IN
         /\ g \in Seq(S) /\ Len(g) = Len(ms) + 1 /\ IsInjective(g)
         /\ ToSet(g) = Members(all, ms, p)
<1> DEFINE h == [j \in DOMAIN ms |-> all[ms[j]]]
           g == Group(all, ms, p)
<1>1. PICK n \in Nat : n = Len(ms) OBVIOUS
<1>2. DOMAIN ms = 1 .. n /\ \A j \in 1 .. n : ms[j] \in DOMAIN all BY <1>1
<1>3. \A i \in DOMAIN all : all[i] \in S /\ all[i] # p BY DEF ToSet
<1>4. \A j \in 1 .. n : h[j] = all[ms[j]] BY <1>2
<1>5. h \in Seq(S) /\ Len(h) = n
  <2>1. h \in [1 .. n -> S] BY <1>2, <1>3
  <2> HIDE DEF h
  <2>. QED BY <2>1
<1>g. g = Append(h, p) BY DEF Group
<1> HIDE DEF h
<1>6. /\ g \in Seq(S) /\ Len(g) = n + 1 /\ DOMAIN g = 1 .. n + 1 /\ g[n + 1] = p
      /\ \A j \in 1 .. n : g[j] = h[j]
  BY <1>5, <1>g
<1> HIDE DEF g
<1>7. \A j \in 1 .. n : g[j] = all[ms[j]] /\ g[j] # p BY <1>2, <1>3, <1>4, <1>6
<1>8. \A j \in 1 .. n + 1 : j \in 1 .. n \/ j = n + 1 OBVIOUS
<1>9. IsInjective(g)
  <2> SUFFICES ASSUME NEW i \in 1 .. n + 1, NEW j \in 1 .. n + 1, g[i] = g[j]
               PROVE  i = j
    BY <1>6 DEF IsInjective
  <2>1. CASE i \in 1 .. n /\ j \in 1 .. n
    <3>1. all[ms[i]] = all[ms[j]] BY <1>7, <2>1
    <3>2. ms[i] = ms[j] BY <1>2, <2>1, <3>1 DEF IsInjective
    <3>. QED BY <1>2, <2>1, <3>2 DEF IsInjective
  <2>. QED BY <1>6, <1>7, <1>8, <2>1
<1>a. ToSet(g) = Members(all, ms, p)
  <2>1. ToSet(ms) = {ms[j] : j \in 1 .. n} BY <1>2 DEF ToSet
  <2>2. ToSet(g) = {g[j] : j \in 1 .. n + 1} BY <1>6 DEF ToSet
  <2>3. n + 1 \in 1 .. n + 1 /\ \A j \in 1 .. n : j \in 1 .. n + 1 OBVIOUS
  <2>4. ASSUME NEW x \in ToSet(g) PROVE x = p \/ \E j \in 1 .. n : x = all[ms[j]]
    <3>1. PICK j \in 1 .. n + 1 : x = g[j] BY <2>2
    <3>. QED BY <1>6, <1>7, <1>8, <3>1
  <2>5. p \in ToSet(g) BY <1>6, <2>2, <2>3
  <2>6. \A j \in 1 .. n : all[ms[j]] \in ToSet(g) BY <1>7, <2>2, <2>3
  <2>. QED BY <2>1, <2>4, <2>5, <2>6 DEF Members
<1>. QED BY <1>1, <1>6, <1>9, <1>a DEF g

(* The places of the matched, as the lists were searched: so many different  *)
(* requests, none of them p.                                                *)
LEMMA MatchedGroup ==
  ASSUME NEW p \in Entries, NEW failNum \in Nat,
         NEW keep \in Seq(Entries), NEW strict \in Seq(Entries), Apart(strict, keep),
         p \notin ToSet(strict) \cup ToSet(keep)
  PROVE  LET tmp == Search(p, failNum, keep, strict)
             ms == RemovalOrder({tmp[j] : j \in 1 .. MatchNum - 1}, Len(strict))
             g == Append([j \in DOMAIN ms |-> (strict \o keep)[ms[j]]], p)
         IN  Len(tmp) >= MatchNum - 1 =>
               /\ ms \in Seq(Nat \ {0}) /\ IsInjective(ms)
               /\ \A i, j \in DOMAIN ms :
                    i < j => Index(ms[i], Len(strict)) >= Index(ms[j], Len(strict))
               /\ g \in Seq(Entries) /\ Len(g) = MatchNum /\ IsInjective(g)
               /\ ToSet(g) = Members(strict \o keep, ms, p)
               /\ ToSet(ms) \subseteq 1 .. Len(strict) + Len(keep)
<1> DEFINE all == strict \o keep
           found == Found(p, failNum, all)
           tmp == Search(p, failNum, keep, strict)
           firsts == {tmp[j] : j \in 1 .. MatchNum - 1}
           ms == RemovalOrder(firsts, Len(strict))
           g == Append([j \in DOMAIN ms |-> all[ms[j]]], p)
<1>0. MatchNum \in Nat /\ MatchNum > 1 BY MatchAssumption DEF MatchAssumption
<1>1. /\ found \subseteq 1 .. Len(strict) + Len(keep) /\ tmp \in Seq(found)
      /\ ToSet(tmp) = found /\ IsInjective(tmp)
  BY SearchIs
<1>2. Len(strict) \in Nat /\ Len(keep) \in Nat OBVIOUS
<1>3. /\ all \in Seq(Entries) /\ IsInjective(all) /\ ToSet(all) = ToSet(strict) \cup ToSet(keep)
      /\ DOMAIN all = 1 .. Len(strict) + Len(keep)
  BY ApartIs, ConcatElements
<1>4. p \notin ToSet(all) BY <1>3
<1> HIDE DEF all, found, tmp
<1> SUFFICES ASSUME Len(tmp) >= MatchNum - 1
             PROVE  /\ ms \in Seq(Nat \ {0}) /\ IsInjective(ms)
                    /\ \A i, j \in DOMAIN ms :
                         i < j => Index(ms[i], Len(strict)) >= Index(ms[j], Len(strict))
                    /\ g \in Seq(Entries) /\ Len(g) = MatchNum /\ IsInjective(g)
                    /\ ToSet(g) = Members(all, ms, p)
                    /\ ToSet(ms) \subseteq 1 .. Len(strict) + Len(keep)
  BY Zenon DEF all, tmp
<1>5. MatchNum - 1 \in 0 .. Len(tmp) BY <1>0, <1>1
<1>6. firsts \subseteq found /\ IsFiniteSet(firsts) /\ Cardinality(firsts) = MatchNum - 1
  BY ONLY <1>1, <1>5, FirstAreAsMany
<1> HIDE DEF firsts
<1>7. firsts \subseteq Nat \ {0} BY <1>1, <1>2, <1>6
<1>8. /\ ms \in Seq(firsts) /\ ToSet(ms) = firsts /\ IsInjective(ms) /\ Len(ms) = MatchNum - 1
      /\ \A i, j \in DOMAIN ms :
           i < j => Index(ms[i], Len(strict)) >= Index(ms[j], Len(strict))
  BY ONLY <1>2, <1>6, <1>7, RemovalIs
<1> HIDE DEF ms
<1>9. firsts \subseteq DOMAIN all BY <1>1, <1>3, <1>6
<1>a. ms \in Seq(Nat \ {0}) /\ ms \in Seq(DOMAIN all)
  BY ONLY <1>7, <1>8, <1>9, WiderSeq
<1>b. /\ g \in Seq(Entries) /\ Len(g) = Len(ms) + 1 /\ IsInjective(g)
      /\ ToSet(g) = Members(all, ms, p)
  <2>1. g = Group(all, ms, p) BY DEF Group
  <2> HIDE DEF g
  <2>. QED BY <1>3, <1>4, <1>8, <1>a, <2>1, Grouped
<1> HIDE DEF g
<1>c. Len(g) = MatchNum BY <1>0, <1>8, <1>b
<1>. QED BY <1>3, <1>8, <1>9, <1>a, <1>b, <1>c

(* Removing the matched from both lists leaves the others, where they were.  *)
LEMMA MatchedLeave ==
  ASSUME NEW p \in Entries, NEW keep \in Seq(Entries), NEW strict \in Seq(Entries),
         Apart(strict, keep), p \notin ToSet(strict) \cup ToSet(keep),
         NEW ms \in Seq(Nat \ {0}), IsInjective(ms),
         \A i, j \in DOMAIN ms :
           i < j => Index(ms[i], Len(strict)) >= Index(ms[j], Len(strict)),
         ToSet(ms) \subseteq 1 .. Len(strict) + Len(keep)
  PROVE  LET g == Members(strict \o keep, ms, p)
             k == TakeOut(keep, Len(strict), ms)
             s == TakeOut(strict, 0, ms)
         IN  /\ k \in Seq(Entries) /\ s \in Seq(Entries) /\ Apart(s, k)
             /\ ToSet(k) = ToSet(keep) \ g /\ ToSet(s) = ToSet(strict) \ g
<1> DEFINE all == strict \o keep
           g == Members(all, ms, p)
           k == TakeOut(keep, Len(strict), ms)
           s == TakeOut(strict, 0, ms)
<1>1. PICK n \in Nat : n = Len(strict) OBVIOUS
<1>2. PICK m \in Nat : m = Len(keep) OBVIOUS
<1>3. DOMAIN strict = 1 .. n /\ DOMAIN keep = 1 .. m BY <1>1, <1>2
<1>4. ms \in Seq(Nat) /\ \A j \in DOMAIN ms : ms[j] \in Nat /\ ms[j] > 0 OBVIOUS
<1>o. \A i, j \in DOMAIN ms : i < j => Index(ms[i], n) >= Index(ms[j], n) /\ ms[i] # ms[j]
  <2>1. DOMAIN ms = 1 .. Len(ms) /\ Len(ms) \in Nat OBVIOUS
  <2>2. \A i, j \in DOMAIN ms : i < j => i # j BY <2>1
  <2>. QED BY <1>1, <2>2 DEF IsInjective
<1>5. \A i, j \in DOMAIN ms :
        i < j /\ ms[i] - n \in DOMAIN keep /\ ms[j] - n \in DOMAIN keep => ms[i] > ms[j]
  <2> SUFFICES ASSUME NEW i \in DOMAIN ms, NEW j \in DOMAIN ms, i < j,
                      ms[i] - n \in DOMAIN keep, ms[j] - n \in DOMAIN keep
               PROVE  ms[i] > ms[j]
    OBVIOUS
  <2>0. ms[i] - n \in 1 .. m /\ ms[j] - n \in 1 .. m BY <1>3
  <2>a. ms[i] \in Nat /\ ms[j] \in Nat BY <1>4
  <2>b. \A x \in Nat : x - n \in 1 .. m => x > n OBVIOUS
  <2>1. ms[i] \in Nat /\ ms[j] \in Nat /\ ms[i] > n /\ ms[j] > n
    BY ONLY <2>0, <2>a, <2>b
  <2>2. Index(ms[i], n) = ms[i] - n /\ Index(ms[j], n) = ms[j] - n BY <2>1 DEF Index
  <2>3. Index(ms[i], n) >= Index(ms[j], n) /\ ms[i] # ms[j] BY <1>o
  <2>4. ms[i] - n >= ms[j] - n /\ ms[i] # ms[j] BY <2>2, <2>3
  <2>. QED BY ONLY <2>1, <2>4
<1>6. \A i, j \in DOMAIN ms :
        i < j /\ ms[i] - 0 \in DOMAIN strict /\ ms[j] - 0 \in DOMAIN strict => ms[i] > ms[j]
  <2> SUFFICES ASSUME NEW i \in DOMAIN ms, NEW j \in DOMAIN ms, i < j,
                      ms[i] - 0 \in DOMAIN strict, ms[j] - 0 \in DOMAIN strict
               PROVE  ms[i] > ms[j]
    OBVIOUS
  <2>1. ms[i] \in Nat /\ ms[j] \in Nat /\ ms[i] <= n /\ ms[j] <= n BY <1>3, <1>4
  <2>2. Index(ms[i], n) = ms[i] /\ Index(ms[j], n) = ms[j] BY <2>1 DEF Index
  <2>3. Index(ms[i], n) >= Index(ms[j], n) /\ ms[i] # ms[j] BY <1>o
  <2>. QED BY <2>1, <2>2, <2>3
<1>7. IsInjective(keep) /\ IsInjective(strict) /\ ToSet(strict) \cap ToSet(keep) = {}
  BY DEF Apart
<1> HIDE DEF k, s, g
<1>8. /\ k \in Seq(Entries) /\ IsInjective(k)
      /\ ToSet(k) = {keep[i] : i \in {i \in DOMAIN keep : i + n \notin ToSet(ms)}}
  <2>1. k = TakeOut(keep, n, ms) BY <1>1 DEF k
  <2>2. keep \in Seq(Entries) /\ IsInjective(keep) /\ n \in Nat /\ ms \in Seq(Nat)
    BY <1>4, <1>7
  <2> DEFINE t == TakeOut(keep, n, ms)
  <2>3. /\ t \in Seq(Entries) /\ IsInjective(t)
        /\ ToSet(t) = {keep[i] : i \in {i \in DOMAIN keep : i + n \notin ToSet(ms)}}
    BY ONLY <1>5, <2>2, TakenOut
  <2>. QED BY <2>1, <2>3
<1>9. /\ s \in Seq(Entries) /\ IsInjective(s)
      /\ ToSet(s) = {strict[i] : i \in {i \in DOMAIN strict : i + 0 \notin ToSet(ms)}}
  BY <1>4, <1>6, <1>7, TakenOut DEF s
<1>a. /\ all \in Seq(Entries) /\ IsInjective(all) /\ DOMAIN all = 1 .. n + m
      /\ \A i \in 1 .. n : all[i] = strict[i]
      /\ \A i \in 1 .. m : all[i + n] = keep[i]
  <2>1. /\ all \in Seq(Entries) /\ IsInjective(all) /\ DOMAIN all = 1 .. n + m
        /\ \A i \in 1 .. n + m : all[i] = IF i <= n THEN strict[i] ELSE keep[i - n]
    BY <1>1, <1>2, ApartIs, ConcatElements
  <2> HIDE DEF all
  <2>2. \A i \in 1 .. m : i + n \in 1 .. n + m /\ ~(i + n <= n) /\ (i + n) - n = i OBVIOUS
  <2>3. \A i \in 1 .. n : i \in 1 .. n + m /\ i <= n OBVIOUS
  <2>. QED BY <2>1, <2>2, <2>3
<1>b. g = {p} \cup {all[i] : i \in ToSet(ms)} /\ ToSet(ms) \subseteq DOMAIN all
  BY <1>1, <1>2, <1>a DEF g, Members
<1>c. \A i \in DOMAIN all : all[i] # p => (all[i] \in g <=> i \in ToSet(ms))
  <2> HIDE DEF all
  <2>. QED BY <1>a, <1>b DEF IsInjective
<1> HIDE DEF all
<1>d. \A i \in 1 .. m : i + n \in DOMAIN all /\ (keep[i] \in g <=> i + n \in ToSet(ms))
  <2>1. \A i \in 1 .. m : i + n \in 1 .. n + m OBVIOUS
  <2>2. \A i \in 1 .. m : keep[i] # p BY <1>3 DEF ToSet
  <2>. QED BY <1>a, <1>c, <2>1, <2>2
<1>e. \A i \in 1 .. n : i \in DOMAIN all /\ i + 0 = i /\ (strict[i] \in g <=> i \in ToSet(ms))
  <2>1. \A i \in 1 .. n : i \in 1 .. n + m /\ i + 0 = i OBVIOUS
  <2>2. \A i \in 1 .. n : strict[i] # p BY <1>3 DEF ToSet
  <2>. QED BY <1>a, <1>c, <2>1, <2>2
<1>f. ToSet(k) = ToSet(keep) \ g BY <1>3, <1>8, <1>d DEF ToSet
<1>g. ToSet(s) = ToSet(strict) \ g
  <2>1. ToSet(s) = {strict[i] : i \in {i \in 1 .. n : i \notin ToSet(ms)}} BY <1>3, <1>9, <1>e
  <2>2. ToSet(strict) = {strict[i] : i \in 1 .. n} BY <1>3 DEF ToSet
  <2>. QED BY <1>e, <2>1, <2>2
<1>h. Apart(s, k) BY <1>7, <1>8, <1>9, <1>f, <1>g DEF Apart
<1>. QED BY <1>8, <1>9, <1>f, <1>g, <1>h DEF k, s, g, all

-----------------------------------------------------------------------------
(* The inductive invariant.                                                 *)
Places == {"none", "watch", "done", "keep", "strict", "relist", "ai", "new", "enter", "tell"}
Handling == {"ai", "new", "enter", "tell"}
Rows == [time : Nat, stepTime : Nat, failNum : Nat, linked : BOOLEAN]
Frames == [at : Places, ret : Places, i : Nat, relist : Seq(Entries), group : Seq(Entries),
           k : Nat]

(* Where a coroutine may be: a request is added once, an update loops, and   *)
(* each comes back from handleMatch to where it called it; the group it has   *)
(* there is a sound one, and update's index is one of the list it had.       *)
FrameSound(c, r) ==
  /\ r \in Frames
  /\ c \in Entries => /\ r.at \in {"none", "watch", "done", "new", "enter", "tell"}
                      /\ r.ret \in {"none", "done"}
  /\ c \in Updates => /\ r.at \in Places \ {"watch", "done"}
                      /\ r.ret \in {"none", "keep", "strict", "relist"}
  /\ r.at \in Handling <=> r.ret # "none"
  /\ r.at \in Handling => Len(r.group) \in {1, MatchNum} /\ IsInjective(r.group)
  /\ r.at = "ai" => Len(r.group) = 1
  /\ r.ret = "strict" => r.i >= 1

ListsSound(k, s) ==
  /\ k \in Seq(Entries) /\ s \in Seq(Entries) /\ Apart(s, k)
  /\ \A S \in SUBSET (ToSet(k) \cup ToSet(s)) :
       /\ Cardinality(S) = MatchNum
       /\ S \cap ToSet(s) # {}
       => \E e, f \in S : ~Near(e, f)

TypeOK ==
  /\ nowInMatchers \in [Accounts -> BOOLEAN] /\ ent \in [Entries -> Rows]
  /\ co \in [Coroutines -> Frames] /\ run \in Coroutines \cup {Nobody}
  /\ gone \subseteq Accounts /\ errors \subseteq Accounts /\ picks \in [Entries -> Nat]

(* Who has not been added yet is in no list, and whom an update is going to  *)
(* search again is not in the keep list.                                    *)
Asked ==
  \A e \in Entries : co[e].at \in {"none", "watch"} =>
    /\ e \notin ToSet(keep_list) \cup ToSet(strict_list)
    /\ \A c \in Coroutines : e \notin ToSet(co[c].relist)

Relisted == \A c \in Coroutines : ToSet(co[c].relist) \cap ToSet(keep_list) = {}

IInv ==
  /\ TypeOK /\ ListsSound(keep_list, strict_list)
  /\ \A c \in Coroutines : FrameSound(c, co[c])
  /\ Asked /\ Relisted

(* Ratings and ranges are numbers; a wider range finds whom a narrow one      *)
(* finds, and being near is mutual.                                         *)
LEMMA Ranges ==
  ASSUME NEW p \in Entries, NEW v \in Entries, NEW n \in Nat, Near(p, v) \/ Near(v, p)
  PROVE  InRange(p, v, n)
<1>1. PICK a \in Nat : a = Elo[p] BY MatchAssumption DEF MatchAssumption
<1>2. PICK b \in Nat : b = Elo[v] BY MatchAssumption DEF MatchAssumption
<1>3. PICK w \in Nat : w = EloStrict BY MatchAssumption DEF MatchAssumption
<1>4. PICK x \in Nat : x = n * EloStep
  <2>1. EloStep \in Nat BY MatchAssumption DEF MatchAssumption
  <2>2. n * EloStep \in Nat BY <2>1
  <2>. QED BY <2>2
<1>5. 0 * EloStep = 0
  <2>1. EloStep \in Nat BY MatchAssumption DEF MatchAssumption
  <2>. QED BY <2>1
<1>6. b \in a - w .. a + w
  <2>1. Near(p, v) => b \in a - (0 + w) .. a + (0 + w)
    BY <1>1, <1>2, <1>3, <1>5 DEF Near, InRange
  <2>2. Near(v, p) => a \in b - (0 + w) .. b + (0 + w)
    BY <1>1, <1>2, <1>3, <1>5 DEF Near, InRange
  <2>. QED BY <2>1, <2>2
<1>7. b \in a - (x + w) .. a + (x + w) BY <1>6
<1>. QED BY <1>1, <1>2, <1>3, <1>4, <1>7 DEF InRange

(* Fewer requests in the lists miss no match either.                        *)
LEMMA FewerSound ==
  ASSUME NEW k, NEW s, ListsSound(k, s),
         NEW l \in Seq(Entries), NEW t \in Seq(Entries), Apart(t, l),
         ToSet(t) \subseteq ToSet(s), ToSet(l) \cup ToSet(t) \subseteq ToSet(k) \cup ToSet(s)
  PROVE  ListsSound(l, t)
<1> SUFFICES ASSUME NEW S \in SUBSET (ToSet(l) \cup ToSet(t)), Cardinality(S) = MatchNum,
                    S \cap ToSet(t) # {}
             PROVE  \E e, f \in S : ~Near(e, f)
  BY DEF ListsSound
<1>1. S \in SUBSET (ToSet(k) \cup ToSet(s)) /\ S \cap ToSet(s) # {} OBVIOUS
<1>. QED BY <1>1 DEF ListsSound

(* Who has searched both lists in vain may wait in the strict list.          *)
LEMMA FoundTooFew ==
  ASSUME NEW p \in Entries, NEW n \in Nat, NEW k \in Seq(Entries), NEW s \in Seq(Entries),
         NEW S, S \subseteq ToSet(k) \cup ToSet(s) \cup {p}, p \in S, Cardinality(S) = MatchNum,
         \A e, f \in S : Near(e, f)
  PROVE  Cardinality(Found(p, n, s \o k)) >= MatchNum - 1
<1> DEFINE all == s \o k
           found == Found(p, n, all)
           T == S \ {p}
           Place(e) == CHOOSE i \in found : all[i] = e
           f == [e \in T |-> Place(e)]
<1>0. MatchNum \in Nat /\ MatchNum > 1 BY MatchAssumption DEF MatchAssumption
<1>1. found \subseteq 1 .. Len(s) + Len(k) /\ IsFiniteSet(found) BY SearchIs
<1>2. all \in Seq(Entries) /\ ToSet(all) = ToSet(s) \cup ToSet(k) BY ApartIs
<1> HIDE DEF all
<1>3. ASSUME NEW e \in T PROVE \E i \in found : all[i] = e
  <2>1. e \in ToSet(all) BY <1>2
  <2>2. PICK i \in DOMAIN all : all[i] = e BY <2>1 DEF ToSet
  <2>3. e \in Entries /\ Near(p, e) BY <1>2, <2>2
  <2>4. InRange(p, all[i], n) BY <2>2, <2>3, Ranges
  <2>. QED BY <2>2, <2>4 DEF Found
<1> HIDE DEF found
<1>4. f \in Injection(T, found)
  <2>1. \A e \in T : Place(e) \in found /\ all[Place(e)] = e BY <1>3
  <2> HIDE DEF Place
  <2>2. f \in [T -> found] BY <2>1
  <2>3. \A e, g \in T : f[e] = f[g] => e = g BY <2>1
  <2> HIDE DEF f
  <2>. QED BY <2>2, <2>3, Fun_IsInj
<1>5. IsFiniteSet(T) /\ Cardinality(T) <= Cardinality(found)
  <2> HIDE DEF T, f
  <2>. QED BY ONLY <1>1, <1>4, FS_Injection
<1>6. IsFiniteSet(S) /\ S = T \cup {p} /\ Cardinality(S) = Cardinality(T) + 1
  <2>1. S = T \cup {p} /\ p \notin T OBVIOUS
  <2> HIDE DEF T
  <2>2. IsFiniteSet(T \cup {p}) /\ Cardinality(T \cup {p}) = Cardinality(T) + 1
    BY <1>5, <2>1, FS_AddElement
  <2>. QED BY <2>1, <2>2
<1>7. Cardinality(T) \in Nat /\ Cardinality(found) \in Nat BY <1>1, <1>5, FS_CardinalityType
<1>. QED BY <1>0, <1>5, <1>6, <1>7 DEF found, all

(* A list with one more at its end.                                         *)
LEMMA AppendIs ==
  ASSUME NEW s \in Seq(Entries), IsInjective(s), NEW p \in Entries, p \notin ToSet(s)
  PROVE  /\ Append(s, p) \in Seq(Entries) /\ IsInjective(Append(s, p))
         /\ ToSet(Append(s, p)) = ToSet(s) \cup {p}
<1>1. PICK m \in Nat : m = Len(s) OBVIOUS
<1>2. PICK t \in Seq(Entries) : t = Append(s, p)
  <2>1. Append(s, p) \in Seq(Entries) OBVIOUS
  <2>. QED BY <2>1
<1>3. /\ DOMAIN s = 1 .. m /\ DOMAIN t = 1 .. m + 1 /\ t[m + 1] = p
      /\ \A i \in 1 .. m : t[i] = s[i]
  BY <1>1, <1>2
<1>4. \A i \in 1 .. m + 1 : i \in 1 .. m \/ i = m + 1 OBVIOUS
<1>5. m + 1 \in 1 .. m + 1 /\ \A i \in 1 .. m : i \in 1 .. m + 1 OBVIOUS
<1>6. \A i \in 1 .. m : s[i] # p BY <1>3 DEF ToSet
<1>7. ToSet(t) = ToSet(s) \cup {p}
  <2>1. ToSet(s) = {s[i] : i \in 1 .. m} /\ ToSet(t) = {t[i] : i \in 1 .. m + 1}
    BY <1>3 DEF ToSet
  <2>2. \A i \in 1 .. m + 1 : t[i] \in ToSet(s) \cup {p} BY <1>3, <1>4, <2>1
  <2>3. p \in ToSet(t) /\ \A i \in 1 .. m : s[i] \in ToSet(t) BY <1>3, <1>5, <2>1
  <2>. QED BY <2>1, <2>2, <2>3
<1>8. IsInjective(t)
  <2> SUFFICES ASSUME NEW i \in 1 .. m + 1, NEW j \in 1 .. m + 1, t[i] = t[j] PROVE i = j
    BY <1>3 DEF IsInjective
  <2>1. CASE i \in 1 .. m /\ j \in 1 .. m BY <1>3, <2>1 DEF IsInjective
  <2>. QED BY <1>3, <1>4, <1>6, <2>1
<1>. QED BY <1>2, <1>7, <1>8

(* And so addtoStictlist may add its player to the strict list.             *)
LEMMA AddedSound ==
  ASSUME NEW k, NEW s, ListsSound(k, s), NEW p \in Entries, p \notin ToSet(k) \cup ToSet(s),
         NEW n \in Nat, Cardinality(Found(p, n, s \o k)) < MatchNum - 1
  PROVE  /\ ListsSound(k, Append(s, p)) /\ ToSet(Append(s, p)) = ToSet(s) \cup {p}
<1>1. k \in Seq(Entries) /\ s \in Seq(Entries) /\ Apart(s, k) BY DEF ListsSound
<1>2. PICK t \in Seq(Entries) :
        t = Append(s, p) /\ IsInjective(t) /\ ToSet(t) = ToSet(s) \cup {p}
  BY <1>1, AppendIs DEF Apart
<1>3. Apart(t, k) BY <1>1, <1>2 DEF Apart
<1>4. ASSUME NEW S \in SUBSET (ToSet(k) \cup ToSet(t)), Cardinality(S) = MatchNum,
             S \cap ToSet(t) # {}
      PROVE  \E e, f \in S : ~Near(e, f)
  <2>1. CASE p \in S
    <3> SUFFICES ASSUME \A e, f \in S : Near(e, f) PROVE FALSE OBVIOUS
    <3>1. S \subseteq ToSet(k) \cup ToSet(s) \cup {p} BY <1>2
    <3>2. Cardinality(Found(p, n, s \o k)) >= MatchNum - 1
      BY <1>1, <1>4, <2>1, <3>1, FoundTooFew
    <3>3. IsFiniteSet(Found(p, n, s \o k)) BY <1>1, SearchIs
    <3>4. Cardinality(Found(p, n, s \o k)) \in Nat BY <3>3, FS_CardinalityType
    <3>5. MatchNum \in Nat BY MatchAssumption DEF MatchAssumption
    <3>. QED BY <3>2, <3>4, <3>5
  <2>2. CASE p \notin S
    <3>1. S \in SUBSET (ToSet(k) \cup ToSet(s)) /\ S \cap ToSet(s) # {} BY <1>2, <1>4, <2>2
    <3>. QED BY <1>4, <3>1 DEF ListsSound
  <2>. QED BY <2>1, <2>2
<1>. QED BY <1>1, <1>2, <1>3, <1>4 DEF ListsSound

(* While nobody waits in the strict list, nothing is missed.                *)
LEMMA KeptSound ==
  ASSUME NEW k, NEW s, ListsSound(k, s), s = <<>>, NEW p \in Entries, p \notin ToSet(k)
  PROVE  ListsSound(Append(k, p), s) /\ ToSet(Append(k, p)) = ToSet(k) \cup {p}
<1>1. k \in Seq(Entries) /\ s \in Seq(Entries) /\ Apart(s, k) BY DEF ListsSound
<1>2. PICK t \in Seq(Entries) :
        t = Append(k, p) /\ IsInjective(t) /\ ToSet(t) = ToSet(k) \cup {p}
  BY <1>1, AppendIs DEF Apart
<1>3. ToSet(s) = {} BY DEF ToSet
<1>. QED BY <1>1, <1>2, <1>3 DEF ListsSound, Apart

(* A request whose failNum and stepTime addtoStictlist sets.                *)
LEMMA RowFails ==
  ASSUME NEW en \in [Entries -> Rows], NEW p \in Entries
  PROVE  [en EXCEPT ![p] = [en[p] EXCEPT !.failNum = @ + 1, !.stepTime = 0, !.linked = TRUE]]
           \in [Entries -> Rows]
<1>1. en[p].failNum + 1 \in Nat BY DEF Rows
<1>2. [en[p] EXCEPT !.failNum = en[p].failNum + 1] \in Rows BY <1>1 DEF Rows
<1>3. \A x \in Rows : [x EXCEPT !.stepTime = 0] \in Rows BY DEF Rows
<1>4. \A x \in Rows : [x EXCEPT !.linked = TRUE] \in Rows BY DEF Rows
<1>5. [en[p] EXCEPT !.failNum = en[p].failNum + 1, !.stepTime = 0, !.linked = TRUE] \in Rows
  BY <1>2, <1>3, <1>4
<1>. QED BY <1>5

(* What addtoStictlist does: the player waits, or a group leaves.           *)
Called(r, g) == [r EXCEPT !.at = "new", !.ret = r.at, !.group = g]

Waits(c, r, p, k, s) ==
  /\ ToSet(keep_list') = ToSet(k) /\ ToSet(strict_list') = ToSet(s) \cup {p}
  /\ Become(c, r)

LeavesWith(c, r, p, k, s, g) ==
  /\ Len(g) = MatchNum /\ IsInjective(g) /\ p \in ToSet(g)
  /\ ToSet(keep_list') = ToSet(k) \ ToSet(g) /\ ToSet(strict_list') = ToSet(s) \ ToSet(g)
  /\ Become(c, Called(r, g))

LEMMA AddEffect ==
  ASSUME NEW c, NEW r, NEW p \in Entries, NEW k, NEW s, ListsSound(k, s),
         p \notin ToSet(k) \cup ToSet(s), NEW en \in [Entries -> Rows],
         addtoStictlist(c, p, k, s, en, r)
  PROVE  /\ ListsSound(keep_list', strict_list') /\ ent' \in [Entries -> Rows]
         /\ \/ Waits(c, r, p, k, s)
            \/ \E g \in Seq(Entries) : LeavesWith(c, r, p, k, s, g)
<1> DEFINE n == en[p].failNum
           tmp == Search(p, n, k, s)
           ms == RemovalOrder({tmp[j] : j \in 1 .. MatchNum - 1}, Len(s))
           g == Append([j \in DOMAIN ms |-> (s \o k)[ms[j]]], p)
<1>0. k \in Seq(Entries) /\ s \in Seq(Entries) /\ Apart(s, k) BY DEF ListsSound
<1>1. n \in Nat BY DEF Rows
<1>2. MatchNum \in Nat BY MatchAssumption DEF MatchAssumption
<1> HIDE DEF n
<1>3. tmp \in Seq(Found(p, n, s \o k)) /\ Len(tmp) = Cardinality(Found(p, n, s \o k))
  BY ONLY p \in Entries, <1>0, <1>1, SearchIs
<1>4. Len(tmp) \in Nat BY <1>3
<1>5. IF Len(tmp) < MatchNum - 1
        THEN /\ keep_list' = k /\ strict_list' = Append(s, p)
             /\ ent' = [en EXCEPT ![p] = [en[p] EXCEPT !.failNum = @ + 1, !.stepTime = 0,
                                                       !.linked = TRUE]]
             /\ Become(c, r)
        ELSE /\ keep_list' = TakeOut(k, Len(s), ms)
             /\ strict_list' = TakeOut(s, 0, ms)
             /\ ent' = [e \in Entries |-> IF e \in ToSet(g)
                                            THEN [en[e] EXCEPT !.linked = FALSE]
                                            ELSE en[e]]
             /\ Become(c, [r EXCEPT !.at = "new", !.ret = r.at, !.group = g])
  BY DEF addtoStictlist, n
<1>6. Len(tmp) >= MatchNum - 1 =>
        /\ ms \in Seq(Nat \ {0}) /\ IsInjective(ms)
        /\ \A i, j \in DOMAIN ms : i < j => Index(ms[i], Len(s)) >= Index(ms[j], Len(s))
        /\ g \in Seq(Entries) /\ Len(g) = MatchNum /\ IsInjective(g)
        /\ ToSet(g) = Members(s \o k, ms, p)
        /\ ToSet(ms) \subseteq 1 .. Len(s) + Len(k)
  BY <1>0, <1>1, MatchedGroup
<1> HIDE DEF n, tmp, ms, g
<1>7. CASE Len(tmp) < MatchNum - 1
  <2>1. /\ ListsSound(k, Append(s, p)) /\ ToSet(Append(s, p)) = ToSet(s) \cup {p}
    BY <1>1, <1>3, <1>7, AddedSound
  <2>2. /\ keep_list' = k /\ strict_list' = Append(s, p) /\ Become(c, r)
        /\ ent' = [en EXCEPT ![p] = [en[p] EXCEPT !.failNum = @ + 1, !.stepTime = 0,
                                                  !.linked = TRUE]]
    BY <1>5, <1>7
  <2>3. ent' \in [Entries -> Rows] BY <2>2, RowFails
  <2>. QED BY <2>1, <2>2, <2>3 DEF Waits
<1>8. CASE ~(Len(tmp) < MatchNum - 1)
  <2>1. Len(tmp) >= MatchNum - 1 BY <1>2, <1>4, <1>8
  <2>2. /\ g \in Seq(Entries) /\ Len(g) = MatchNum /\ IsInjective(g) /\ p \in ToSet(g)
    BY <1>6, <2>1 DEF Members
  <2> DEFINE l == TakeOut(k, Len(s), ms)
             t == TakeOut(s, 0, ms)
             all == Members(s \o k, ms, p)
  <2>a. p \notin ToSet(s) \cup ToSet(k) /\ p \in Entries OBVIOUS
  <2>b. /\ l \in Seq(Entries) /\ t \in Seq(Entries) /\ Apart(t, l)
        /\ ToSet(l) = ToSet(k) \ all /\ ToSet(t) = ToSet(s) \ all
    BY ONLY <1>0, <1>6, <2>1, <2>a, MatchedLeave
  <2> HIDE DEF l, t, all
  <2>c. all = ToSet(g) BY <1>6, <2>1 DEF all
  <2>d. keep_list' = l /\ strict_list' = t BY <1>5, <1>8 DEF l, t
  <2>3. /\ keep_list' \in Seq(Entries) /\ strict_list' \in Seq(Entries)
        /\ Apart(strict_list', keep_list')
        /\ ToSet(keep_list') = ToSet(k) \ ToSet(g)
        /\ ToSet(strict_list') = ToSet(s) \ ToSet(g)
    BY <2>b, <2>c, <2>d
  <2>4. ListsSound(keep_list', strict_list') BY <2>3, FewerSound
  <2>5. ent' \in [Entries -> Rows]
    <3>1. \A e \in Entries : [en[e] EXCEPT !.linked = FALSE] \in Rows BY DEF Rows
    <3>. QED BY <1>5, <1>8, <3>1
  <2>6. Become(c, Called(r, g)) BY <1>5, <1>8 DEF Called
  <2>7. LeavesWith(c, r, p, k, s, g) BY <2>2, <2>3, <2>6 DEF LeavesWith
  <2>. QED BY <2>2, <2>4, <2>5, <2>7
<1>. QED BY <1>7, <1>8

(* Of a group that is new, exactly the members and others of their accounts  *)
(* leave the lists.                                                         *)
Leaves ==
  \A c \in Coroutines :
     co[c].at # "new" /\ co'[c].at = "new" /\ Len(co'[c].group) > 1 =>
       OthersStay(ToSet(co'[c].group))

LEMMA WaitingIs ==
  ASSUME ListsSound(keep_list, strict_list)
  PROVE  ToSet(Waiting) = ToSet(keep_list) \cup ToSet(strict_list)
  BY ApartIs DEF Waiting, ListsSound

(* One coroutine goes on.                                                   *)
LEMMA Becoming ==
  ASSUME IInv, NEW c \in Coroutines, NEW r, Become(c, r), FrameSound(c, r),
         ListsSound(keep_list', strict_list'), ent' \in [Entries -> Rows],
         nowInMatchers' \in [Accounts -> BOOLEAN], gone' = gone, errors' = errors,
         picks' \in [Entries -> Nat],
         c \in Entries /\ r.at \in {"none", "watch"} =>
           co[c].at \in {"none", "watch"} /\ c \notin ToSet(keep_list') \cup ToSet(strict_list'),
         ToSet(r.relist) \subseteq ToSet(co[c].relist) \cup ToSet(strict_list),
         \A e \in ToSet(keep_list') :
           e \in ToSet(keep_list) \/ (e = c /\ co[c].at = "watch"),
         \A e \in ToSet(strict_list') :
           \/ e \in ToSet(keep_list) \cup ToSet(strict_list) \cup ToSet(co[c].relist)
           \/ e = c /\ co[c].at = "watch",
         r.at = "new" /\ co[c].at # "new" /\ Len(r.group) > 1 => OthersStay(ToSet(r.group))
  PROVE  IInv' /\ Leaves
<1>0. co \in [Coroutines -> Frames] /\ r \in Frames BY DEF IInv, TypeOK, FrameSound
<1>1. co' = [co EXCEPT ![c] = r] BY DEF Become
<1>2. co'[c] = r /\ \A d \in Coroutines : d # c => co'[d] = co[d] BY <1>0, <1>1
<1>3. TypeOK'
  <2>1. run' \in Coroutines \cup {Nobody} BY DEF Become
  <2>. QED BY <1>0, <1>1, <2>1 DEF IInv, TypeOK
<1>4. \A d \in Coroutines : FrameSound(d, co'[d]) BY <1>2 DEF IInv
<1>5. ToSet(keep_list) \subseteq Entries /\ ToSet(strict_list) \subseteq Entries
  BY DEF IInv, ListsSound, ToSet
<1>6. ToSet(keep_list') \subseteq Entries BY DEF ListsSound, ToSet
<1>7. Entries \subseteq Coroutines BY DEF Coroutines
<1>8. Asked'
  <2> SUFFICES ASSUME NEW e \in Entries, co'[e].at \in {"none", "watch"}
               PROVE  /\ e \notin ToSet(keep_list') \cup ToSet(strict_list')
                      /\ \A d \in Coroutines : e \notin ToSet(co'[d].relist)
    BY DEF Asked
  <2>1. co[e].at \in {"none", "watch"} BY <1>2, <1>7
  <2>2. /\ e \notin ToSet(keep_list) \cup ToSet(strict_list)
        /\ \A d \in Coroutines : e \notin ToSet(co[d].relist)
    BY <2>1 DEF IInv, Asked
  <2>3. \A d \in Coroutines : e \notin ToSet(co'[d].relist) BY <1>2, <2>2
  <2>4. e \notin ToSet(keep_list') \cup ToSet(strict_list')
    <3>1. CASE e = c BY <1>2, <3>1
    <3>2. CASE e # c BY <2>2, <3>2
    <3>. QED BY <3>1, <3>2
  <2>. QED BY <2>3, <2>4
<1>9. Relisted'
  <2> SUFFICES ASSUME NEW d \in Coroutines, NEW e \in ToSet(co'[d].relist), e \in ToSet(keep_list')
               PROVE  FALSE
    BY DEF Relisted
  <2>1. ToSet(strict_list) \cap ToSet(keep_list) = {} BY DEF IInv, ListsSound, Apart
  <2>2. e \in ToSet(co[d].relist) \/ e \in ToSet(strict_list) BY <1>2
  <2>3. CASE e \in ToSet(keep_list) BY <2>1, <2>2, <2>3 DEF IInv, Relisted
  <2>4. CASE e = c /\ co[c].at = "watch" BY <1>6, <2>2, <2>4 DEF IInv, Asked
  <2>. QED BY <2>3, <2>4
<1>a. Leaves BY <1>2 DEF Leaves
<1>. QED BY <1>3, <1>4, <1>8, <1>9, <1>a DEF IInv

(* The frames of the coroutines, field by field.                            *)
LEMMA FrameFields ==
  ASSUME NEW r \in Frames
  PROVE  /\ \A x \in Places : [r EXCEPT !.at = x] \in Frames /\ [r EXCEPT !.ret = x] \in Frames
         /\ \A x \in Nat : [r EXCEPT !.i = x] \in Frames /\ [r EXCEPT !.k = x] \in Frames
         /\ \A x \in Seq(Entries) :
              [r EXCEPT !.relist = x] \in Frames /\ [r EXCEPT !.group = x] \in Frames
         /\ r.at \in Places /\ r.ret \in Places /\ r.i \in Nat /\ r.k \in Nat
         /\ r.relist \in Seq(Entries) /\ r.group \in Seq(Entries)
  BY DEF Frames

LEMMA FreshFrame ==
  /\ Fresh \in Frames /\ Fresh.at = "none" /\ Fresh.ret = "none" /\ Fresh.relist = <<>>
  /\ Fresh.i = 0 /\ Fresh.group = <<>>
  /\ Ended \in Frames /\ Ended.at = "done" /\ Ended.ret = "none" /\ Ended.relist = <<>>
<1>1. <<>> \in Seq(Entries) OBVIOUS
<1>. QED BY <1>1 DEF Fresh, Ended, Frames, Places

(* A coroutine whose call of addtoStictlist has found a group.              *)
LEMMA GroupFrame ==
  ASSUME NEW c \in Coroutines, NEW r, FrameSound(c, r), r.at \in {"done", "keep", "relist"},
         NEW g \in Seq(Entries), Len(g) = MatchNum, IsInjective(g)
  PROVE  LET t == Called(r, g) IN
         FrameSound(c, t) /\ t.at = "new" /\ t.group = g /\ t.relist = r.relist
<1> DEFINE t == [r EXCEPT !.at = "new", !.ret = r.at, !.group = g]
<1>1. r \in Frames BY DEF FrameSound
<1>2. t \in Frames
  <2>1. [r EXCEPT !.at = "new"] \in Frames BY <1>1, FrameFields DEF Places
  <2>2. [[r EXCEPT !.at = "new"] EXCEPT !.ret = r.at] \in Frames BY <1>1, <2>1, FrameFields
  <2>3. [[[r EXCEPT !.at = "new"] EXCEPT !.ret = r.at] EXCEPT !.group = g] \in Frames
    BY <2>2, FrameFields
  <2>. QED BY <2>3
<1>3. /\ t.at = "new" /\ t.ret = r.at /\ t.group = g /\ t.relist = r.relist
  BY <1>1 DEF Frames
<1> HIDE DEF t
<1>4. FrameSound(c, t) BY <1>2, <1>3 DEF FrameSound, Handling, Places
<1>5. t = Called(r, g) BY DEF t, Called
<1>. QED BY <1>3, <1>4, <1>5

-----------------------------------------------------------------------------
(* The steps, one lemma for each action.                                    *)

(* The coroutines stay where they are, and nobody is added to a list.        *)
LEMMA Staying ==
  ASSUME IInv, co' = co, run' = run, ent' = ent, nowInMatchers' \in [Accounts -> BOOLEAN],
         gone' \subseteq Accounts, errors' \subseteq Accounts, picks' = picks,
         ListsSound(keep_list', strict_list'),
         ToSet(keep_list') \subseteq ToSet(keep_list),
         ToSet(strict_list') \subseteq ToSet(strict_list)
  PROVE  IInv' /\ Leaves
<1>1. TypeOK' BY DEF IInv, TypeOK
<1>2. \A c \in Coroutines : FrameSound(c, co'[c]) BY DEF IInv
<1>3. Asked' BY DEF IInv, Asked
<1>4. Relisted' BY DEF IInv, Relisted
<1>5. Leaves BY DEF Leaves
<1>. QED BY <1>1, <1>2, <1>3, <1>4, <1>5 DEF IInv

(* A coroutine moves, and the lists stay.                                   *)
LEMMA Moving ==
  ASSUME IInv, NEW c \in Coroutines, NEW r, Become(c, r), FrameSound(c, r), UNCHANGED queues,
         ent' \in [Entries -> Rows], nowInMatchers' \in [Accounts -> BOOLEAN],
         gone' = gone, errors' = errors, picks' \in [Entries -> Nat],
         c \in Entries /\ r.at \in {"none", "watch"} => co[c].at \in {"none", "watch"},
         ToSet(r.relist) \subseteq ToSet(co[c].relist) \cup ToSet(strict_list),
         r.at = "new" => Len(r.group) = 1
  PROVE  IInv' /\ Leaves
<1>1. keep_list' = keep_list /\ strict_list' = strict_list BY DEF queues
<1>2. ListsSound(keep_list', strict_list') BY <1>1 DEF IInv
<1>3. c \in Entries /\ r.at \in {"none", "watch"} =>
        co[c].at \in {"none", "watch"} /\ c \notin ToSet(keep_list') \cup ToSet(strict_list')
  BY <1>1 DEF IInv, Asked
<1>4. ~(r.at = "new" /\ Len(r.group) > 1)
  <2>1. \A x : x = 1 => ~(x > 1) OBVIOUS
  <2>. QED BY Zenon, <2>1
<1>. QED BY <1>1, <1>2, <1>3, <1>4, Becoming

(* A coroutine adds a player, who has left the lists or was never in one, to  *)
(* the strict list; others of the same account may have left it as well.     *)
LEMMA Adding ==
  ASSUME IInv, NEW c \in Coroutines, NEW r, FrameSound(c, r),
         r.at \in {"done", "keep", "relist"}, ToSet(r.relist) \subseteq ToSet(co[c].relist),
         NEW p \in Entries, NEW k, NEW s, ListsSound(k, s), p \notin ToSet(k) \cup ToSet(s),
         NEW en \in [Entries -> Rows], addtoStictlist(c, p, k, s, en, r),
         nowInMatchers' \in [Accounts -> BOOLEAN], UNCHANGED outside,
         ToSet(k) \subseteq ToSet(keep_list), ToSet(s) \subseteq ToSet(strict_list),
         \/ p \in ToSet(keep_list) \cup ToSet(strict_list) \cup ToSet(co[c].relist)
         \/ p = c /\ co[c].at = "watch",
         \A e \in ToSet(keep_list) \cup ToSet(strict_list) :
           e \in ToSet(k) \cup ToSet(s) \/ Account[e] = Account[p]
  PROVE  IInv' /\ Leaves
<1>1. gone' = gone /\ errors' = errors /\ picks' \in [Entries -> Nat]
  BY DEF outside, IInv, TypeOK
<1>2. ListsSound(keep_list', strict_list') /\ ent' \in [Entries -> Rows] BY AddEffect
<1>3. CASE Waits(c, r, p, k, s)
  <2>1. r.at \notin {"none", "watch", "new"} OBVIOUS
  <2>. QED BY <1>1, <1>2, <1>3, <2>1, Becoming DEF Waits
<1>4. ASSUME NEW g \in Seq(Entries), LeavesWith(c, r, p, k, s, g)
      PROVE  IInv' /\ Leaves
  <2> DEFINE t == Called(r, g)
  <2>0. /\ Len(g) = MatchNum /\ IsInjective(g) /\ p \in ToSet(g)
        /\ ToSet(keep_list') = ToSet(k) \ ToSet(g)
        /\ ToSet(strict_list') = ToSet(s) \ ToSet(g)
        /\ Become(c, t)
    BY <1>4 DEF LeavesWith
  <2>1. FrameSound(c, t) /\ t.at = "new" /\ t.group = g /\ t.relist = r.relist
    BY <2>0, GroupFrame
  <2> HIDE DEF t
  <2>3. ToSet(Waiting') = ToSet(keep_list') \cup ToSet(strict_list')
    BY <1>2, ApartIs DEF Waiting, ListsSound
  <2>4. ToSet(Waiting) = ToSet(keep_list) \cup ToSet(strict_list) BY WaitingIs DEF IInv
  <2>5. OthersStay(ToSet(g))
    <3>1. ToSet(Waiting') \subseteq ToSet(Waiting) \ ToSet(g) BY <2>0, <2>3, <2>4
    <3>2. ASSUME NEW e \in ToSet(Waiting) \ ToSet(Waiting')
          PROVE  \E m \in ToSet(g) : Account[e] = Account[m]
      <4>1. CASE e \in ToSet(k) \cup ToSet(s)
        <5>1. e \in ToSet(g) BY <2>0, <2>3, <3>2, <4>1
        <5>. QED BY <5>1
      <4>2. CASE e \notin ToSet(k) \cup ToSet(s) BY <2>0, <2>4, <4>2
      <4>. QED BY <4>1, <4>2
    <3>. QED BY <3>1, <3>2 DEF OthersStay
  <2>. QED BY <1>1, <1>2, <2>0, <2>1, <2>5, Becoming
<1>5. Waits(c, r, p, k, s) \/ \E g \in Seq(Entries) : LeavesWith(c, r, p, k, s, g)
  BY AddEffect
<1>. QED BY <1>3, <1>4, <1>5

(* A list without one of its elements misses no match.                      *)
LEMMA KeepShrinks ==
  ASSUME NEW k, NEW s, ListsSound(k, s), NEW i \in DOMAIN k
  PROVE  LET l == RemoveAt(k, i) IN
         /\ k[i] \in Entries /\ k[i] \in ToSet(k) /\ k[i] \notin ToSet(s)
         /\ ListsSound(l, s) /\ ToSet(l) = ToSet(k) \ {k[i]}
<1>1. /\ k \in Seq(Entries) /\ s \in Seq(Entries) /\ IsInjective(k) /\ IsInjective(s)
      /\ ToSet(s) \cap ToSet(k) = {}
  BY DEF ListsSound, Apart
<1>2. PICK l \in Seq(Entries) :
        l = RemoveAt(k, i) /\ IsInjective(l) /\ ToSet(l) = ToSet(k) \ {k[i]}
  BY <1>1, OneTakenOut
<1>3. Apart(s, l) BY <1>1, <1>2 DEF Apart
<1>4. ListsSound(l, s) BY <1>1, <1>2, <1>3, FewerSound
<1>5. k[i] \in Entries /\ k[i] \in ToSet(k) BY <1>1 DEF ToSet
<1>. QED BY <1>1, <1>2, <1>4, <1>5

LEMMA StrictShrinks ==
  ASSUME NEW k, NEW s, ListsSound(k, s), NEW i \in DOMAIN s
  PROVE  LET t == RemoveAt(s, i) IN ListsSound(k, t) /\ ToSet(t) = ToSet(s) \ {s[i]}
<1>1. /\ k \in Seq(Entries) /\ s \in Seq(Entries) /\ IsInjective(k) /\ IsInjective(s)
      /\ ToSet(s) \cap ToSet(k) = {}
  BY DEF ListsSound, Apart
<1>2. PICK t \in Seq(Entries) :
        t = RemoveAt(s, i) /\ IsInjective(t) /\ ToSet(t) = ToSet(s) \ {s[i]}
  BY <1>1, OneTakenOut
<1>3. Apart(t, k) BY <1>1, <1>2 DEF Apart
<1>4. ListsSound(k, t) BY <1>1, <1>2, <1>3, FewerSound
<1>. QED BY <1>2, <1>4

(* A frame of an update that is still alive, and one whose coroutine ended.  *)
LEMMA EndSound ==
  ASSUME NEW c \in Coroutines
  PROVE  /\ c \in Updates => FrameSound(c, Fresh)
         /\ c \in Entries => FrameSound(c, Ended) /\ FrameSound(c, [Fresh EXCEPT !.at = "watch"])
         /\ [Fresh EXCEPT !.at = "watch"].relist = <<>>
         /\ [Fresh EXCEPT !.at = "watch"].at = "watch"
<1>1. c \in Updates => c \notin Entries BY MatchAssumption DEF MatchAssumption
<1> DEFINE w == [Fresh EXCEPT !.at = "watch"]
<1>2. /\ w \in Frames /\ w.at = "watch" /\ w.ret = "none" /\ w.relist = <<>>
  BY FreshFrame, FrameFields DEF Fresh, Places
<1> HIDE DEF w
<1>3. c \in Entries => FrameSound(c, w) BY <1>1, <1>2 DEF FrameSound, Handling
<1>4. c \in Entries => FrameSound(c, Ended) BY <1>1, FreshFrame DEF FrameSound, Handling
<1>5. c \in Updates => FrameSound(c, Fresh)
  BY <1>1, FreshFrame DEF FrameSound, Handling, Places
<1>. QED BY <1>2, <1>3, <1>4, <1>5 DEF w

LEMMA NoElements == ToSet(<<>>) = {}
  BY DEF ToSet

(* A request that is not yet in a list.                                     *)
LEMMA StepRequestMatch ==
  ASSUME IInv, NEW e \in Entries, RequestMatch(e)
  PROVE  IInv' /\ Leaves
<1> DEFINE r == IF nowInMatchers[Account[e]] THEN Ended ELSE [Fresh EXCEPT !.at = "watch"]
<1>1. e \in Coroutines BY DEF Coroutines
<1>2. FrameSound(e, r) /\ ToSet(r.relist) = {} /\ r.at \in {"done", "watch"}
  BY <1>1, EndSound, FreshFrame, NoElements
<1>3. Become(e, r) /\ co[e].at = "none" BY DEF RequestMatch
<1>4. /\ UNCHANGED queues /\ nowInMatchers' = nowInMatchers /\ ent' = ent
      /\ gone' = gone /\ errors' = errors /\ picks' = picks
  BY DEF RequestMatch, outside
<1>5. /\ ent' \in [Entries -> Rows] /\ nowInMatchers' \in [Accounts -> BOOLEAN]
      /\ picks' \in [Entries -> Nat]
  BY <1>4 DEF IInv, TypeOK
<1> HIDE DEF r
<1>. QED BY <1>1, <1>2, <1>3, <1>4, <1>5, Moving

LEMMA StepAddtoKeeplist ==
  ASSUME IInv, NEW e \in Entries, AddtoKeeplist(e)
  PROVE  IInv' /\ Leaves
<1>1. e \in Coroutines BY DEF Coroutines
<1>2. co[e].at = "watch" /\ UNCHANGED outside BY DEF AddtoKeeplist
<1>3. nowInMatchers' \in [Accounts -> BOOLEAN] BY DEF AddtoKeeplist, IInv, TypeOK
<1>4. e \notin ToSet(keep_list) \cup ToSet(strict_list) BY <1>2 DEF IInv, Asked
<1>5. FrameSound(e, Ended) /\ ToSet(Ended.relist) = {} /\ Ended.at = "done"
  BY <1>1, EndSound, FreshFrame, NoElements
<1>6. ListsSound(keep_list, strict_list) /\ ent \in [Entries -> Rows] BY DEF IInv, TypeOK
<1>7. CASE strict_list = <<>>
  <2>1. /\ keep_list' = Append(keep_list, e) /\ ent' = [ent EXCEPT ![e].linked = TRUE]
        /\ Become(e, Ended) /\ strict_list' = strict_list
    BY <1>7 DEF AddtoKeeplist
  <2>2. /\ ListsSound(keep_list', strict_list')
        /\ ToSet(keep_list') = ToSet(keep_list) \cup {e}
    BY <1>4, <1>6, <1>7, <2>1, KeptSound
  <2>3. ent' \in [Entries -> Rows]
    <3>1. [ent[e] EXCEPT !.linked = TRUE] \in Rows BY <1>6 DEF Rows
    <3>. QED BY <1>6, <2>1, <3>1
  <2>4. gone' = gone /\ errors' = errors /\ picks' \in [Entries -> Nat]
    BY <1>2 DEF outside, IInv, TypeOK
  <2>. QED BY <1>1, <1>2, <1>3, <1>5, <2>1, <2>2, <2>3, <2>4, Becoming
<1>8. CASE strict_list # <<>>
  <2>1. addtoStictlist(e, e, keep_list, strict_list, ent, Ended)
    BY <1>8 DEF AddtoKeeplist
  <2>. QED BY <1>1, <1>2, <1>3, <1>4, <1>5, <1>6, <2>1, Adding
<1>. QED BY <1>7, <1>8

(* The last request of an account leaves the list it is in.                 *)
LEMMA Removed ==
  ASSUME IInv, NEW a, removePlayerFromMatch(a)
  PROVE  /\ ListsSound(keep_list', strict_list')
         /\ ToSet(keep_list') \subseteq ToSet(keep_list)
         /\ ToSet(strict_list') \subseteq ToSet(strict_list)
         /\ nowInMatchers' \in [Accounts -> BOOLEAN]
<1>1. ListsSound(keep_list, strict_list) BY DEF IInv
<1>2. nowInMatchers' \in [Accounts -> BOOLEAN] BY DEF removePlayerFromMatch, IInv, TypeOK
<1>3. \/ \E i \in LastOf(keep_list, a) :
           keep_list' = RemoveAt(keep_list, i) /\ strict_list' = strict_list
      \/ \E i \in LastOf(strict_list, a) :
           strict_list' = RemoveAt(strict_list, i) /\ keep_list' = keep_list
  BY DEF removePlayerFromMatch
<1>4. ASSUME NEW i \in LastOf(keep_list, a), keep_list' = RemoveAt(keep_list, i),
             strict_list' = strict_list
      PROVE  /\ ListsSound(keep_list', strict_list')
             /\ ToSet(keep_list') \subseteq ToSet(keep_list)
  <2>1. i \in DOMAIN keep_list BY DEF LastOf
  <2>. QED BY <1>1, <1>4, <2>1, KeepShrinks
<1>5. ASSUME NEW i \in LastOf(strict_list, a), strict_list' = RemoveAt(strict_list, i),
             keep_list' = keep_list
      PROVE  /\ ListsSound(keep_list', strict_list')
             /\ ToSet(strict_list') \subseteq ToSet(strict_list)
  <2>1. i \in DOMAIN strict_list BY DEF LastOf
  <2>. QED BY <1>1, <1>5, <2>1, StrictShrinks
<1>. QED BY <1>2, <1>3, <1>4, <1>5

LEMMA StepCancelMatch ==
  ASSUME IInv, NEW a \in Accounts, CancelMatch(a)
  PROVE  IInv' /\ Leaves
<1>1. removePlayerFromMatch(a) BY DEF CancelMatch
<1>2. /\ co' = co /\ run' = run /\ ent' = ent /\ picks' = picks
      /\ gone' \subseteq Accounts /\ errors' \subseteq Accounts
  BY DEF CancelMatch, IInv, TypeOK
<1>. QED BY <1>1, <1>2, Removed, Staying

LEMMA StepErrorMessage ==
  ASSUME IInv, NEW a \in Accounts, ErrorMessage(a)
  PROVE  IInv' /\ Leaves
<1>1. /\ co' = co /\ run' = run /\ ent' = ent /\ picks' = picks
      /\ gone' \subseteq Accounts /\ errors' \subseteq Accounts
  BY DEF ErrorMessage, IInv, TypeOK
<1>2. \/ removePlayerFromMatch(a) \/ UNCHANGED <<queues, nowInMatchers>> BY DEF ErrorMessage
<1>3. CASE removePlayerFromMatch(a) BY <1>1, <1>3, Removed, Staying
<1>4. CASE UNCHANGED <<queues, nowInMatchers>>
  <2>1. /\ keep_list' = keep_list /\ strict_list' = strict_list
        /\ nowInMatchers' = nowInMatchers
    BY <1>4 DEF queues
  <2>2. ListsSound(keep_list', strict_list') /\ nowInMatchers' \in [Accounts -> BOOLEAN]
    BY <2>1 DEF IInv, TypeOK
  <2>. QED BY <1>1, <2>1, <2>2, Staying
<1>. QED BY <1>2, <1>3, <1>4

LEMMA StepAgentExits ==
  ASSUME IInv, NEW a \in Accounts, AgentExits(a)
  PROVE  IInv' /\ Leaves
<1>1. /\ co' = co /\ run' = run /\ ent' = ent /\ picks' = picks
      /\ keep_list' = keep_list /\ strict_list' = strict_list
      /\ nowInMatchers' = nowInMatchers
  BY DEF AgentExits, queues
<1>2. gone' \subseteq Accounts /\ errors' \subseteq Accounts
  BY DEF AgentExits, IInv, TypeOK
<1>3. ListsSound(keep_list', strict_list') /\ nowInMatchers' \in [Accounts -> BOOLEAN]
  BY <1>1 DEF IInv, TypeOK
<1>. QED BY <1>1, <1>2, <1>3, Staying

(* What does not change, and what is true of it.                            *)
LEMMA Kept ==
  ASSUME IInv
  PROVE  /\ UNCHANGED outside =>
              gone' = gone /\ errors' = errors /\ picks' \in [Entries -> Nat]
         /\ UNCHANGED nowInMatchers => nowInMatchers' \in [Accounts -> BOOLEAN]
         /\ UNCHANGED ent => ent' \in [Entries -> Rows]
         /\ \A c \in Coroutines :
              /\ FrameSound(c, co[c]) /\ co[c] \in Frames
              /\ co[c].at \in Places /\ co[c].i \in Nat /\ co[c].k \in Nat
              /\ co[c].relist \in Seq(Entries) /\ co[c].group \in Seq(Entries)
  BY FrameFields DEF outside, IInv, TypeOK

(* An update's coroutine begins, and goes from one loop to the next.         *)
LEMMA StepUpdate ==
  ASSUME IInv, NEW u \in Updates, Update(u)
  PROVE  IInv' /\ Leaves
<1> DEFINE r == [Fresh EXCEPT !.at = "keep", !.i = Len(keep_list)]
<1>1. u \in Coroutines /\ u \notin Entries
  BY MatchAssumption DEF Coroutines, MatchAssumption
<1>2. Become(u, r) /\ UNCHANGED <<queues, nowInMatchers, ent, outside>> BY DEF Update
<1>3. Len(keep_list) \in Nat BY DEF IInv, ListsSound
<1>4. r \in Frames
  <2>1. [Fresh EXCEPT !.at = "keep"] \in Frames BY FreshFrame, FrameFields DEF Places
  <2>2. [[Fresh EXCEPT !.at = "keep"] EXCEPT !.i = Len(keep_list)] \in Frames
    BY <1>3, <2>1, FrameFields
  <2>. QED BY <2>2
<1>5. r.at = "keep" /\ r.ret = "none" /\ r.relist = <<>> BY DEF Fresh
<1> HIDE DEF r
<1>6. FrameSound(u, r) BY <1>1, <1>4, <1>5 DEF FrameSound, Handling, Places
<1>7. ToSet(r.relist) = {} BY <1>5, NoElements
<1>. QED BY <1>1, <1>2, <1>5, <1>6, <1>7, Kept, Moving

LEMMA StepOutOfBounds ==
  ASSUME IInv, NEW u \in Updates, OutOfBounds(u)
  PROVE  IInv' /\ Leaves
<1>1. u \in Coroutines /\ u \notin Entries
  BY MatchAssumption DEF Coroutines, MatchAssumption
<1>2. Become(u, Fresh) /\ UNCHANGED <<queues, nowInMatchers, ent, outside>>
  BY DEF OutOfBounds
<1>3. FrameSound(u, Fresh) /\ ToSet(Fresh.relist) = {} /\ Fresh.at = "none"
  BY <1>1, EndSound, FreshFrame, NoElements
<1>. QED BY <1>1, <1>2, <1>3, Kept, Moving

LEMMA StepRelistDone ==
  ASSUME IInv, NEW u \in Updates, RelistDone(u)
  PROVE  IInv' /\ Leaves
<1>1. u \in Coroutines /\ u \notin Entries
  BY MatchAssumption DEF Coroutines, MatchAssumption
<1>2. Become(u, Fresh) /\ UNCHANGED <<queues, nowInMatchers, ent, outside>>
  BY DEF RelistDone
<1>3. FrameSound(u, Fresh) /\ ToSet(Fresh.relist) = {} /\ Fresh.at = "none"
  BY <1>1, EndSound, FreshFrame, NoElements
<1>. QED BY <1>1, <1>2, <1>3, Kept, Moving

(* The frame of an update in one of its loops, with another index or in       *)
(* another loop.                                                            *)
AtLoop(r, x, i) == [r EXCEPT !.at = x, !.i = i]

LEMMA LoopFrame ==
  ASSUME IInv, NEW u \in Updates, co[u].at \in Loops, NEW x \in Loops, NEW i \in Nat
  PROVE  LET r == AtLoop(co[u], x, i) IN
         /\ r \in Frames /\ FrameSound(u, r) /\ r.at = x /\ r.relist = co[u].relist
         /\ r.ret = "none" /\ r.i = i
<1> DEFINE r == [co[u] EXCEPT !.at = x, !.i = i]
<1>1. u \in Coroutines /\ u \notin Entries
  BY MatchAssumption DEF Coroutines, MatchAssumption
<1>2. co[u] \in Frames /\ FrameSound(u, co[u]) BY <1>1, Kept
<1>3. r \in Frames
  <2>1. [co[u] EXCEPT !.at = x] \in Frames BY <1>2, FrameFields DEF Places, Loops
  <2>2. [[co[u] EXCEPT !.at = x] EXCEPT !.i = i] \in Frames BY <2>1, FrameFields
  <2>. QED BY <2>2
<1>4. /\ r.at = x /\ r.i = i /\ r.ret = co[u].ret /\ r.relist = co[u].relist
  BY <1>2 DEF Frames
<1>5. co[u].ret = "none" BY <1>2 DEF FrameSound, Handling, Loops
<1> HIDE DEF r
<1>6. FrameSound(u, r)
  BY <1>1, <1>3, <1>4, <1>5 DEF FrameSound, Handling, Loops, Places
<1>7. r = AtLoop(co[u], x, i) BY DEF r, AtLoop
<1>. QED BY <1>3, <1>4, <1>5, <1>6, <1>7

LEMMA StepKeeplistDone ==
  ASSUME IInv, NEW u \in Updates, KeeplistDone(u)
  PROVE  IInv' /\ Leaves
<1> DEFINE r == AtLoop(co[u], "strict", Len(strict_list))
<1>1. u \in Coroutines /\ u \notin Entries
  BY MatchAssumption DEF Coroutines, MatchAssumption
<1>2. Become(u, r) /\ UNCHANGED <<queues, nowInMatchers, ent, outside>> /\ co[u].at = "keep"
  BY DEF KeeplistDone, In, AtLoop
<1>3. Len(strict_list) \in Nat BY DEF IInv, ListsSound
<1>4. FrameSound(u, r) /\ r.at = "strict" /\ r.relist = co[u].relist
  BY <1>2, <1>3, LoopFrame DEF Loops
<1> HIDE DEF r
<1>. QED BY <1>1, <1>2, <1>4, Kept, Moving

LEMMA StepStictlistDone ==
  ASSUME IInv, NEW u \in Updates, StictlistDone(u)
  PROVE  IInv' /\ Leaves
<1> DEFINE r == AtLoop(co[u], "relist", 1)
<1>1. u \in Coroutines /\ u \notin Entries
  BY MatchAssumption DEF Coroutines, MatchAssumption
<1>2. Become(u, r) /\ UNCHANGED <<queues, nowInMatchers, ent, outside>>
      /\ co[u].at = "strict"
  BY DEF StictlistDone, In, AtLoop
<1>4. FrameSound(u, r) /\ r.at = "relist" /\ r.relist = co[u].relist
  BY <1>2, LoopFrame DEF Loops
<1> HIDE DEF r
<1>. QED BY <1>1, <1>2, <1>4, Kept, Moving

(* The frame of an update with another index.                               *)
LEMMA IndexFrame ==
  ASSUME IInv, NEW u \in Updates, co[u].at \in Loops, NEW i \in Nat
  PROVE  LET r == [co[u] EXCEPT !.i = i] IN
         /\ r \in Frames /\ FrameSound(u, r) /\ r.at = co[u].at /\ r.relist = co[u].relist
         /\ r.ret = "none"
<1> DEFINE r == [co[u] EXCEPT !.i = i]
<1>1. u \in Coroutines /\ u \notin Entries
  BY MatchAssumption DEF Coroutines, MatchAssumption
<1>2. co[u] \in Frames /\ FrameSound(u, co[u]) BY <1>1, Kept
<1>3. r \in Frames BY <1>2, FrameFields
<1>4. r.at = co[u].at /\ r.ret = co[u].ret /\ r.relist = co[u].relist BY <1>2 DEF Frames
<1>5. co[u].ret = "none" BY <1>2 DEF FrameSound, Handling, Loops
<1> HIDE DEF r
<1>6. FrameSound(u, r)
  BY <1>1, <1>3, <1>4, <1>5 DEF FrameSound, Handling, Loops, Places
<1>. QED BY <1>3, <1>4, <1>5, <1>6 DEF r

(* A player of the keep list waits on, or is searched for.                  *)
LEMMA StepUpdateKeeplist ==
  ASSUME IInv, NEW u \in Updates, UpdateKeeplist(u)
  PROVE  IInv' /\ Leaves
<1> DEFINE i == co[u].i
           p == keep_list[i]
           next == [co[u] EXCEPT !.i = i - 1]
           cleared == [ent EXCEPT ![p].time = 0, ![p].failNum = 0]
<1>1. u \in Coroutines /\ u \notin Entries
  BY MatchAssumption DEF Coroutines, MatchAssumption
<1>2. /\ co[u].at = "keep" /\ i \in DOMAIN keep_list
      /\ UNCHANGED nowInMatchers /\ UNCHANGED outside
  BY DEF UpdateKeeplist, In
<1>3. ListsSound(keep_list, strict_list) /\ keep_list \in Seq(Entries)
      /\ ent \in [Entries -> Rows]
  BY DEF IInv, TypeOK, ListsSound
<1>4. i \in Nat /\ i - 1 \in Nat BY <1>2, <1>3
<1>5. FrameSound(u, next) /\ next.at = "keep" /\ next.relist = co[u].relist
  BY <1>2, <1>4, IndexFrame DEF Loops
<1>6. IF ent[p].time + 1 > KeepTimeout
        THEN addtoStictlist(u, p, RemoveAt(keep_list, i), strict_list, cleared, next)
        ELSE /\ ent' = [ent EXCEPT ![p].time = @ + 1]
             /\ Become(u, next) /\ UNCHANGED queues
  BY DEF UpdateKeeplist
<1>7. /\ p \in Entries /\ p \in ToSet(keep_list) /\ p \notin ToSet(strict_list)
      /\ ListsSound(RemoveAt(keep_list, i), strict_list)
      /\ ToSet(RemoveAt(keep_list, i)) = ToSet(keep_list) \ {p}
  BY <1>2, <1>3, KeepShrinks
<1> HIDE DEF i, p, next, cleared
<1>8. CASE ent[p].time + 1 > KeepTimeout
  <2>1. addtoStictlist(u, p, RemoveAt(keep_list, i), strict_list, cleared, next)
    BY <1>6, <1>8
  <2>2. cleared \in [Entries -> Rows]
    <3>1. [ent[p] EXCEPT !.time = 0] \in Rows BY <1>3, <1>7 DEF Rows
    <3>2. [[ent[p] EXCEPT !.time = 0] EXCEPT !.failNum = 0] \in Rows BY <3>1 DEF Rows
    <3>. QED BY <1>3, <1>7, <3>1, <3>2 DEF cleared
  <2>3. nowInMatchers' \in [Accounts -> BOOLEAN] BY <1>2, Kept
  <2> DEFINE k == RemoveAt(keep_list, i)
  <2>4. /\ ListsSound(k, strict_list) /\ ToSet(k) = ToSet(keep_list) \ {p}
        /\ addtoStictlist(u, p, k, strict_list, cleared, next)
    BY <1>7, <2>1
  <2> HIDE DEF k
  <2>5. next.at \in {"done", "keep", "relist"} BY <1>5
  <2>. QED BY <1>1, <1>2, <1>5, <1>7, <2>2, <2>3, <2>4, <2>5, Adding
<1>9. CASE ~(ent[p].time + 1 > KeepTimeout)
  <2>1. ent' = [ent EXCEPT ![p].time = @ + 1] /\ Become(u, next) /\ UNCHANGED queues
    BY <1>6, <1>9
  <2>2. ent' \in [Entries -> Rows]
    <3>1. ent[p] \in Rows /\ ent[p].time + 1 \in Nat BY <1>3, <1>7 DEF Rows
    <3>2. [ent[p] EXCEPT !.time = ent[p].time + 1] \in Rows BY <3>1 DEF Rows
    <3>. QED BY <1>3, <1>7, <2>1, <3>2
  <2>. QED BY <1>1, <1>2, <1>5, <2>1, <2>2, Kept, Moving
<1>. QED BY <1>8, <1>9

(* A sequence with one more at its end holds that and what it held.          *)
LEMMA OneMore ==
  ASSUME NEW S, NEW s \in Seq(S), NEW p \in S
  PROVE  Append(s, p) \in Seq(S) /\ ToSet(Append(s, p)) \subseteq ToSet(s) \cup {p}
<1>1. PICK t \in Seq(S) : t = Append(s, p)
  <2>1. Append(s, p) \in Seq(S) OBVIOUS
  <2>. QED BY <2>1
<1>2. PICK m \in Nat : m = Len(s) OBVIOUS
<1>3. /\ DOMAIN s = 1 .. m /\ DOMAIN t = 1 .. m + 1 /\ t[m + 1] = p
      /\ \A i \in 1 .. m : t[i] = s[i]
  BY <1>1, <1>2
<1>4. \A i \in 1 .. m + 1 : i \in 1 .. m \/ i = m + 1 OBVIOUS
<1>5. \A i \in 1 .. m : s[i] \in ToSet(s) BY <1>3 DEF ToSet
<1>6. ToSet(t) = {t[i] : i \in 1 .. m + 1} BY <1>3 DEF ToSet
<1>7. ToSet(t) \subseteq ToSet(s) \cup {p} BY <1>3, <1>4, <1>5, <1>6
<1>. QED BY <1>1, <1>7

(* A player of the strict list waits on, perhaps to be searched for again,    *)
(* or is to play with robots.                                               *)
LEMMA StepUpdateStictlist ==
  ASSUME IInv, NEW u \in Updates, UpdateStictlist(u)
  PROVE  IInv' /\ Leaves
<1> DEFINE i == co[u].i
           p == strict_list[i]
           time == ent[p].time + 1
           stepTime == ent[p].stepTime + 1
           row == [time |-> 0, stepTime |-> 0, failNum |-> 1, linked |-> TRUE]
           ai == [co[u] EXCEPT !.at = "ai", !.ret = "strict", !.group = <<p>>]
           relist == IF stepTime > StrictStep THEN Append(co[u].relist, p) ELSE co[u].relist
           on == [co[u] EXCEPT !.i = i - 1, !.relist = relist]
<1>1. u \in Coroutines /\ u \notin Entries
  BY MatchAssumption DEF Coroutines, MatchAssumption
<1>2. /\ co[u].at = "strict" /\ i \in DOMAIN strict_list /\ UNCHANGED queues
      /\ UNCHANGED nowInMatchers /\ UNCHANGED outside
  BY DEF UpdateStictlist, In
<1>3. strict_list \in Seq(Entries) /\ ent \in [Entries -> Rows]
  BY DEF IInv, TypeOK, ListsSound
<1>4. i \in Nat /\ i - 1 \in Nat /\ i >= 1 /\ p \in Entries BY <1>2, <1>3
<1>5. p \in ToSet(strict_list) BY <1>2 DEF ToSet
<1>6. /\ FrameSound(u, co[u]) /\ co[u] \in Frames /\ co[u].relist \in Seq(Entries)
  BY <1>1, Kept
<1>7. co[u].ret = "none" BY <1>2, <1>6 DEF FrameSound, Handling
<1>8. ent[p] \in Rows /\ time \in Nat /\ stepTime \in Nat
  <2> HIDE DEF p
  <2>1. ent[p] \in Rows BY <1>3, <1>4
  <2>2. \A x \in Rows : x.time + 1 \in Nat /\ x.stepTime + 1 \in Nat BY DEF Rows
  <2>. QED BY <2>1, <2>2
<1>9. IF time > StrictTimeout
        THEN ent' = [ent EXCEPT ![p] = row] /\ Become(u, ai)
        ELSE /\ ent' = [ent EXCEPT ![p].time = time, ![p].stepTime = stepTime]
             /\ Become(u, on)
  BY DEF UpdateStictlist
<1>a. CASE time > StrictTimeout
  <2>1. ent' = [ent EXCEPT ![p] = row] /\ Become(u, ai) BY <1>9, <1>a
  <2>2. row \in Rows BY DEF Rows
  <2>3. ent' \in [Entries -> Rows]
    <3> HIDE DEF row
    <3>. QED BY <1>3, <2>1, <2>2
  <2>4. ai \in Frames
    <3>1. [co[u] EXCEPT !.at = "ai"] \in Frames BY <1>6, FrameFields DEF Places
    <3>2. [[co[u] EXCEPT !.at = "ai"] EXCEPT !.ret = "strict"] \in Frames
      BY <3>1, FrameFields DEF Places
    <3>3. <<p>> \in Seq(Entries) BY <1>4
    <3>4. [[[co[u] EXCEPT !.at = "ai"] EXCEPT !.ret = "strict"] EXCEPT !.group = <<p>>]
            \in Frames
      BY <3>2, <3>3, FrameFields
    <3>. QED BY <3>4
  <2>5. /\ ai.at = "ai" /\ ai.ret = "strict" /\ ai.group = <<p>> /\ ai.relist = co[u].relist
        /\ ai.i = i
    BY <1>6 DEF Frames
  <2>6. Len(<<p>>) = 1 /\ IsInjective(<<p>>) BY DEF IsInjective
  <2> HIDE DEF ai, i, p
  <2>7. FrameSound(u, ai)
    BY <1>1, <1>4, <2>4, <2>5, <2>6 DEF FrameSound, Handling, Places
  <2>. QED BY <1>1, <1>2, <2>1, <2>3, <2>5, <2>7, Kept, Moving
<1>b. CASE ~(time > StrictTimeout)
  <2>1. /\ ent' = [ent EXCEPT ![p].time = time, ![p].stepTime = stepTime]
        /\ Become(u, on)
    BY <1>9, <1>b
  <2>2. ent' \in [Entries -> Rows]
    <3> HIDE DEF time, stepTime, p
    <3>1. [ent[p] EXCEPT !.time = time] \in Rows BY <1>8 DEF Rows
    <3>2. [[ent[p] EXCEPT !.time = time] EXCEPT !.stepTime = stepTime] \in Rows
      BY <1>8, <3>1 DEF Rows
    <3>. QED BY <1>3, <1>4, <2>1, <3>2
  <2>3. /\ relist \in Seq(Entries)
        /\ ToSet(relist) \subseteq ToSet(co[u].relist) \cup ToSet(strict_list)
    <3> HIDE DEF stepTime, p
    <3>1. /\ Append(co[u].relist, p) \in Seq(Entries)
          /\ ToSet(Append(co[u].relist, p)) \subseteq ToSet(co[u].relist) \cup {p}
      BY <1>4, <1>6, OneMore
    <3>. QED BY <1>5, <1>6, <3>1
  <2> HIDE DEF relist, i
  <2>4. on \in Frames
    <3>1. [co[u] EXCEPT !.i = i - 1] \in Frames BY <1>4, <1>6, FrameFields
    <3>2. [[co[u] EXCEPT !.i = i - 1] EXCEPT !.relist = relist] \in Frames
      BY <2>3, <3>1, FrameFields
    <3>. QED BY <3>2
  <2>5. on.at = "strict" /\ on.ret = "none" /\ on.relist = relist
    BY <1>2, <1>6, <1>7 DEF Frames
  <2> HIDE DEF on
  <2>6. FrameSound(u, on) BY <1>1, <2>4, <2>5 DEF FrameSound, Handling, Places
  <2>. QED BY <1>1, <1>2, <2>1, <2>2, <2>3, <2>5, <2>6, Kept, Moving
<1>. QED BY <1>a, <1>b

(* A player whom update searches again leaves the strict list for it, with   *)
(* all others of the account.                                               *)
LEMMA StepRelist ==
  ASSUME IInv, NEW u \in Updates, Relist(u)
  PROVE  IInv' /\ Leaves
<1> DEFINE j == co[u].i
           v == co[u].relist[j]
           next == [co[u] EXCEPT !.i = @ + 1]
           at == {i \in DOMAIN strict_list : Account[strict_list[i]] # Account[v]}
           others == Chosen(strict_list, at)
<1>1. u \in Coroutines /\ u \notin Entries
  BY MatchAssumption DEF Coroutines, MatchAssumption
<1>2. /\ co[u].at = "relist" /\ j \in DOMAIN co[u].relist
      /\ UNCHANGED nowInMatchers /\ UNCHANGED outside
  BY DEF Relist, In
<1>3. /\ ListsSound(keep_list, strict_list) /\ ent \in [Entries -> Rows]
      /\ strict_list \in Seq(Entries) /\ keep_list \in Seq(Entries)
      /\ Apart(strict_list, keep_list)
  BY DEF IInv, TypeOK, ListsSound
<1>4. co[u].relist \in Seq(Entries) /\ j \in Nat /\ j + 1 \in Nat BY <1>1, Kept
<1>5. v \in Entries /\ v \in ToSet(co[u].relist) BY <1>2, <1>4 DEF ToSet
<1>6. FrameSound(u, next) /\ next.at = "relist" /\ next.relist = co[u].relist
  <2>1. next = [co[u] EXCEPT !.i = j + 1] OBVIOUS
  <2> HIDE DEF next
  <2>. QED BY <1>2, <1>4, <2>1, IndexFrame DEF Loops
<1>7. IF ent[v].linked
        THEN addtoStictlist(u, v, keep_list, others, ent, next)
        ELSE Become(u, next) /\ UNCHANGED <<queues, ent>>
  BY DEF Relist
<1>8. v \notin ToSet(keep_list) BY <1>1, <1>5 DEF IInv, Relisted
<1> HIDE DEF j, v, next
<1>9. CASE ent[v].linked
  <2>1. addtoStictlist(u, v, keep_list, others, ent, next) BY <1>7, <1>9
  <2>2. /\ others \in Seq(Entries) /\ ToSet(others) = {strict_list[i] : i \in at}
        /\ IsInjective(others)
    <3>1. at \subseteq DOMAIN strict_list OBVIOUS
    <3> HIDE DEF at
    <3>. QED BY <1>3, <3>1, ChosenIs DEF Apart
  <2> HIDE DEF others
  <2>3. /\ ToSet(others) \subseteq ToSet(strict_list) /\ v \notin ToSet(others)
        /\ \A e \in ToSet(strict_list) : e \in ToSet(others) \/ Account[e] = Account[v]
    BY <2>2 DEF ToSet
  <2>4. Apart(others, keep_list) BY <1>3, <2>2, <2>3 DEF Apart
  <2>5. ListsSound(keep_list, others) BY <1>3, <2>2, <2>3, <2>4, FewerSound
  <2>6. nowInMatchers' \in [Accounts -> BOOLEAN] BY <1>2, Kept
  <2>7. \A e \in ToSet(keep_list) \cup ToSet(strict_list) :
          e \in ToSet(keep_list) \cup ToSet(others) \/ Account[e] = Account[v]
    BY <2>3
  <2>. QED
    BY <1>1, <1>2, <1>3, <1>5, <1>6, <1>8, <2>1, <2>3, <2>5, <2>6, <2>7, Adding
<1>a. CASE ~ent[v].linked
  <2>1. Become(u, next) /\ UNCHANGED queues /\ UNCHANGED ent BY <1>7, <1>a
  <2>. QED BY <1>1, <1>2, <1>6, <2>1, Kept, Moving
<1>. QED BY <1>9, <1>a

(* The robots of a player are there.                                        *)
LEMMA StepHandleMatchWithAi ==
  ASSUME IInv, NEW c \in Coroutines, HandleMatchWithAi(c)
  PROVE  IInv' /\ Leaves
<1> DEFINE r == [co[c] EXCEPT !.at = "new"]
           p == co[c].group[1]
<1>1. /\ co[c].at = "ai" /\ ent' = [ent EXCEPT ![p].linked = FALSE] /\ Become(c, r)
      /\ UNCHANGED queues /\ UNCHANGED nowInMatchers /\ UNCHANGED outside
  BY DEF HandleMatchWithAi
<1>2. FrameSound(c, co[c]) /\ co[c] \in Frames /\ co[c].group \in Seq(Entries) BY Kept
<1>3. /\ Len(co[c].group) = 1 /\ IsInjective(co[c].group) /\ co[c].ret # "none"
      /\ c \notin Entries
  BY <1>1, <1>2 DEF FrameSound, Handling
<1>4. p \in Entries BY <1>2, <1>3
<1>5. ent' \in [Entries -> Rows]
  <2> HIDE DEF p
  <2>1. ent \in [Entries -> Rows] BY DEF IInv, TypeOK
  <2>2. [ent[p] EXCEPT !.linked = FALSE] \in Rows BY <1>4, <2>1 DEF Rows
  <2>. QED BY <1>1, <1>4, <2>1, <2>2
<1>6. r \in Frames BY <1>2, FrameFields DEF Places
<1>7. /\ r.at = "new" /\ r.ret = co[c].ret /\ r.relist = co[c].relist /\ r.group = co[c].group
      /\ r.i = co[c].i
  BY <1>2 DEF Frames
<1> HIDE DEF r
<1>8. FrameSound(c, r) BY <1>2, <1>3, <1>6, <1>7 DEF FrameSound, Handling, Places
<1>9. nowInMatchers' \in [Accounts -> BOOLEAN] BY <1>1, Kept
<1>. QED BY <1>1, <1>3, <1>5, <1>7, <1>8, <1>9, Kept, Moving

(* handleMatch tells a player to enter.                                     *)
LEMMA EnterFrame ==
  ASSUME IInv, NEW c \in Coroutines, co[c].at \in {"new", "enter"}, NEW k \in Nat
  PROVE  LET r == [co[c] EXCEPT !.at = "enter", !.k = k] IN
         FrameSound(c, r) /\ r.at = "enter" /\ r.relist = co[c].relist
<1> DEFINE r == [co[c] EXCEPT !.at = "enter", !.k = k]
<1>1. FrameSound(c, co[c]) /\ co[c] \in Frames BY Kept
<1>2. r \in Frames
  <2>1. [co[c] EXCEPT !.at = "enter"] \in Frames BY <1>1, FrameFields DEF Places
  <2>2. [[co[c] EXCEPT !.at = "enter"] EXCEPT !.k = k] \in Frames BY <2>1, FrameFields
  <2>. QED BY <2>2
<1>3. /\ r.at = "enter" /\ r.ret = co[c].ret /\ r.relist = co[c].relist
      /\ r.group = co[c].group /\ r.i = co[c].i
  BY <1>1 DEF Frames
<1> HIDE DEF r
<1>4. FrameSound(c, r) BY <1>1, <1>2, <1>3 DEF FrameSound, Handling, Places
<1>. QED BY <1>3, <1>4 DEF r

LEMMA Entering ==
  ASSUME IInv, NEW c \in Coroutines, co[c].at \in {"new", "enter"}, NEW k \in Nat,
         EnterPickHero(c, k), UNCHANGED queues, UNCHANGED ent,
         gone' = gone, errors' = errors, picks' \in [Entries -> Nat]
  PROVE  IInv' /\ Leaves
<1> DEFINE r == [co[c] EXCEPT !.at = "enter", !.k = k]
<1>1. Become(c, r) /\ nowInMatchers' \in [Accounts -> BOOLEAN]
  BY DEF EnterPickHero, IInv, TypeOK
<1>2. FrameSound(c, r) /\ r.at = "enter" /\ r.relist = co[c].relist BY EnterFrame
<1> HIDE DEF r
<1>3. r.at \notin {"none", "watch", "new"} BY <1>2
<1>. QED BY <1>1, <1>2, <1>3, Kept, Moving

LEMMA StepPickHeroReady ==
  ASSUME IInv, NEW c \in Coroutines, PickHeroReady(c)
  PROVE  IInv' /\ Leaves
<1>1. co[c].at = "new" /\ EnterPickHero(c, 1) /\ UNCHANGED queues /\ UNCHANGED ent
  BY DEF PickHeroReady
<1>2. gone' = gone /\ errors' = errors BY DEF PickHeroReady
<1>3. picks' \in [Entries -> Nat]
  <2>1. picks' = [e \in Entries |-> IF e \in ToSet(co[c].group) /\ picks[e] < MaxPicks
                                      THEN picks[e] + 1 ELSE picks[e]]
    BY DEF PickHeroReady
  <2>2. \A e \in Entries : picks[e] \in Nat /\ picks[e] + 1 \in Nat BY DEF IInv, TypeOK
  <2>. QED BY <2>1, <2>2
<1>4. 1 \in Nat OBVIOUS
<1>. QED BY <1>1, <1>2, <1>3, <1>4, Entering

LEMMA StepEntered ==
  ASSUME IInv, NEW c \in Coroutines, Entered(c)
  PROVE  IInv' /\ Leaves
<1>1. /\ co[c].at = "enter" /\ UNCHANGED queues /\ UNCHANGED ent
      /\ UNCHANGED outside
  BY DEF Entered
<1>2. gone' = gone /\ errors' = errors /\ picks' \in [Entries -> Nat] BY <1>1, Kept
<1>3. co[c].k + 1 \in Nat /\ FrameSound(c, co[c]) /\ co[c] \in Frames
  <2>1. co[c].k \in Nat /\ FrameSound(c, co[c]) /\ co[c] \in Frames BY Kept
  <2>. QED BY <2>1
<1>4. CASE co[c].k < Len(co[c].group)
  <2>1. EnterPickHero(c, co[c].k + 1) BY <1>4 DEF Entered
  <2>. QED BY <1>1, <1>2, <1>3, <2>1, Entering
<1>5. CASE ~(co[c].k < Len(co[c].group))
  <2> DEFINE r == [co[c] EXCEPT !.at = "tell"]
  <2>1. Become(c, r) /\ UNCHANGED nowInMatchers BY <1>5 DEF Entered
  <2>2. r \in Frames BY <1>3, FrameFields DEF Places
  <2>3. /\ r.at = "tell" /\ r.ret = co[c].ret /\ r.relist = co[c].relist
        /\ r.group = co[c].group /\ r.i = co[c].i
    BY <1>3 DEF Frames
  <2> HIDE DEF r
  <2>4. FrameSound(c, r) BY <1>1, <1>3, <2>2, <2>3 DEF FrameSound, Handling, Places
  <2>. QED BY <1>1, <1>2, <2>1, <2>3, <2>4, Kept, Moving
<1>. QED BY <1>4, <1>5

(* A frame that handleMatch has come back to.                               *)
Returned(r) == [r EXCEPT !.at = r.ret, !.ret = "none", !.group = <<>>, !.k = 0]

LEMMA ReturnFrame ==
  ASSUME IInv, NEW c \in Coroutines, co[c].at = "tell"
  PROVE  LET r == Returned(co[c]) IN
         /\ r \in Frames /\ FrameSound(c, r) /\ r.at \notin {"none", "watch", "new"}
         /\ r.relist = co[c].relist /\ r.ret = "none" /\ r.i = co[c].i
         /\ c \in Entries => r.at = "done"
<1> DEFINE r == [co[c] EXCEPT !.at = co[c].ret, !.ret = "none", !.group = <<>>, !.k = 0]
<1>1. FrameSound(c, co[c]) /\ co[c] \in Frames BY Kept
<1>2. r \in Frames
  <2>0. <<>> \in Seq(Entries) OBVIOUS
  <2>1. co[c].ret \in Places /\ "none" \in Places /\ <<>> \in Seq(Entries) /\ 0 \in Nat
    BY <1>1, <2>0, FrameFields DEF Places
  <2>2. [co[c] EXCEPT !.at = co[c].ret] \in Frames BY <1>1, <2>1, FrameFields
  <2>3. [[co[c] EXCEPT !.at = co[c].ret] EXCEPT !.ret = "none"] \in Frames
    BY <2>1, <2>2, FrameFields
  <2>4. [[[co[c] EXCEPT !.at = co[c].ret] EXCEPT !.ret = "none"] EXCEPT !.group = <<>>]
          \in Frames
    BY <2>1, <2>3, FrameFields
  <2>5. [[[[co[c] EXCEPT !.at = co[c].ret] EXCEPT !.ret = "none"] EXCEPT !.group = <<>>]
           EXCEPT !.k = 0] \in Frames
    BY <2>1, <2>4, FrameFields
  <2>. QED BY <2>5
<1>3. r.at = co[c].ret /\ r.ret = "none" /\ r.relist = co[c].relist /\ r.i = co[c].i
  BY <1>1 DEF Frames
<1> HIDE DEF r
<1>4. /\ c \in Entries => co[c].ret = "done"
      /\ c \in Updates => co[c].ret \in {"keep", "strict", "relist"}
  BY <1>1 DEF FrameSound, Handling
<1>5. c \in Entries \/ c \in Updates BY DEF Coroutines
<1>6. FrameSound(c, r) BY <1>2, <1>3, <1>4, <1>5 DEF FrameSound, Handling, Places
<1>7. r = Returned(co[c]) BY DEF r, Returned
<1>. QED BY <1>2, <1>3, <1>4, <1>5, <1>6, <1>7

(* Removing what is one past the end of a list removes nothing.              *)
LEMMA RemovedPast ==
  ASSUME NEW S, NEW s \in Seq(S)
  PROVE  RemoveAt(s, Len(s) + 1) = s
<1>1. PICK n \in Nat : n = Len(s) OBVIOUS
<1> DEFINE a == SubSeq(s, 1, (n + 1) - 1)
           b == SubSeq(s, (n + 1) + 1, n)
<1>2. a \in Seq(S) /\ Len(a) = n /\ \A j \in 1 .. n : a[j] = s[j] BY <1>1
<1>3. b \in Seq(S) /\ Len(b) = 0 BY <1>1
<1>4. RemoveAt(s, Len(s) + 1) = a \o b BY <1>1 DEF RemoveAt
<1> HIDE DEF a, b
<1>5. PICK t \in Seq(S) :
        /\ t = a \o b /\ Len(t) = n
        /\ \A j \in 1 .. n : t[j] = s[j]
  <2>1. a \o b \in Seq(S) /\ Len(a \o b) = n BY <1>2, <1>3, ConcatElements
  <2>2. \A j \in 1 .. n : (a \o b)[j] = a[j] BY <1>2, <1>3, ConcatElements
  <2>. QED BY <1>2, <2>1, <2>2
<1>6. t = s
  <2>0. \A x \in Seq(S) : x \in [1 .. Len(x) -> S] OBVIOUS
  <2>1. t \in [1 .. n -> S] /\ s \in [1 .. n -> S] BY <1>1, <1>5, <2>0
  <2>. QED BY <1>5, <2>1
<1>. QED BY <1>4, <1>5, <1>6

(* handleMatch is done; updateStictlist then removes by its index.           *)
LEMMA StepHandleMatchDone ==
  ASSUME IInv, NEW c \in Coroutines, HandleMatchDone(c)
  PROVE  IInv' /\ Leaves
<1> DEFINE r == Returned(co[c])
           i == co[c].i
<1>1. /\ co[c].at = "tell" /\ keep_list' = keep_list /\ nowInMatchers' = nowInMatchers
      /\ ent' = ent /\ UNCHANGED outside
  BY DEF HandleMatchDone
<1>2. /\ r \in Frames /\ FrameSound(c, r) /\ r.at \notin {"none", "watch", "new"}
      /\ r.relist = co[c].relist /\ r.ret = "none" /\ r.i = i
      /\ c \in Entries => r.at = "done"
  BY <1>1, ReturnFrame
<1>3. IF co[c].ret = "strict"
        THEN IF i <= Len(strict_list) + 1
               THEN /\ strict_list' = RemoveAt(strict_list, i)
                    /\ Become(c, [r EXCEPT !.i = i - 1])
               ELSE Become(c, Fresh) /\ strict_list' = strict_list
        ELSE Become(c, r) /\ strict_list' = strict_list
  BY DEF HandleMatchDone, Returned
<1>4. FrameSound(c, co[c]) /\ i \in Nat BY Kept
<1>5. ListsSound(keep_list, strict_list) /\ strict_list \in Seq(Entries)
  BY DEF IInv, ListsSound
<1>6. /\ ent' \in [Entries -> Rows] /\ nowInMatchers' \in [Accounts -> BOOLEAN]
      /\ gone' = gone /\ errors' = errors /\ picks' \in [Entries -> Nat]
  BY <1>1, Kept
<1> HIDE DEF r, i
<1>7. CASE co[c].ret # "strict"
  <2>1. Become(c, r) /\ UNCHANGED queues BY <1>1, <1>3, <1>7 DEF queues
  <2>. QED BY <1>2, <1>6, <2>1, Moving
<1>8. CASE co[c].ret = "strict"
  <2>1. i >= 1 /\ c \notin Entries BY <1>4, <1>8 DEF FrameSound, i
  <2>2. CASE ~(i <= Len(strict_list) + 1)
    <3>1. Become(c, Fresh) /\ UNCHANGED queues BY <1>1, <1>3, <1>8, <2>2 DEF queues
    <3>2. FrameSound(c, Fresh) /\ ToSet(Fresh.relist) = {} /\ Fresh.at = "none"
      <4>1. c \in Updates BY <2>1 DEF Coroutines
      <4>. QED BY <4>1, EndSound, FreshFrame, NoElements
    <3>. QED BY <1>6, <2>1, <3>1, <3>2, Moving
  <2>3. CASE i <= Len(strict_list) + 1
    <3> DEFINE t == [r EXCEPT !.i = i - 1]
    <3>1. strict_list' = RemoveAt(strict_list, i) /\ Become(c, t) BY <1>3, <1>8, <2>3
    <3>2. i - 1 \in Nat BY <1>4, <2>1
    <3>3. t \in Frames BY <1>2, <3>2, FrameFields
    <3>4. /\ t.at = r.at /\ t.ret = "none" /\ t.relist = co[c].relist /\ t.group = r.group
      BY <1>2 DEF Frames
    <3> HIDE DEF t
    <3>5. FrameSound(c, t) BY <1>2, <2>1, <3>3, <3>4 DEF FrameSound, Handling, Places
    <3>6. /\ ListsSound(keep_list', strict_list')
          /\ ToSet(strict_list') \subseteq ToSet(strict_list)
      <4>1. CASE i \in DOMAIN strict_list
        BY <1>1, <1>5, <3>1, <4>1, StrictShrinks
      <4>2. CASE i \notin DOMAIN strict_list
        <5>1. i = Len(strict_list) + 1 BY <1>4, <1>5, <2>1, <2>3, <4>2
        <5>2. RemoveAt(strict_list, i) = strict_list BY <1>5, <5>1, RemovedPast
        <5>. QED BY <1>1, <1>5, <3>1, <5>2
      <4>. QED BY <4>1, <4>2
    <3>7. t.at \notin {"none", "watch", "new"} BY <1>2, <3>4
    <3>. QED BY <1>1, <1>6, <3>1, <3>4, <3>5, <3>6, <3>7, Becoming
  <2>. QED BY <2>2, <2>3
<1>. QED BY <1>7, <1>8

(* A call fails, and the coroutine ends.                                    *)
LEMMA StepCallFails ==
  ASSUME IInv, NEW c \in Coroutines, CallFails(c)
  PROVE  IInv' /\ Leaves
<1> DEFINE r == IF c \in Updates THEN Fresh ELSE Ended
<1>1. Become(c, r) /\ UNCHANGED <<queues, nowInMatchers, ent, outside>> BY DEF CallFails
<1>2. /\ FrameSound(c, r) /\ ToSet(r.relist) = {}
      /\ \/ c \notin Entries /\ r.at = "none"
         \/ c \in Entries /\ r.at = "done"
  <2>1. c \in Updates <=> c \notin Entries
    BY MatchAssumption DEF Coroutines, MatchAssumption
  <2>. QED BY <2>1, EndSound, FreshFrame, NoElements
<1> HIDE DEF r
<1>. QED BY <1>1, <1>2, Kept, Moving

-----------------------------------------------------------------------------
(* The invariant is inductive.                                              *)
LEMMA InitIInv ==
  Init => IInv
<1> SUFFICES ASSUME Init PROVE IInv OBVIOUS
<1>1. /\ keep_list = <<>> /\ strict_list = <<>> /\ ToSet(keep_list) = {}
      /\ ToSet(strict_list) = {}
  BY NoElements DEF Init
<1>2. <<>> \in Seq(Entries) OBVIOUS
<1>3. IsInjective(<<>>) BY DEF IsInjective
<1>4. ListsSound(keep_list, strict_list) BY <1>1, <1>2, <1>3 DEF ListsSound, Apart
<1>5. \A c \in Coroutines :
        /\ co[c] = Fresh /\ co[c].at = "none" /\ ToSet(co[c].relist) = {} /\ co[c] \in Frames
  BY FreshFrame, NoElements DEF Init
<1>6. \A c \in Coroutines : FrameSound(c, co[c])
  <2> SUFFICES ASSUME NEW c \in Coroutines PROVE FrameSound(c, Fresh) BY <1>5
  <2>. QED BY FreshFrame DEF FrameSound, Handling, Places
<1>7. TypeOK
  <2>1. co \in [Coroutines -> Frames] BY FreshFrame DEF Init
  <2>2. [time |-> 0, stepTime |-> 0, failNum |-> 0, linked |-> FALSE] \in Rows BY DEF Rows
  <2>3. ent \in [Entries -> Rows] BY <2>2 DEF Init
  <2>. QED BY <2>1, <2>3 DEF Init, TypeOK
<1>8. Asked BY <1>1, <1>5 DEF Asked
<1>9. Relisted BY <1>5 DEF Relisted
<1>. QED BY <1>4, <1>6, <1>7, <1>8, <1>9 DEF IInv

LEMMA NextIInv ==
  IInv /\ [Next]_vars => IInv' /\ Leaves
<1> SUFFICES ASSUME IInv, [Next]_vars PROVE IInv' /\ Leaves OBVIOUS
<1>1. ASSUME NEW e \in Entries, RequestMatch(e) \/ AddtoKeeplist(e) PROVE IInv' /\ Leaves
  BY <1>1, StepRequestMatch, StepAddtoKeeplist
<1>2. ASSUME NEW u \in Updates, Update(u) PROVE IInv' /\ Leaves
  BY <1>2, StepUpdate
<1>3. ASSUME NEW u \in Updates, LoopNext(u) PROVE IInv' /\ Leaves
  BY <1>3, StepUpdateKeeplist, StepKeeplistDone, StepUpdateStictlist, StepStictlistDone,
     StepRelist, StepRelistDone, StepOutOfBounds
     DEF LoopNext
<1>4. ASSUME NEW c \in Coroutines, HandleNext(c) PROVE IInv' /\ Leaves
  BY <1>4, StepHandleMatchWithAi, StepPickHeroReady, StepEntered, StepHandleMatchDone,
     StepCallFails
     DEF HandleNext
<1>5. ASSUME NEW a \in Accounts, CancelMatch(a) \/ AgentExits(a) \/ ErrorMessage(a)
      PROVE  IInv' /\ Leaves
  BY <1>5, StepCancelMatch, StepAgentExits, StepErrorMessage
<1>6. CASE UNCHANGED vars
  <2>1. /\ keep_list' = keep_list /\ strict_list' = strict_list /\ co' = co /\ run' = run
        /\ ent' = ent /\ picks' = picks /\ nowInMatchers' = nowInMatchers /\ gone' = gone
        /\ errors' = errors
    BY <1>6 DEF vars
  <2>2. /\ ListsSound(keep_list', strict_list') /\ nowInMatchers' \in [Accounts -> BOOLEAN]
        /\ gone' \subseteq Accounts /\ errors' \subseteq Accounts
    BY <2>1 DEF IInv, TypeOK
  <2>. QED BY <2>1, <2>2, Staying
<1>. QED BY <1>1, <1>2, <1>3, <1>4, <1>5, <1>6 DEF Next

(* Every reachable state satisfies the invariant.                           *)
THEOREM Invariant == Spec => []IInv
<1>. QED BY InitIInv, NextIInv, PTL DEF Spec

(* A request is in one place of one list, however often updates that overlap *)
(* move it, take it out and search it again (match.lua:152-153, 196-206).    *)
THEOREM MatchQueuedOnce == Spec => []QueuedOnce
<1>1. IInv => QueuedOnce
  <2> SUFFICES ASSUME IInv PROVE IsInjective(keep_list \o strict_list)
    BY DEF QueuedOnce, Waiting
  <2>1. /\ keep_list \in Seq(Entries) /\ strict_list \in Seq(Entries)
        /\ Apart(strict_list, keep_list)
    BY DEF IInv, ListsSound
  <2>2. Apart(keep_list, strict_list) BY <2>1 DEF Apart
  <2>. QED BY <2>1, <2>2, ApartIs
<1>. QED BY <1>1, Invariant, PTL

(* A group that handleMatch has is one player, for the robots, or exactly     *)
(* MATCH_NUM different ones (match.lua:252-282, 140-141).                    *)
THEOREM MatchGroupsSound == Spec => []GroupsSound
<1>1. IInv => GroupsSound BY DEF IInv, FrameSound, GroupsSound, Handling
<1>. QED BY <1>1, Invariant, PTL

(* MATCH_NUM players within the basic range of each other, one of them in the *)
(* strict list, never wait together: addtoStictlist's search of both lists    *)
(* misses nobody (match.lua:168-174, 210-283).                               *)
THEOREM MatchNoMissedMatch == Spec => []NoMissedMatch
<1>1. IInv => NoMissedMatch
  <2> SUFFICES ASSUME IInv PROVE NoMissedMatch OBVIOUS
  <2>1. ListsSound(keep_list, strict_list) BY DEF IInv
  <2>2. ToSet(Waiting) = ToSet(keep_list) \cup ToSet(strict_list) BY <2>1, WaitingIs
  <2>. QED BY <2>1, <2>2 DEF NoMissedMatch, ListsSound
<1>. QED BY <1>1, Invariant, PTL

(* When addtoStictlist makes a group, its members leave the lists, and besides *)
(* them only other requests of their accounts do: removing by descending      *)
(* indexes in two lists hits no bystander (match.lua:199-203, 271-281).       *)
THEOREM MatchOnlyMatchedLeave == Spec => OnlyMatchedLeave
<1>1. IInv /\ [Next]_vars => [Leaves]_vars BY NextIInv
<1>. QED BY <1>1, Invariant, PTL DEF Spec, OnlyMatchedLeave, Leaves
=============================================================================
