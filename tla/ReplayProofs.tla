---------------------------- MODULE ReplayProofs ----------------------------
(***************************************************************************)
(* Proofs about Replay, for any engines and clients, any sizes and limits, *)
(* and any loss of entries; and about Compaction, for any records,         *)
(* policies and proposals.                                                 *)
(*                                                                         *)
(* A list with a summary is known by four numbers and the summary (List,   *)
(* ListOf).  One compaction of such a list is such a list, and its cut is  *)
(* where a turn of the history starts (FirstCut, NextCut, CutIsSound): the *)
(* first model turn of the list is the one behind the old summary, so the  *)
(* head stays what it was.  That needs the message behind the cut to be    *)
(* the model's (Anchored), in this history and in the next one that an     *)
(* entry is taken up for; so the invariant says of every entry, kept or    *)
(* waiting, what makes it fit any history of this client that begins with  *)
(* its key (FineEntry).  A client that appends cannot change what follows  *)
(* the cut; of one that rewinds it is asked that the model answers each of *)
(* its messages (Alternates).                                              *)
(*                                                                         *)
(* Every plan of a strategy is a control or a cut: an elision of results   *)
(* that may be elided, with a card or without (PlansAre).  A cut is worth  *)
(* what it says because a stub is smaller than what it replaces by what    *)
(* the estimate allows for it, and because a card costs what it is         *)
(* estimated at (ElisionSaves, CardCosts).  What `cliff` drops of a        *)
(* session it still drops when more is said (CliffKept), and of what an    *)
(* earlier cut left it drops the rest (CliffElided): a copy it has cut is  *)
(* one elision of the session, of no more than it would drop now           *)
(* (CutOnce).                                                              *)
(***************************************************************************)
EXTENDS Replay, Compaction, FiniteSetTheorems, SequenceTheorems, WellFoundedInduction, TLAPS

-----------------------------------------------------------------------------
(* Numbers and counting                                                    *)

\* A set of naturals has a least element.
LEMMA Smallest ==
  ASSUME NEW T, T \subseteq Nat, T # {}
  PROVE  \E x \in T : \A y \in T : x <= y
<1>1. PICK x \in T : \A y \in T : ~(<<y, x>> \in OpToRel(<, Nat))
  BY NatLessThanWellFounded, WFMin
<1>2. \A y \in T : ~(y < x)
  BY <1>1 DEF OpToRel
<1> QED
  BY <1>2

\* Min and Max choose it, and the greatest one of a set that is bounded.
LEMMA MinIs ==
  ASSUME NEW T, T \subseteq Nat, T # {}
  PROVE  Min(T) \in T /\ \A y \in T : Min(T) <= y
<1>1. PICK x \in T : \A y \in T : x <= y
  BY Smallest
<1> QED
  BY <1>1 DEF Min

LEMMA MaxIs ==
  ASSUME NEW n \in Nat, NEW T, T \subseteq 0..n, T # {}
  PROVE  Max(T) \in T /\ \A y \in T : y <= Max(T)
<1> DEFINE U == {n - x : x \in T}
<1>0. \A x \in T : x \in Int /\ n - x \in Nat
  OBVIOUS
<1>1. U \subseteq Nat /\ U # {}
  BY <1>0
<1>2. PICK u \in U : \A v \in U : u <= v
  BY <1>1, Smallest
<1>3. PICK x \in T : u = n - x
  OBVIOUS
<1>4. \A y \in T : x >= y
  <2> SUFFICES ASSUME NEW y \in T PROVE x >= y
    OBVIOUS
  <2>1. n - x <= n - y
    BY <1>2, <1>3
  <2> QED
    BY <1>0, <2>1
<1> QED
  BY <1>4 DEF Max

LEMMA Few ==
  ASSUME NEW n \in Nat, NEW T, T \subseteq 0..n
  PROVE  IsFiniteSet(T) /\ Cardinality(T) \in Nat
<1>1. 0 \in Int /\ n \in Int /\ T \in SUBSET (0..n)
  OBVIOUS
<1> QED
  BY <1>1, FS_Interval, FS_Subset, FS_CardinalityType

\* The elements from s on; any number may be counted off from the top.
Above(T, s) == {t \in T : t >= s}

LEMMA TopOf ==
  ASSUME NEW n \in Nat, NEW T, T \subseteq 0..n, NEW k \in Nat \ {0}, k < Cardinality(T)
  PROVE  \E s \in T : Cardinality(Above(T, s)) = k
<1> DEFINE From(s) == Above(T, s)
           Bad == {j \in Nat \ {0} : j < Cardinality(T) /\ \A s \in T : Cardinality(From(s)) # j}
<1>0. IsFiniteSet(T) /\ Cardinality(T) \in Nat
  BY Few
<1>1. SUFFICES ASSUME Bad # {} PROVE FALSE
  OBVIOUS
<1>2. PICK j \in Bad : \A i \in Bad : j <= i
  BY <1>1, Smallest
<1>3. CASE j = 1
  <2>1. T # {}
    BY <1>0, <1>2, FS_EmptySet
  <2>2. PICK s \in T : \A t \in T : t <= s
    BY <2>1, MaxIs
  <2>3. \A t \in T : t \in Int
    OBVIOUS
  <2>4. \A t \in T : t >= s <=> t = s
    BY <2>2, <2>3
  <2>5. From(s) = {s}
    BY <2>2, <2>4 DEF Above
  <2> QED
    BY <1>2, <1>3, <2>2, <2>5, FS_Singleton
<1>4. CASE j # 1
  <2>0. T \subseteq Nat
    OBVIOUS
  <2>1. j - 1 \in Nat \ {0} /\ j - 1 < Cardinality(T) /\ j - 1 \notin Bad
    BY <1>0, <1>2, <1>4
  <2>2. PICK s \in T : Cardinality(From(s)) = j - 1
    BY <2>1
  <2> DEFINE rest == {t \in T : t < s}
  <2>3. rest # {}
    <3>1. CASE rest = {}
      <4>1. \A t \in T : t >= s
        BY <2>0, <3>1
      <4>2. From(s) = T
        BY <4>1 DEF Above
      <4> QED
        BY <2>1, <2>2, <4>2
    <3> QED
      BY <3>1
  <2>4. rest \subseteq 0..n
    OBVIOUS
  <2>5. PICK r \in rest : \A y \in rest : y <= r
    BY <2>3, <2>4, MaxIs
  <2>a. \A t \in T : t >= r <=> t >= s \/ t = r
    BY <2>0, <2>5
  <2>b. From(r) = From(s) \cup {r}
    <3> HIDE DEF rest
    <3>1. r \in T
      BY <2>5 DEF rest
    <3> QED
      BY <2>a, <3>1 DEF Above
  <2>c. ~(r >= s)
    BY <2>0, <2>5
  <2>6. From(r) = From(s) \cup {r} /\ r \notin From(s)
    BY <2>b, <2>c DEF Above
  <2>7. IsFiniteSet(From(s))
    BY Few DEF Above
  <2>8. Cardinality(From(r)) = Cardinality(From(s)) + 1
    BY <2>6, <2>7, FS_AddElement
  <2>9. Cardinality(From(r)) = j
    BY <1>2, <2>2, <2>8
  <2> QED
    BY <1>2, <2>5, <2>9
<1> QED
  BY <1>3, <1>4

\* Moving a set of numbers along keeps its size.
LEMMA Moved ==
  ASSUME NEW n \in Nat, NEW m \in Nat, NEW S, NEW T, S \subseteq 0..n, T \subseteq 0..m,
         NEW d \in Int, \A i \in S : i + d \in T
  PROVE  Cardinality(S) <= Cardinality(T)
<1> DEFINE f == [i \in S |-> i + d]
<1>1. f \in [S -> T]
  OBVIOUS
<1>2. \A a, b \in S : f[a] = f[b] => a = b
  OBVIOUS
<1>3. f \in Injection(S, T)
  BY <1>1, <1>2 DEF Injection, IsInjective
<1>4. IsFiniteSet(T)
  BY Few
<1> QED
  BY <1>3, <1>4, FS_Injection

-----------------------------------------------------------------------------
(* The recursive functions of the model                                    *)

\* A recursive function has the values that its body gives: by the least place
\* where there is no function that has them up to there.
LEMMA ChainIs ==
  ASSUME NEW c, NEW rung, c.cut \in Nat, Len(c.hist) \in Nat, c.cut <= Len(c.hist)
  PROVE  \E fed : /\ fed[c.cut] = Start(c)
                  /\ \A i \in c.cut + 1..Len(c.hist) + 1 : fed[i] = Feed(c, fed[i - 1], rung, i)
                  /\ Chain(c, rung) = fed[Len(c.hist) + 1]
<1> DEFINE a == c.cut
           top == Len(c.hist) + 1
           Fits2(f, n) == f = [i \in a..n |-> IF i = a THEN Start(c) ELSE Feed(c, f[i - 1], rung, i)]
           Bad == {n \in Nat : n >= a /\ ~\E f : Fits2(f, n)}
<1>1. Bad = {}
  <2>1. SUFFICES ASSUME Bad # {} PROVE FALSE
    OBVIOUS
  <2>2. PICK n \in Bad : \A m \in Bad : n <= m
    BY <2>1, Smallest
  <2>3. CASE n = a
    <3> DEFINE f == [i \in a..n |-> Start(c)]
    <3>1. \A i \in a..n : i = a
      BY <2>3
    <3>2. Fits2(f, n)
      BY <3>1
    <3> QED
      BY <2>2, <3>2
  <2>4. CASE n # a
    <3>1. n - 1 \in Nat /\ n - 1 >= a /\ n - 1 \notin Bad
      BY <2>2, <2>4
    <3>2. PICK f : Fits2(f, n - 1)
      BY <3>1
    <3> DEFINE g == [i \in a..n |-> IF i = n THEN Feed(c, f[n - 1], rung, n) ELSE f[i]]
    <3>3. \A i \in a..n - 1 : f[i] = IF i = a THEN Start(c) ELSE Feed(c, f[i - 1], rung, i)
      BY <3>2
    <3>4. \A i \in a..n - 1 : i \in a..n /\ i # n /\ g[i] = f[i]
      BY <3>1
    <3>5. n \in a..n /\ n - 1 \in a..n - 1
      BY <3>1
    <3>6. g[n] = Feed(c, g[n - 1], rung, n)
      BY <3>4, <3>5
    <3>7. \A i \in a..n : g[i] = IF i = a THEN Start(c) ELSE Feed(c, g[i - 1], rung, i)
      <4> SUFFICES ASSUME NEW i \in a..n
                   PROVE  g[i] = IF i = a THEN Start(c) ELSE Feed(c, g[i - 1], rung, i)
        OBVIOUS
      <4>1. CASE i = n
        BY <2>4, <3>6, <4>1
      <4>2. CASE i = a
        BY <3>1, <3>3, <3>4, <4>2, <2>4
      <4>3. CASE i # n /\ i # a
        <5>1. i \in a..n - 1 /\ i - 1 \in a..n - 1
          BY <4>3
        <5> HIDE DEF g
        <5> QED
          BY <3>3, <3>4, <4>3, <5>1
      <4> QED
        BY <4>1, <4>2, <4>3
    <3>8. Fits2(g, n)
      <4> DEFINE r == [i \in a..n |-> IF i = a THEN Start(c) ELSE Feed(c, g[i - 1], rung, i)]
      <4>1. \A i \in a..n : g[i] = r[i]
        BY <3>7
      <4>2. g = r
        BY <4>1
      <4> QED
        BY <4>2
    <3> QED
      BY <2>2, <3>8
  <2> QED
    BY <2>3, <2>4
<1>2. top \in Nat /\ top >= a /\ top \notin Bad
  BY <1>1
<1> DEFINE fed == CHOOSE f : Fits2(f, top)
<1>3. Fits2(fed, top)
  BY <1>2
<1>4. Chain(c, rung) = fed[top]
  BY DEF Chain
<1> HIDE DEF fed
<1>5. fed[a] = Start(c) /\ \A i \in a + 1..top : fed[i] = Feed(c, fed[i - 1], rung, i)
  BY <1>2, <1>3, SMTT(60)
<1> QED
  BY <1>4, <1>5


\* The same of the entries that are put one after the other, ...
LEMMA PublishedIs ==
  ASSUME NEW c, Len(c.pending) \in Nat
  PROVE  \E f : /\ f[0] = store
                /\ \A i \in 1..Len(c.pending) : f[i] = Put(f[i - 1], c.pending[i])
                /\ Published(c) = f[Len(c.pending)]
<1> DEFINE Fits2(f, n) == f = [i \in 0..n |-> IF i = 0 THEN store ELSE Put(f[i - 1], c.pending[i])]
           Bad == {n \in Nat : ~\E f : Fits2(f, n)}
<1>1. Bad = {}
  <2>1. SUFFICES ASSUME Bad # {} PROVE FALSE
    OBVIOUS
  <2>2. PICK n \in Bad : \A m \in Bad : n <= m
    BY <2>1, Smallest
  <2>3. CASE n = 0
    <3> DEFINE f == [i \in 0..n |-> store]
    <3>1. \A i \in 0..n : i = 0
      BY <2>3
    <3>2. Fits2(f, n)
      BY <3>1
    <3> QED
      BY <2>2, <3>2
  <2>4. CASE n # 0
    <3>0. n \in Nat /\ n - 1 \in Nat /\ ~(n <= n - 1)
      BY <2>2, <2>4
    <3>1. n - 1 \in Nat /\ n - 1 \notin Bad
      BY <2>2, <3>0
    <3>2. PICK f : Fits2(f, n - 1)
      BY <3>1
    <3> DEFINE g == [i \in 0..n |-> IF i = n THEN Put(f[n - 1], c.pending[n]) ELSE f[i]]
    <3>3. \A i \in 0..n - 1 : f[i] = IF i = 0 THEN store ELSE Put(f[i - 1], c.pending[i])
      BY <3>2
    <3>4. \A i \in 0..n - 1 : i \in 0..n /\ i # n /\ g[i] = f[i]
      BY <3>1
    <3>5. n \in 0..n /\ n - 1 \in 0..n - 1
      BY <3>1
    <3>6. g[n] = Put(g[n - 1], c.pending[n])
      BY <3>4, <3>5
    <3>7. \A i \in 0..n : g[i] = IF i = 0 THEN store ELSE Put(g[i - 1], c.pending[i])
      <4> SUFFICES ASSUME NEW i \in 0..n
                   PROVE  g[i] = IF i = 0 THEN store ELSE Put(g[i - 1], c.pending[i])
        OBVIOUS
      <4>1. CASE i = n
        BY <2>4, <3>6, <4>1
      <4>2. CASE i = 0
        BY <3>1, <3>3, <3>4, <4>2, <2>4
      <4>3. CASE i # n /\ i # 0
        <5>1. i \in 0..n - 1 /\ i - 1 \in 0..n - 1
          BY <4>3
        <5> HIDE DEF g
        <5> QED
          BY <3>3, <3>4, <4>3, <5>1
      <4> QED
        BY <4>1, <4>2, <4>3
    <3>8. Fits2(g, n)
      <4> DEFINE r == [i \in 0..n |-> IF i = 0 THEN store ELSE Put(g[i - 1], c.pending[i])]
      <4>1. \A i \in 0..n : g[i] = r[i]
        BY <3>7
      <4>2. g = r
        BY <4>1
      <4> QED
        BY <4>2
    <3> QED
      BY <2>2, <3>8
  <2> QED
    BY <2>3, <2>4
<1>2. Len(c.pending) \notin Bad
  BY <1>1
<1> DEFINE fed == CHOOSE f : Fits2(f, Len(c.pending))
<1>3. Fits2(fed, Len(c.pending))
  BY <1>2
<1>4. Published(c) = fed[Len(c.pending)]
  BY DEF Published
<1> HIDE DEF fed
<1>5. fed[0] = store /\ \A i \in 1..Len(c.pending) : fed[i] = Put(fed[i - 1], c.pending[i])
  BY <1>3
<1> QED
  BY <1>4, <1>5

\* ... and of the prefixes that are looked up.
LEMMA TouchedIs ==
  ASSUME NEW h, NEW p, Len(h) \in Nat
  PROVE  \E f : /\ f[0] = store
                /\ \A i \in 1..Len(h) : f[i] = Touch(f[i - 1], SubSeq(h, 1, Len(h) + 1 - i))
                /\ Touched(h, p) = f[Len(h) + 1 - Max({1, Substituted(h, p, store).cut})]
<1> DEFINE Fits2(f, n) == f = [i \in 0..n |-> IF i = 0 THEN store ELSE Touch(f[i - 1], SubSeq(h, 1, Len(h) + 1 - i))]
           Bad == {n \in Nat : ~\E f : Fits2(f, n)}
<1>1. Bad = {}
  <2>1. SUFFICES ASSUME Bad # {} PROVE FALSE
    OBVIOUS
  <2>2. PICK n \in Bad : \A m \in Bad : n <= m
    BY <2>1, Smallest
  <2>3. CASE n = 0
    <3> DEFINE f == [i \in 0..n |-> store]
    <3>1. \A i \in 0..n : i = 0
      BY <2>3
    <3>2. Fits2(f, n)
      BY <3>1
    <3> QED
      BY <2>2, <3>2
  <2>4. CASE n # 0
    <3>0. n \in Nat /\ n - 1 \in Nat /\ ~(n <= n - 1)
      BY <2>2, <2>4
    <3>1. n - 1 \in Nat /\ n - 1 \notin Bad
      BY <2>2, <3>0
    <3>2. PICK f : Fits2(f, n - 1)
      BY <3>1
    <3> DEFINE g == [i \in 0..n |-> IF i = n THEN Touch(f[n - 1], SubSeq(h, 1, Len(h) + 1 - n)) ELSE f[i]]
    <3>3. \A i \in 0..n - 1 : f[i] = IF i = 0 THEN store ELSE Touch(f[i - 1], SubSeq(h, 1, Len(h) + 1 - i))
      BY <3>2
    <3>4. \A i \in 0..n - 1 : i \in 0..n /\ i # n /\ g[i] = f[i]
      BY <3>1
    <3>5. n \in 0..n /\ n - 1 \in 0..n - 1
      BY <3>1
    <3>6. g[n] = Touch(g[n - 1], SubSeq(h, 1, Len(h) + 1 - n))
      BY <3>4, <3>5
    <3>7. \A i \in 0..n : g[i] = IF i = 0 THEN store ELSE Touch(g[i - 1], SubSeq(h, 1, Len(h) + 1 - i))
      <4> SUFFICES ASSUME NEW i \in 0..n
                   PROVE  g[i] = IF i = 0 THEN store ELSE Touch(g[i - 1], SubSeq(h, 1, Len(h) + 1 - i))
        OBVIOUS
      <4>1. CASE i = n
        BY <2>4, <3>6, <4>1
      <4>2. CASE i = 0
        BY <3>1, <3>3, <3>4, <4>2, <2>4
      <4>3. CASE i # n /\ i # 0
        <5>1. i \in 0..n - 1 /\ i - 1 \in 0..n - 1
          BY <4>3
        <5> HIDE DEF g
        <5> QED
          BY <3>3, <3>4, <4>3, <5>1
      <4> QED
        BY <4>1, <4>2, <4>3
    <3>8. Fits2(g, n)
      <4> DEFINE r == [i \in 0..n |-> IF i = 0 THEN store ELSE Touch(g[i - 1], SubSeq(h, 1, Len(h) + 1 - i))]
      <4>1. \A i \in 0..n : g[i] = r[i]
        BY <3>7
      <4>2. g = r
        BY <4>1
      <4> QED
        BY <4>2
    <3> QED
      BY <2>2, <3>8
  <2> QED
    BY <2>3, <2>4
<1>2. Len(h) \notin Bad
  BY <1>1
<1> DEFINE fed == CHOOSE f : Fits2(f, Len(h))
<1>3. Fits2(fed, Len(h))
  BY <1>2
<1>4. Touched(h, p) = fed[Len(h) + 1 - Max({1, Substituted(h, p, store).cut})]
  BY DEF Touched
<1> HIDE DEF fed
<1>5. fed[0] = store /\ \A i \in 1..Len(h) : fed[i] = Touch(fed[i - 1], SubSeq(h, 1, Len(h) + 1 - i))
  BY <1>3
<1> QED
  BY <1>4, <1>5


-----------------------------------------------------------------------------
(* Lists                                                                   *)

\* Two sequences with the same members.
Same(s, t) == Len(s) = Len(t) /\ \A i \in 1..Len(s) : s[i] = t[i]

\* The members of lists over h with a summary in S.
Items(h, S) == {Original(h, i) : i \in 1..Len(h)} \cup {Summary(h, s) : s \in S}

\* The first n messages of h, those behind head and up to cut as a summary.
List(h, head, s, cut, n) ==
  Originals(h, 1, head) \o <<Summary(h, s)>> \o Originals(h, cut + 1, n)

\* What the members of such a list are.
Listed(L, h, head, s, cut, n) ==
  /\ Len(L) = head + 1 + n - cut
  /\ \A i \in 1..head : L[i] = Original(h, i)
  /\ L[head + 1] = Summary(h, s)
  /\ \A i \in head + 2..head + 1 + n - cut : L[i] = Original(h, i - head - 1 + cut)

\* Messages of the history are members of its lists.
LEMMA OriginalsAre ==
  ASSUME NEW h, NEW S, Len(h) \in Nat, NEW a \in Nat \ {0}, NEW b \in Nat, a - 1 <= b, b <= Len(h)
  PROVE  /\ Originals(h, a, b) \in Seq(Items(h, S)) /\ Len(Originals(h, a, b)) = b - a + 1
         /\ \A i \in 1..b - a + 1 : Originals(h, a, b)[i] = Original(h, a + i - 1)
<1> DEFINE n == b - a + 1
<1>1. n \in Nat /\ b - a + 1 = n
  OBVIOUS
<1>2. \A i \in 1..n : a + i - 1 \in 1..Len(h)
  OBVIOUS
<1>3. \A i \in 1..n : Original(h, a + i - 1) \in Items(h, S)
  BY <1>2 DEF Items
<1> HIDE DEF n
<1>4. [i \in 1..n |-> Original(h, a + i - 1)] \in Seq(Items(h, S))
  BY <1>1, <1>3, IsASeq
<1>5. Originals(h, a, b) = [i \in 1..n |-> Original(h, a + i - 1)]
  BY <1>1 DEF Originals
<1>6. Len([i \in 1..n |-> Original(h, a + i - 1)]) = n
  BY <1>1
<1> QED
  BY <1>1, <1>4, <1>5, <1>6

\* From the first on, an index is a place in the history.
LEMMA FirstAre ==
  ASSUME NEW h, NEW S, Len(h) \in Nat, NEW n \in Nat, n <= Len(h)
  PROVE  /\ Originals(h, 1, n) \in Seq(Items(h, S)) /\ Len(Originals(h, 1, n)) = n
         /\ \A i \in 1..n : Originals(h, 1, n)[i] = Original(h, i)
<1>1. Originals(h, 1, n) = [i \in 1..n |-> Original(h, i)]
  <2>1. 1..(n - 1 + 1) = 1..n /\ \A i \in 1..n : 1 + i - 1 = i
    OBVIOUS
  <2> QED
    BY <2>1 DEF Originals
<1>2. \A i \in 1..n : Original(h, i) \in Items(h, S)
  BY DEF Items
<1>3. [i \in 1..n |-> Original(h, i)] \in Seq(Items(h, S))
  BY <1>2, IsASeq
<1>4. Len([i \in 1..n |-> Original(h, i)]) = n
  OBVIOUS
<1> QED
  BY <1>1, <1>3, <1>4

\* Head, summary and the rest are where the code puts them.
LEMMA ListIs ==
  ASSUME NEW h, NEW S, NEW s \in S, Len(h) \in Nat,
         NEW head \in Nat, NEW cut \in Nat, NEW n \in Nat, head <= cut, cut <= n, n <= Len(h)
  PROVE  /\ List(h, head, s, cut, n) \in Seq(Items(h, S))
         /\ Listed(List(h, head, s, cut, n), h, head, s, cut, n)
<1> DEFINE A == Originals(h, 1, head)
           B == <<Summary(h, s)>>
           C == Originals(h, cut + 1, n)
           T == Items(h, S)
<1>1. A \in Seq(T) /\ Len(A) = head /\ \A i \in 1..head : A[i] = Original(h, i)
  BY FirstAre
<1>2. C \in Seq(T) /\ Len(C) = n - cut /\ \A i \in 1..n - cut : C[i] = Original(h, cut + i)
  <2>1. n - (cut + 1) + 1 = n - cut /\ \A i \in 1..n - cut : cut + 1 + i - 1 = cut + i
    OBVIOUS
  <2>2. PICK a \in Nat \ {0} : a = cut + 1
    OBVIOUS
  <2>a. a - 1 <= n /\ n <= Len(h)
    BY <2>2
  <2>3. /\ Originals(h, a, n) \in Seq(Items(h, S)) /\ Len(Originals(h, a, n)) = n - a + 1
        /\ \A i \in 1..n - a + 1 : Originals(h, a, n)[i] = Original(h, a + i - 1)
    BY <2>a, OriginalsAre, ZenonT(60)
  <2> QED
    BY <2>1, <2>2, <2>3
<1>3. B \in Seq(T) /\ Len(B) = 1 /\ B[1] = Summary(h, s)
  <2>1. Summary(h, s) \in T
    BY DEF Items
  <2> QED
    BY <2>1
<1> DEFINE D == A \o B
<1> HIDE DEF A, B, C, T
<1>4. D \in Seq(T) /\ Len(D) = head + 1 /\ \A i \in 1..head + 1 : D[i] = IF i <= head THEN A[i] ELSE B[i - head]
  <2>1. A \o B \in Seq(T) /\ Len(A \o B) = Len(A) + Len(B)
    BY <1>1, <1>3, ConcatProperties, Zenon
  <2>2. \A i \in 1..Len(A) + Len(B) : (A \o B)[i] = IF i <= Len(A) THEN A[i] ELSE B[i - Len(A)]
    BY <1>1, <1>3, ConcatProperties, Zenon
  <2> QED
    BY <1>1, <1>3, <2>1, <2>2
<1>5. D[head + 1] = Summary(h, s) /\ \A i \in 1..head : D[i] = Original(h, i)
  <2>1. head + 1 \in 1..head + 1 /\ ~(head + 1 <= head) /\ head + 1 - head = 1
    OBVIOUS
  <2>2. \A i \in 1..head : i \in 1..head + 1 /\ i <= head
    OBVIOUS
  <2> QED
    BY <1>1, <1>3, <1>4, <2>1, <2>2
<1> HIDE DEF D
<1>6. /\ D \o C \in Seq(T) /\ Len(D \o C) = head + 1 + (n - cut)
      /\ \A i \in 1..head + 1 + (n - cut) : (D \o C)[i] = IF i <= head + 1 THEN D[i] ELSE C[i - (head + 1)]
  <2>1. /\ D \o C \in Seq(T) /\ Len(D \o C) = Len(D) + Len(C)
        /\ \A i \in 1..Len(D) + Len(C) : (D \o C)[i] = IF i <= Len(D) THEN D[i] ELSE C[i - Len(D)]
    BY <1>2, <1>4, ConcatProperties
  <2> QED
    BY <1>2, <1>4, <2>1
<1>7. \A i \in 1..head + 1 : (D \o C)[i] = D[i]
  <2>1. \A i \in 1..head + 1 : i \in 1..head + 1 + (n - cut) /\ i <= head + 1
    OBVIOUS
  <2> QED
    BY <1>6, <2>1
<1>8. \A i \in head + 2..head + 1 + n - cut : (D \o C)[i] = Original(h, i - head - 1 + cut)
  <2> SUFFICES ASSUME NEW i \in head + 2..head + 1 + n - cut
               PROVE  (D \o C)[i] = Original(h, i - head - 1 + cut)
    OBVIOUS
  <2>1. /\ i \in 1..head + 1 + (n - cut) /\ ~(i <= head + 1) /\ i - (head + 1) \in 1..n - cut
        /\ cut + (i - (head + 1)) = i - head - 1 + cut
    OBVIOUS
  <2> QED
    BY <1>2, <1>6, <2>1
<1>9. head + 1 + (n - cut) = head + 1 + n - cut
  OBVIOUS
<1>10. List(h, head, s, cut, n) = D \o C
  BY DEF List, D, A, B, C
<1>11. head + 1 \in 1..head + 1 /\ \A i \in 1..head : i \in 1..head + 1
  OBVIOUS
<1> QED
  BY <1>5, <1>6, <1>7, <1>8, <1>9, <1>10, <1>11 DEF T, Listed

\* A list is known by its members.
LEMMA ListOf ==
  ASSUME NEW h, NEW S, NEW s \in S, Len(h) \in Nat, NEW U, NEW L \in Seq(U),
         NEW head \in Nat, NEW cut \in Nat, NEW n \in Nat, head <= cut, cut <= n, n <= Len(h),
         Listed(L, h, head, s, cut, n)
  PROVE  L = List(h, head, s, cut, n)
<1> DEFINE M == List(h, head, s, cut, n)
           V == U \cup Items(h, S)
<1>1. M \in Seq(Items(h, S)) /\ Listed(M, h, head, s, cut, n)
  BY ListIs
<1>2. L \in Seq(V) /\ M \in Seq(V)
  BY <1>1, SeqMonotonic
<1>3. Len(L) = head + 1 + n - cut
  BY DEF Listed
<1>4. \A i \in 1..Len(L) : i \in 1..head \/ i = head + 1 \/ i \in head + 2..head + 1 + n - cut
  BY <1>3
<1> HIDE DEF M, V
<1>5. Len(M) = Len(L) /\ \A i \in 1..Len(L) : L[i] = M[i]
  BY <1>1, <1>3, <1>4 DEF Listed
<1>6. L = M
  BY <1>2, <1>5, SeqEqual
<1> QED
  BY <1>6 DEF M

\* L with e for the members before s and behind head.
Rebuilt(R, L, head, s, e) ==
  /\ Len(R) = head + 2 + Len(L) - s
  /\ \A i \in 1..head : R[i] = L[i]
  /\ R[head + 1] = e
  /\ \A i \in head + 2..Len(R) : R[i] = L[i - head - 2 + s]

\* What the cut-and-join of a compaction leaves, member by member.
LEMMA RebuiltIs ==
  ASSUME NEW U, NEW e \in U, NEW L \in Seq(U), NEW head \in Nat, NEW s \in Nat,
         head < s, s <= Len(L)
  PROVE  /\ SubSeq(L, 1, head) \o <<e>> \o SubSeq(L, s, Len(L)) \in Seq(U)
         /\ Rebuilt(SubSeq(L, 1, head) \o <<e>> \o SubSeq(L, s, Len(L)), L, head, s, e)
<1> DEFINE n == Len(L)
           A == SubSeq(L, 1, head)
           B == <<e>>
           C == SubSeq(L, s, n)
<1>0. n \in Nat /\ \A i \in 1..n : L[i] \in U
  BY LenProperties, ElementOfSeq
<1>1. A \in Seq(U) /\ Len(A) = head /\ \A i \in 1..head : A[i] = L[i]
  <2>1. 1 \in Int /\ head \in Int /\ \A i \in 1..head : L[i] \in U
    BY <1>0
  <2>2. /\ A \in Seq(U) /\ Len(A) = IF 1 <= head THEN head - 1 + 1 ELSE 0
        /\ \A i \in 1..head - 1 + 1 : A[i] = L[1 + i - 1]
    BY <2>1, SubSeqProperties
  <2>3. head - 1 + 1 = head /\ (~(1 <= head) => head = 0) /\ \A i \in 1..head : 1 + i - 1 = i
    OBVIOUS
  <2> HIDE DEF A
  <2> QED
    BY <2>2, <2>3
<1>2. C \in Seq(U) /\ Len(C) = n - s + 1 /\ \A i \in 1..n - s + 1 : C[i] = L[s + i - 1]
  <2>1. s \in Int /\ n \in Int /\ s <= n /\ \A i \in s..n : L[i] \in U
    BY <1>0
  <2>2. /\ C \in Seq(U) /\ Len(C) = IF s <= n THEN n - s + 1 ELSE 0
        /\ \A i \in 1..n - s + 1 : C[i] = L[s + i - 1]
    BY <2>1, SubSeqProperties
  <2> HIDE DEF C
  <2> QED
    BY <2>1, <2>2
<1>3. B \in Seq(U) /\ Len(B) = 1 /\ B[1] = e
  OBVIOUS
<1> DEFINE D == A \o B
<1> HIDE DEF A, B, C
<1>4. D \in Seq(U) /\ Len(D) = head + 1 /\ \A i \in 1..head + 1 : D[i] = IF i <= head THEN A[i] ELSE B[i - head]
  <2>0. A \in Seq(U) /\ B \in Seq(U)
    BY <1>1, <1>3
  <2>1. A \o B \in Seq(U)
    BY <2>0, ConcatProperties, Zenon
  <2>3. Len(A \o B) = Len(A) + Len(B)
    BY <2>0, ConcatProperties, Zenon
  <2>2. \A i \in 1..Len(A) + Len(B) : (A \o B)[i] = IF i <= Len(A) THEN A[i] ELSE B[i - Len(A)]
    BY <1>1, <1>3, ConcatProperties, Zenon
  <2> QED
    BY <1>1, <1>3, <2>1, <2>2, <2>3
<1> HIDE DEF D
<1>5. D[head + 1] = e /\ \A i \in 1..head : D[i] = L[i]
  <2>1. head + 1 \in 1..head + 1 /\ ~(head + 1 <= head) /\ head + 1 - head = 1
    OBVIOUS
  <2>2. \A i \in 1..head : i \in 1..head + 1 /\ i <= head
    OBVIOUS
  <2> QED
    BY <1>1, <1>3, <1>4, <2>1, <2>2
<1> DEFINE R == D \o C
<1> HIDE DEF R
<1>6. /\ R \in Seq(U) /\ Len(R) = head + 1 + (n - s + 1)
      /\ \A i \in 1..head + 1 + (n - s + 1) : R[i] = IF i <= head + 1 THEN D[i] ELSE C[i - (head + 1)]
  <2>1. /\ D \o C \in Seq(U) /\ Len(D \o C) = Len(D) + Len(C)
        /\ \A i \in 1..Len(D) + Len(C) : (D \o C)[i] = IF i <= Len(D) THEN D[i] ELSE C[i - Len(D)]
    BY <1>2, <1>4, ConcatProperties
  <2> QED
    BY <1>2, <1>4, <2>1 DEF R
<1>7. \A i \in 1..head + 1 : R[i] = D[i]
  <2>1. \A i \in 1..head + 1 : i \in 1..head + 1 + (n - s + 1) /\ i <= head + 1
    BY <1>0
  <2> QED
    BY <1>6, <2>1
<1>8. \A i \in head + 2..Len(R) : R[i] = L[i - head - 2 + s]
  <2> SUFFICES ASSUME NEW i \in head + 2..Len(R)
               PROVE  R[i] = L[i - head - 2 + s]
    OBVIOUS
  <2>1. /\ i \in 1..head + 1 + (n - s + 1) /\ ~(i <= head + 1) /\ i - (head + 1) \in 1..n - s + 1
        /\ s + (i - (head + 1)) - 1 = i - head - 2 + s
    BY <1>0, <1>6
  <2> QED
    BY <1>2, <1>6, <2>1
<1>9. Len(R) = head + 2 + n - s
  BY <1>0, <1>6
<1>10. \A i \in 1..head : i \in 1..head + 1
  OBVIOUS
<1>11. head + 1 \in 1..head + 1
  OBVIOUS
<1> QED
  BY <1>5, <1>6, <1>7, <1>8, <1>9, <1>10, <1>11 DEF R, D, A, B, C, Rebuilt

\* One more message fed is one more message of the list.
LEMMA ListGrows ==
  ASSUME NEW h, NEW s, Len(h) \in Nat,
         NEW head \in Nat, NEW cut \in Nat, NEW n \in Nat, head <= cut, cut <= n, n + 1 <= Len(h)
  PROVE  Append(List(h, head, s, cut, n), Original(h, n + 1)) = List(h, head, s, cut, n + 1)
<1> DEFINE L == List(h, head, s, cut, n)
           e == Original(h, n + 1)
           T == Items(h, {s})
<1>1. L \in Seq(T) /\ Listed(L, h, head, s, cut, n)
  <2>1. s \in {s} /\ n <= Len(h)
    OBVIOUS
  <2> QED
    BY <2>1, ListIs
<1>2. e \in T
  BY DEF Items
<1> HIDE DEF L, T, e
<1>3. Len(L) = head + 1 + n - cut
  BY <1>1 DEF Listed
<1>4. /\ Append(L, e) \in Seq(T) /\ Len(Append(L, e)) = head + 1 + (n + 1) - cut
      /\ \A i \in 1..head + 1 + n - cut : Append(L, e)[i] = L[i]
      /\ Append(L, e)[head + 1 + (n + 1) - cut] = e
  <2>1. /\ Append(L, e) \in Seq(T) /\ Len(Append(L, e)) = Len(L) + 1
        /\ \A i \in 1..Len(L) : Append(L, e)[i] = L[i]
        /\ Append(L, e)[Len(L) + 1] = e
    BY <1>1, <1>2, AppendProperties
  <2>2. Len(L) + 1 = head + 1 + (n + 1) - cut
    BY <1>3
  <2> QED
    BY <1>3, <2>1, <2>2
<1>5. \A i \in head + 2..head + 1 + (n + 1) - cut : Append(L, e)[i] = Original(h, i - head - 1 + cut)
  <2> SUFFICES ASSUME NEW i \in head + 2..head + 1 + (n + 1) - cut
               PROVE  Append(L, e)[i] = Original(h, i - head - 1 + cut)
    OBVIOUS
  <2>1. CASE i = head + 1 + (n + 1) - cut
    <3>1. i - head - 1 + cut = n + 1
      BY <2>1
    <3> QED
      BY <1>4, <2>1, <3>1 DEF e
  <2>2. CASE i # head + 1 + (n + 1) - cut
    <3>1. i \in 1..head + 1 + n - cut /\ i \in head + 2..head + 1 + n - cut
      BY <2>2
    <3> QED
      BY <1>1, <1>4, <3>1 DEF Listed
  <2> QED
    BY <2>1, <2>2
<1>6. head + 1 \in 1..head + 1 + n - cut /\ \A i \in 1..head : i \in 1..head + 1 + n - cut
  OBVIOUS
<1>7. Listed(Append(L, e), h, head, s, cut, n + 1)
  BY <1>1, <1>4, <1>5, <1>6 DEF Listed
<1>8. s \in {s} /\ n + 1 \in Nat /\ cut <= n + 1
  OBVIOUS
<1>9. Append(L, e) = List(h, head, s, cut, n + 1)
  BY <1>4, <1>7, <1>8, ListOf
<1> QED
  BY <1>9 DEF L, e


LEMMA OriginalsGrow ==
  ASSUME NEW h, Len(h) \in Nat, NEW n \in Nat, n + 1 <= Len(h)
  PROVE  Append(Originals(h, 1, n), Original(h, n + 1)) = Originals(h, 1, n + 1)
<1> DEFINE L == Originals(h, 1, n)
           M == Originals(h, 1, n + 1)
           e == Original(h, n + 1)
           T == Items(h, {})
<1>1. L \in Seq(T) /\ Len(L) = n /\ \A i \in 1..n : L[i] = Original(h, i)
  BY FirstAre
<1>2. M \in Seq(T) /\ Len(M) = n + 1 /\ \A i \in 1..n + 1 : M[i] = Original(h, i)
  BY FirstAre
<1>3. e \in T
  BY DEF Items
<1> HIDE DEF L, M, T, e
<1>4. /\ Append(L, e) \in Seq(T) /\ Len(Append(L, e)) = n + 1
      /\ \A i \in 1..n : Append(L, e)[i] = L[i]
      /\ Append(L, e)[n + 1] = e
  BY <1>1, <1>3, AppendProperties
<1>5. \A i \in 1..n + 1 : Append(L, e)[i] = M[i]
  <2>1. \A i \in 1..n + 1 : i \in 1..n \/ i = n + 1
    OBVIOUS
  <2> QED
    BY <1>1, <1>2, <1>4, <2>1 DEF e
<1>6. Append(L, e) = M
  BY <1>2, <1>4, <1>5, SeqEqual
<1> QED
  BY <1>6 DEF L, M, e

\* Summarizing what is behind head and before s gives the list with this cut.
Summarizes(L, h, head, new, s, cut, n) ==
  SubSeq(L, 1, head) \o <<Summary(h, new)>> \o SubSeq(L, s, Len(L)) = List(h, head, new, cut, n)

\* A first compaction of n messages that keeps those from s on.
LEMMA FirstAdopted ==
  ASSUME NEW h, NEW new, Len(h) \in Nat, NEW head \in Nat, NEW s \in Nat, NEW n \in Nat,
         head < s, s <= n, n <= Len(h)
  PROVE  Summarizes(Originals(h, 1, n), h, head, new, s, s - 1, n)
<1> DEFINE L == Originals(h, 1, n)
           e == Summary(h, new)
           T == Items(h, {new})
           R == SubSeq(L, 1, head) \o <<e>> \o SubSeq(L, s, Len(L))
<1>1. L \in Seq(T) /\ Len(L) = n /\ \A i \in 1..n : L[i] = Original(h, i)
  BY FirstAre
<1>2. e \in T
  BY DEF Items
<1> HIDE DEF L, e, T, R
<1>3. s <= Len(L)
  BY <1>1
<1>4. /\ R \in Seq(T) /\ Len(R) = head + 2 + Len(L) - s
      /\ \A i \in 1..head : R[i] = L[i]
      /\ R[head + 1] = e
      /\ \A i \in head + 2..Len(R) : R[i] = L[i - head - 2 + s]
  <2>1. R \in Seq(T) /\ Rebuilt(R, L, head, s, e)
    BY <1>1, <1>2, <1>3, RebuiltIs DEF R
  <2> QED
    BY <2>1 DEF Rebuilt
<1>5. Len(R) = head + 1 + n - (s - 1)
  BY <1>1, <1>4
<1>6. \A i \in head + 2..Len(R) : R[i] = Original(h, i - head - 1 + (s - 1))
  <2> SUFFICES ASSUME NEW i \in head + 2..Len(R)
               PROVE  R[i] = Original(h, i - head - 1 + (s - 1))
    OBVIOUS
  <2>1. i - head - 2 + s \in 1..n /\ i - head - 1 + (s - 1) = i - head - 2 + s
    BY <1>5
  <2> QED
    BY <1>1, <1>4, <2>1
<1>7. \A i \in 1..head : R[i] = Original(h, i)
  BY <1>1, <1>4
<1>8. PICK cut \in Nat : cut = s - 1
  OBVIOUS
<1>9. Listed(R, h, head, new, cut, n)
  BY <1>4, <1>5, <1>6, <1>7, <1>8 DEF Listed, e
<1>10. new \in {new} /\ head <= cut /\ cut <= n
  BY <1>8
<1>11. R = List(h, head, new, cut, n)
  BY <1>4, <1>9, <1>10, ListOf
<1> QED
  BY <1>8, <1>11 DEF R, L, e, Summarizes

\* A later one, of a list that has a summary.
LEMMA NextAdopted ==
  ASSUME NEW h, NEW old, NEW new, Len(h) \in Nat,
         NEW head \in Nat, NEW cut \in Nat, NEW n \in Nat, head <= cut, cut <= n, n <= Len(h),
         NEW s \in Nat, head + 2 <= s, s <= head + 1 + n - cut
  PROVE  Summarizes(List(h, head, old, cut, n), h, head, new, s, cut + (s - 1 - (head + 1)), n)
<1> DEFINE L == List(h, head, old, cut, n)
           e == Summary(h, new)
           T == Items(h, {old, new})
           R == SubSeq(L, 1, head) \o <<e>> \o SubSeq(L, s, Len(L))
<1>1. L \in Seq(T) /\ Listed(L, h, head, old, cut, n)
  <2>1. old \in {old, new}
    OBVIOUS
  <2> QED
    BY <2>1, ListIs
<1>2. e \in T
  BY DEF Items
<1> HIDE DEF L, e, T, R
<1>3. s <= Len(L) /\ head < s /\ Len(L) = head + 1 + n - cut
  BY <1>1 DEF Listed
<1>4. /\ R \in Seq(T) /\ Len(R) = head + 2 + Len(L) - s
      /\ \A i \in 1..head : R[i] = L[i]
      /\ R[head + 1] = e
      /\ \A i \in head + 2..Len(R) : R[i] = L[i - head - 2 + s]
  <2>1. R \in Seq(T) /\ Rebuilt(R, L, head, s, e)
    BY <1>1, <1>2, <1>3, RebuiltIs DEF R
  <2> QED
    BY <2>1 DEF Rebuilt
<1>5. PICK new_cut \in Nat : new_cut = cut + (s - 1 - (head + 1))
  OBVIOUS
<1>6. Len(R) = head + 1 + n - new_cut
  BY <1>3, <1>4, <1>5
<1>7. \A i \in head + 2..Len(R) : R[i] = Original(h, i - head - 1 + new_cut)
  <2> SUFFICES ASSUME NEW i \in head + 2..Len(R)
               PROVE  R[i] = Original(h, i - head - 1 + new_cut)
    OBVIOUS
  <2>1. /\ i - head - 2 + s \in head + 2..head + 1 + n - cut
        /\ (i - head - 2 + s) - head - 1 + cut = i - head - 1 + new_cut
    BY <1>5, <1>6
  <2> QED
    BY <1>1, <1>4, <2>1 DEF Listed
<1>8. \A i \in 1..head : R[i] = Original(h, i)
  BY <1>1, <1>4 DEF Listed
<1>9. Listed(R, h, head, new, new_cut, n)
  BY <1>4, <1>6, <1>7, <1>8 DEF Listed, e
<1>10. new \in {new} /\ head <= new_cut /\ new_cut <= n
  BY <1>5
<1>11. R = List(h, head, new, new_cut, n)
  BY <1>4, <1>9, <1>10, ListOf
<1> QED
  BY <1>5, <1>11 DEF R, L, e, Summarizes

\* The first head + 1 members are where a replay starts over.
LEMMA StartOver ==
  ASSUME NEW h, NEW s, Len(h) \in Nat, NEW head \in Nat, NEW cut \in Nat, head <= cut, cut <= Len(h)
  PROVE  SubSeq(List(h, head, s, cut, Len(h)), 1, head + 1) = List(h, head, s, cut, cut)
<1> DEFINE L == List(h, head, s, cut, Len(h))
           R == SubSeq(L, 1, head + 1)
           T == Items(h, {s})
<1>0. s \in {s} /\ cut <= cut
  OBVIOUS
<1>1. L \in Seq(T) /\ Listed(L, h, head, s, cut, Len(h))
  BY <1>0, ListIs
<1> HIDE DEF L, T, R
<1>2. Len(L) = head + 1 + Len(h) - cut
  BY <1>1 DEF Listed
<1>3. \A i \in 1..head + 1 : L[i] \in T
  <2>1. \A i \in 1..head + 1 : i \in 1..Len(L)
    BY <1>2
  <2> QED
    BY <1>1, <2>1, ElementOfSeq
<1>4. R \in Seq(T) /\ Len(R) = head + 1 /\ \A i \in 1..head + 1 : R[i] = L[i]
  <2>1. 1 \in Int /\ head + 1 \in Int /\ 1 <= head + 1
    OBVIOUS
  <2>2. /\ R \in Seq(T) /\ Len(R) = IF 1 <= head + 1 THEN head + 1 - 1 + 1 ELSE 0
        /\ \A i \in 1..head + 1 - 1 + 1 : R[i] = L[1 + i - 1]
    BY <1>3, <2>1, SubSeqProperties DEF R
  <2>3. head + 1 - 1 + 1 = head + 1 /\ \A i \in 1..head + 1 : 1 + i - 1 = i
    OBVIOUS
  <2> QED
    BY <2>1, <2>2, <2>3
<1>5. head + 1 = head + 1 + cut - cut /\ \A i \in head + 2..head + 1 + cut - cut : FALSE
  OBVIOUS
<1>6. \A i \in 1..head : i \in 1..head + 1
  OBVIOUS
<1>7. Listed(R, h, head, s, cut, cut)
  BY <1>1, <1>4, <1>5, <1>6 DEF Listed
<1>8. R = List(h, head, s, cut, cut)
  BY <1>0, <1>4, <1>7, ListOf
<1> QED
  BY <1>8 DEF R, L


-----------------------------------------------------------------------------
(* One compaction                                                          *)

\* What may end a head.
MayEnd(m) == m.kind \notin {"system", "summary"}

\* The head ends before the first model turn, at a message that may end it.
LEMMA HeadIs ==
  ASSUME NEW list, Len(list) \in Nat, DOMAIN list = 1..Len(list)
  PROVE  /\ FirstModel(list) \in 1..Len(list) + 1
         /\ \A i \in 1..FirstModel(list) - 1 : ~Assistant(list[i])
         /\ FirstModel(list) <= Len(list) => Assistant(list[FirstModel(list)])
         /\ HeadLen(list) \in 0..FirstModel(list) - 1
         /\ HeadLen(list) = 0 \/ MayEnd(list[HeadLen(list)])
         /\ \A k \in HeadLen(list) + 1..FirstModel(list) - 1 : ~MayEnd(list[k])
<1> DEFINE n == Len(list)
           A == {i \in DOMAIN list : Assistant(list[i])} \cup {n + 1}
           f == FirstModel(list)
           H == {0} \cup {k \in 1..f - 1 : MayEnd(list[k])}
           head == HeadLen(list)
<1>1. A \subseteq Nat /\ A # {} /\ f = Min(A)
  BY DEF FirstModel
<1>2. f \in A /\ \A i \in A : f <= i
  BY <1>1, MinIs
<1>3. f \in 1..n + 1
  BY <1>2
<1>4. \A i \in 1..f - 1 : ~Assistant(list[i])
  <2> SUFFICES ASSUME NEW i \in 1..f - 1, Assistant(list[i]) PROVE FALSE
    OBVIOUS
  <2>1. i \in A /\ ~(f <= i)
    BY <1>3
  <2> QED
    BY <1>2, <2>1
<1>5. f <= n => Assistant(list[f])
  BY <1>2
<1> HIDE DEF A, f
<1>6. f - 1 \in Nat /\ H \subseteq 0..f - 1 /\ H # {}
  BY <1>3
<1>7. head = Max(H)
  BY DEF HeadLen, MayEnd, f
<1> HIDE DEF head
<1>8. head \in H /\ \A k \in H : k <= head
  BY <1>6, <1>7, MaxIs
<1>9. \A k \in head + 1..f - 1 : ~MayEnd(list[k])
  <2> SUFFICES ASSUME NEW k \in head + 1..f - 1, MayEnd(list[k]) PROVE FALSE
    OBVIOUS
  <2>1. head \in Nat /\ k \in 1..f - 1 /\ ~(k <= head)
    BY <1>3, <1>8
  <2> QED
    BY <1>8, <2>1
<1>10. head \in 0..f - 1 /\ (head = 0 \/ MayEnd(list[head]))
  BY <1>3, <1>8
<1> QED
  BY <1>3, <1>4, <1>5, <1>9, <1>10 DEF f, head

LEMMA TurnsBehind ==
  ASSUME NEW list, Len(list) \in Nat, DOMAIN list = 1..Len(list)
  PROVE  TurnStarts(list) \subseteq 0..Len(list)
         /\ \A k \in TurnStarts(list) :
              /\ k \in HeadLen(list) + 1..Len(list)
              /\ k # HeadLen(list) + 1 => Assistant(list[k]) /\ ~Assistant(list[k - 1])
<1>1. HeadLen(list) \in Nat
  BY HeadIs
<1> QED
  BY <1>1 DEF TurnStarts

\* The split is where a turn starts, and keeps as many as it must.
LEMMA StartIs ==
  ASSUME NEW h, NEW p, NEW x, NEW knobs, Len(x.out) \in Nat, DOMAIN x.out = 1..Len(x.out),
         knobs.keep \in Nat \ {0}, Cardinality(TurnStarts(x.out)) > knobs.keep
  PROVE  /\ StartOf(h, p, x, knobs) \in TurnStarts(x.out)
         /\ Cardinality(Above(TurnStarts(x.out), StartOf(h, p, x, knobs))) >= knobs.keep
<1> DEFINE T == TurnStarts(x.out)
           n == Len(x.out)
           k == knobs.keep
           From(s) == Above(T, s)
           least == MinimalStart(x.out, knobs)
<1>1. T \subseteq 0..n
  BY TurnsBehind
<1> HIDE DEF T
<1>2. \E s \in T : Cardinality(From(s)) = k
  <2>1. n \in Nat /\ k \in Nat \ {0} /\ k < Cardinality(T)
    BY <1>1, Few DEF T
  <2> HIDE DEF n, k
  <2> QED
    BY <1>1, <2>1, TopOf
<1>3. least = CHOOSE s \in T : Cardinality(From(s)) = k
  BY DEF MinimalStart, T, Above
<1> HIDE DEF least
<1>4. least \in T /\ Cardinality(From(least)) = k
  BY <1>2, <1>3
<1>5. ASSUME NEW s \in T, s <= least
      PROVE  Cardinality(From(s)) >= k
  <2>1. \A t \in T : t >= least => t >= s
    BY <1>1, <1>4, <1>5
  <2>2. From(least) \subseteq From(s) /\ From(s) \subseteq 0..n
    BY <1>1, <2>1 DEF Above
  <2>3. IsFiniteSet(From(s)) /\ Cardinality(From(s)) \in Nat
    BY <2>2, Few
  <2>4. Cardinality(From(least)) <= Cardinality(From(s))
    BY <2>2, <2>3, FS_Subset
  <2> QED
    BY <1>4, <2>3, <2>4
<1>6. ASSUME NEW budget, NEW section
      PROVE  Grown(h, x.out, knobs, budget, section, least) \in T
             /\ Grown(h, x.out, knobs, budget, section, least) <= least
  <2> DEFINE G == {s \in T : \A t \in {u \in T : s <= u /\ u <= least} :
                     t < least => Fits(h, x.out, t, section, knobs, budget) /\ MayKeep(x.out, t)}
  <2>1. \A t \in {u \in T : least <= u /\ u <= least} : ~(t < least)
    BY <1>1, <1>4
  <2>a. \A t \in {u \in T : least <= u /\ u <= least} :
          t < least => Fits(h, x.out, t, section, knobs, budget) /\ MayKeep(x.out, t)
    BY <2>1, Zenon
  <2>2. least \in G /\ G \subseteq Nat
    <3>1. G \subseteq T
      OBVIOUS
    <3>2. least \in G
      BY <1>4, <2>a, Zenon
    <3> HIDE DEF G
    <3> QED
      BY <1>1, <3>1, <3>2
  <2>3. Min(G) \in G /\ Min(G) <= least
    BY <2>2, MinIs
  <2>4. Grown(h, x.out, knobs, budget, section, least) = Min(G)
    BY DEF Grown, T
  <2> QED
    BY <2>3, <2>4
<1>7. \/ StartOf(h, p, x, knobs) = least
      \/ \E budget, section : StartOf(h, p, x, knobs) = Grown(h, x.out, knobs, budget, section, least)
  BY DEF StartOf, KeptStart, least
<1>8. StartOf(h, p, x, knobs) \in T /\ StartOf(h, p, x, knobs) <= least
  <2>1. least <= least
    BY <1>1, <1>4
  <2> QED
    BY <1>4, <1>6, <1>7, <2>1
<1> QED
  BY <1>5, <1>8 DEF T


\* Runs of model output behind a place of a history.
Turns(h, from, to) == {i \in from + 1..to : Assistant(h[i]) /\ ~Assistant(h[i - 1])}
Kept(h, cut, least) == Cardinality(Turns(h, cut, Len(h))) >= least

\* What the head and the cut of a summary are, as far as the history goes to the cut.
Rooted(h, head, cut) ==
  /\ cut \in 1..Len(h) /\ head \in 0..cut - 1
  /\ \A i \in 1..head : ~Assistant(h[i])
  /\ head = 0 \/ MayEnd(h[head])
  /\ ~Assistant(h[cut])
Anchored(h, head, cut) == Rooted(h, head, cut) /\ (cut < Len(h) => Assistant(h[cut + 1]))

\* The working state of a replay with n messages fed.
Fed(h, x, n, least) ==
  /\ DOMAIN x = {"out", "head", "cut", "sum", "carry", "steps"}
  /\ x.cut \in 0..n /\ x.steps \in Nat
  /\ x.out = IF x.cut = 0 THEN Originals(h, 1, n) ELSE List(h, x.head, x.sum, x.cut, n)
  /\ x.cut # 0 => Anchored(h, x.head, x.cut)
  /\ x.steps # 0 => x.cut # 0 /\ Kept(h, x.cut, least)

LEMMA SameKind ==
  ASSUME NEW h, NEW i
  PROVE  /\ Assistant(Original(h, i)) <=> Assistant(h[i])
         /\ MayEnd(Original(h, i)) <=> MayEnd(h[i])
BY DEF Assistant, MayEnd, Original

LEMMA SummaryKind ==
  ASSUME NEW h, NEW s
  PROVE  ~Assistant(Summary(h, s)) /\ ~MayEnd(Summary(h, s))
BY DEF Assistant, MayEnd, Summary

\* What a compaction of x that keeps the list from s on leaves.
Cuts(h, x, n, s, head, cut) ==
  /\ head \in Nat /\ cut \in head + 1..n - 1 /\ s \in head + 3..Len(x.out)
  /\ Len(x.out) - s + cut + 1 = n
  /\ \A k \in head + 2..Len(x.out) : x.out[k] = Original(h, k - s + cut + 1)
  /\ \A i \in 1..head : ~Assistant(h[i])
  /\ head = 0 \/ MayEnd(h[head])
  /\ \A new : Summarizes(x.out, h, head, new, s, cut, n)

LEMMA FirstOriginals ==
  ASSUME NEW h, Len(h) \in Nat, NEW n \in Nat, n <= Len(h)
  PROVE  /\ Originals(h, 1, n) \in Seq(Items(h, {})) /\ Len(Originals(h, 1, n)) = n
         /\ \A i \in 1..n : Originals(h, 1, n)[i] = Original(h, i)
BY FirstAre

\* The first compaction cuts the history where it cuts the list.
LEMMA FirstCut ==
  ASSUME NEW h, Len(h) \in Nat, NEW n \in Nat, n <= Len(h), NEW x, x.cut = 0,
         x.out = Originals(h, 1, n), FirstModel(x.out) <= Len(x.out),
         NEW s \in TurnStarts(x.out), s >= HeadLen(x.out) + 3
  PROVE  Cuts(h, x, n, s, HeadLen(x.out), CutOf(x, s))
<1> DEFINE L == x.out
           head == HeadLen(L)
<1>1. Len(L) = n /\ DOMAIN L = 1..n /\ \A i \in 1..n : L[i] = Original(h, i)
  <2>1. /\ Originals(h, 1, n) \in Seq(Items(h, {})) /\ Len(Originals(h, 1, n)) = n
        /\ \A i \in 1..n : Originals(h, 1, n)[i] = Original(h, i)
    BY FirstOriginals
  <2>2. DOMAIN Originals(h, 1, n) = 1..n
    BY <2>1, LenProperties
  <2> QED
    BY <2>1, <2>2
<1>2. /\ FirstModel(L) \in 1..n + 1 /\ \A i \in 1..FirstModel(L) - 1 : ~Assistant(L[i])
      /\ head \in 0..FirstModel(L) - 1 /\ (head = 0 \/ MayEnd(L[head]))
  BY <1>1, HeadIs
<1>3. s \in head + 3..n
  <2>1. s \in head + 1..n
    BY <1>1, TurnsBehind
  <2> QED
    BY <1>2, <2>1
<1> HIDE DEF head
<1>4. CutOf(x, s) = s - 1
  BY DEF CutOf
<1>5. \A i \in 1..head : i \in 1..n /\ ~Assistant(h[i])
  <2>1. \A i \in 1..head : i \in 1..FirstModel(L) - 1 /\ i \in 1..n
    BY <1>2
  <2> QED
    BY <1>1, <1>2, <2>1, SameKind
<1>6. head = 0 \/ MayEnd(h[head])
  <2>1. head # 0 => head \in 1..n
    BY <1>2
  <2> QED
    BY <1>1, <1>2, <2>1, SameKind
<1>7. \A k \in head + 2..n : k \in 1..n /\ k - s + (s - 1) + 1 = k
  BY <1>2, <1>3
<1>8. \A k \in head + 2..Len(L) : L[k] = Original(h, k - s + (s - 1) + 1)
  BY <1>1, <1>7
<1>9. \A new : Summarizes(L, h, head, new, s, s - 1, n)
  <2>1. head \in Nat /\ s \in Nat /\ head < s /\ s <= n
    BY <1>2, <1>3
  <2>2. \A new : Summarizes(Originals(h, 1, n), h, head, new, s, s - 1, n)
    BY <2>1, FirstAdopted
  <2> QED
    BY <2>2
<1>10. head \in Nat /\ s - 1 \in head + 1..n - 1 /\ Len(L) - s + (s - 1) + 1 = n
  BY <1>1, <1>2, <1>3
<1> QED
  BY <1>1, <1>3, <1>4, <1>5, <1>6, <1>8, <1>9, <1>10 DEF Cuts, head


\* A later one finds the head it had, and its cut maps back through it.
LEMMA NextCut ==
  ASSUME NEW h, Len(h) \in Nat, NEW n \in Nat, n <= Len(h), NEW x, x.cut # 0, x.cut \in 0..n,
         Anchored(h, x.head, x.cut), x.out = List(h, x.head, x.sum, x.cut, n),
         FirstModel(x.out) <= Len(x.out), NEW s \in TurnStarts(x.out), s >= HeadLen(x.out) + 3
  PROVE  Cuts(h, x, n, s, HeadLen(x.out), CutOf(x, s))
<1> DEFINE L == x.out
           head == x.head
           cut == x.cut
           T == Items(h, {x.sum})
<1>1. head \in Nat /\ cut \in Nat /\ head < cut /\ head <= cut /\ cut <= n
  BY DEF Anchored, Rooted
<1>2. L \in Seq(T) /\ Listed(L, h, head, x.sum, cut, n)
  <2>1. x.sum \in {x.sum}
    OBVIOUS
  <2>2. /\ List(h, head, x.sum, cut, n) \in Seq(T)
        /\ Listed(List(h, head, x.sum, cut, n), h, head, x.sum, cut, n)
    BY <1>1, <2>1, ListIs
  <2> QED
    BY <2>2
<1> HIDE DEF T, L, head, cut
<1>3. Len(L) = head + 1 + n - cut /\ DOMAIN L = 1..Len(L)
  BY <1>2, LenProperties DEF Listed
<1> DEFINE f == FirstModel(L)
<1>4. /\ f \in 1..Len(L) + 1 /\ \A i \in 1..f - 1 : ~Assistant(L[i])
      /\ f <= Len(L) => Assistant(L[f])
      /\ HeadLen(L) \in 0..f - 1 /\ (HeadLen(L) = 0 \/ MayEnd(L[HeadLen(L)]))
      /\ \A k \in HeadLen(L) + 1..f - 1 : ~MayEnd(L[k])
  <2>1. Len(L) \in Nat
    BY <1>1, <1>3
  <2> QED
    BY <1>3, <2>1, HeadIs
<1> HIDE DEF f
<1>5. f <= Len(L)
  BY DEF f, L
\* The summary is no model output, and what follows it is.
<1>6. \A i \in 1..head + 1 : ~Assistant(L[i])
  <2>1. \A i \in 1..head : ~Assistant(L[i])
    BY <1>2, SameKind DEF Listed, Anchored, Rooted, head
  <2>2. ~Assistant(L[head + 1])
    BY <1>2, SummaryKind DEF Listed
  <2>3. \A i \in 1..head + 1 : i \in 1..head \/ i = head + 1
    BY <1>1
  <2> QED
    BY <2>1, <2>2, <2>3
<1>7. f >= head + 2
  BY <1>1, <1>4, <1>5, <1>6
<1>8. cut < n /\ Assistant(h[cut + 1])
  <2>1. cut < n
    BY <1>1, <1>3, <1>4, <1>5, <1>7
  <2> QED
    BY <2>1 DEF Anchored, cut
<1>9. L[head + 2] = Original(h, cut + 1)
  <2>1. PICK k \in head + 2..head + 1 + n - cut : k = head + 2 /\ k - head - 1 + cut = cut + 1
    BY <1>1, <1>8
  <2>2. L[k] = Original(h, k - head - 1 + cut)
    BY <1>2 DEF Listed
  <2> QED
    BY <2>1, <2>2
<1>10. f = head + 2
  <2>1. CASE f > head + 2
    <3>1. head + 2 \in 1..f - 1
      BY <1>1, <1>4, <2>1
    <3> QED
      BY <1>4, <1>8, <1>9, <3>1, SameKind
  <2> QED
    BY <1>1, <1>4, <1>7, <2>1
<1>11. HeadLen(L) = head
  <2>1. CASE HeadLen(L) = head + 1
    <3>1. L[head + 1] = Summary(h, x.sum)
      BY <1>2 DEF Listed
    <3> QED
      BY <1>1, <1>4, <2>1, <3>1, SummaryKind
  <2>2. CASE HeadLen(L) < head
    <3>1. head # 0 /\ head \in HeadLen(L) + 1..f - 1 /\ head \in 1..head
      BY <1>1, <1>4, <1>10, <2>2, SMTT(60)
    <3>2. L[head] = Original(h, head) /\ MayEnd(h[head])
      BY <1>2, <3>1 DEF Listed, Anchored, Rooted, head
    <3> QED
      BY <1>4, <3>1, <3>2, SameKind
  <2> QED
    BY <1>1, <1>4, <1>10, <2>1, <2>2, SMTT(60)
<1>12. s \in head + 3..Len(L)
  <2>1. Len(L) \in Nat
    BY <1>1, <1>3
  <2>2. s \in HeadLen(L) + 1..Len(L)
    BY <1>3, <2>1, TurnsBehind DEF L
  <2> QED
    BY <1>1, <1>11, <2>2 DEF L
<1> DEFINE new == cut + (s - 1 - (head + 1))
<1>13. CutOf(x, s) = new
  BY <1>1, <1>8 DEF CutOf, cut, head
<1>14. new \in head + 1..n - 1 /\ Len(L) - s + new + 1 = n
  BY <1>1, <1>3, <1>12
<1>15. \A k \in head + 2..Len(L) : L[k] = Original(h, k - s + new + 1)
  <2>1. \A k \in head + 2..Len(L) : k \in head + 2..head + 1 + n - cut /\ k - s + new + 1 = k - head - 1 + cut
    BY <1>1, <1>3, <1>12
  <2> QED
    BY <1>2, <2>1 DEF Listed
<1>16. \A sum : Summarizes(L, h, head, sum, s, new, n)
  <2>1. s \in Nat /\ head + 2 <= s /\ s <= head + 1 + n - cut
    BY <1>1, <1>3, <1>12
  <2>2. L = List(h, head, x.sum, cut, n)
    BY DEF L, head, cut
  <2> HIDE DEF L
  <2>3. \A sum : Summarizes(List(h, head, x.sum, cut, n), h, head, sum, s, new, n)
    BY <1>1, <2>1, NextAdopted
  <2> QED
    BY <2>2, <2>3
<1>17. (\A i \in 1..head : ~Assistant(h[i])) /\ (head = 0 \/ MayEnd(h[head]))
  BY DEF Anchored, Rooted, head
<1> HIDE DEF new
<1> QED
  BY <1>1, <1>11, <1>12, <1>13, <1>14, <1>15, <1>16, <1>17 DEF Cuts, L


\* Where a turn starts, a cut parts no turn and keeps what the list keeps.
LEMMA CutIsSound ==
  ASSUME NEW h, Len(h) \in Nat, NEW n \in Nat, n <= Len(h), NEW x, NEW s \in TurnStarts(x.out),
         Len(x.out) \in Nat, DOMAIN x.out = 1..Len(x.out), NEW cut,
         Cuts(h, x, n, s, HeadLen(x.out), cut)
  PROVE  /\ Anchored(h, HeadLen(x.out), cut)
         /\ \A least \in Nat : Cardinality(Above(TurnStarts(x.out), s)) >= least => Kept(h, cut, least)
<1> DEFINE L == x.out
           head == HeadLen(L)
           starts == TurnStarts(L)
           d == cut + 1 - s
<1>0. Len(L) \in Nat
  OBVIOUS
<1>1. /\ head \in Nat /\ cut \in head + 1..n - 1 /\ s \in head + 3..Len(L) /\ Len(L) - s + cut + 1 = n
      /\ \A k \in head + 2..Len(L) : L[k] = Original(h, k - s + cut + 1)
      /\ \A i \in 1..head : ~Assistant(h[i])
      /\ head = 0 \/ MayEnd(h[head])
  BY DEF Cuts
<1> HIDE DEF L, head
<1>a. /\ head \in Nat /\ cut \in Nat /\ cut >= head + 1 /\ s \in Int /\ s >= head + 3
      /\ Len(L) \in Int /\ Len(L) - s + cut + 1 = n
  BY <1>0, <1>1
<1> USE DEF L, head
<1>2. /\ starts \subseteq 0..Len(L)
      /\ \A k \in starts : k # head + 1 => Assistant(L[k]) /\ ~Assistant(L[k - 1])
  BY TurnsBehind
<1> HIDE DEF L, head, starts
<1>3. \A k \in head + 2..Len(L) : Assistant(L[k]) <=> Assistant(h[k + d])
  <2>1. \A k \in head + 2..Len(L) : k - s + cut + 1 = k + d
    BY <1>1
  <2> QED
    BY <1>1, <2>1, SameKind
<1>4. \A k \in starts : k >= s => /\ Assistant(h[k + d]) /\ ~Assistant(h[(k + d) - 1])
                                  /\ k + d \in cut + 1..Len(h)
  <2> SUFFICES ASSUME NEW k \in starts, k >= s
               PROVE  /\ Assistant(h[k + d]) /\ ~Assistant(h[(k + d) - 1]) /\ k + d \in cut + 1..Len(h)
    OBVIOUS
  <2>0. k \in Int /\ k <= Len(L)
    BY <1>0, <1>2
  <2>1. /\ k \in head + 2..Len(L) /\ k - 1 \in head + 2..Len(L) /\ k # head + 1
        /\ k - 1 + d = (k + d) - 1 /\ k + d \in cut + 1..Len(h)
    <3>1. /\ head \in Nat /\ cut \in Nat /\ cut >= head + 1 /\ s \in Int /\ s >= head + 3
          /\ Len(L) \in Int /\ Len(L) - s + cut + 1 = n /\ k \in Int /\ s <= k /\ k <= Len(L)
      BY <1>a, <2>0
    <3>2. k \in head + 2..Len(L) /\ k - 1 \in head + 2..Len(L) /\ k # head + 1
      BY <3>1
    <3>3. cut + 1 <= k + d /\ k + d <= n /\ k + d \in Int /\ k - 1 + d = (k + d) - 1
      BY <3>1
    <3>4. k + d <= Len(h)
      BY <3>3
    <3> QED
      BY <3>1, <3>2, <3>3, <3>4
  <2>2. Assistant(L[k]) /\ ~Assistant(L[k - 1])
    BY <1>2, <2>1
  <2>3. Assistant(L[k]) <=> Assistant(h[k + d])
    BY <1>3, <2>1
  <2>4. Assistant(L[k - 1]) <=> Assistant(h[(k + d) - 1])
    BY <1>3, <2>1
  <2> QED
    BY <2>1, <2>2, <2>3, <2>4
<1>5. Assistant(h[cut + 1]) /\ ~Assistant(h[cut])
  <2>1. s \in starts /\ s >= s /\ s + d = cut + 1 /\ (s + d) - 1 = cut
    BY <1>1 DEF starts, L
  <2> QED
    BY <1>4, <2>1
<1>6. Anchored(h, head, cut)
  <2>1. cut \in 1..Len(h) /\ head \in 0..cut - 1
    BY <1>1
  <2> QED
    BY <1>1, <1>5, <2>1 DEF Anchored, Rooted
<1>7. ASSUME NEW least \in Nat, Cardinality(Above(starts, s)) >= least
      PROVE  Kept(h, cut, least)
  <2> DEFINE S == Above(starts, s)
             T == Turns(h, cut, Len(h))
  <2>1. S \subseteq 0..Len(L) /\ T \subseteq 0..Len(h) /\ Len(L) \in Nat /\ d \in Int
    <3>1. S \subseteq 0..Len(L)
      BY <1>2 DEF Above
    <3>2. cut + 1 \in Nat /\ Len(L) \in Nat /\ d \in Int
      BY <1>0, <1>1, SMTT(60)
    <3>3. T \subseteq 0..Len(h)
      BY <3>2 DEF Turns
    <3> QED
      BY <3>1, <3>2, <3>3
  <2>2. \A k \in S : k + d \in T
    <3> HIDE DEF d
    <3>1. ASSUME NEW k \in starts, k >= s PROVE k + d \in T
      <4>0. Assistant(h[k + d]) /\ ~Assistant(h[(k + d) - 1]) /\ k + d \in cut + 1..Len(h)
        BY <1>4, <3>1, Zenon
      <4> QED
        BY <4>0, Zenon DEF Turns
    <3> QED
      BY <3>1 DEF Above
  <2> HIDE DEF S, T, d
  <2>3. Cardinality(S) <= Cardinality(T)
    BY <2>1, <2>2, Moved
  <2>4. Cardinality(S) \in Nat /\ Cardinality(T) \in Nat
    BY <2>1, Few
  <2>5. Cardinality(S) >= least
    BY <1>7 DEF S
  <2>6. Cardinality(T) >= least
    BY <2>3, <2>4, <2>5
  <2> QED
    BY <2>6 DEF Kept, T
<1> QED
  BY <1>6, <1>7 DEF head, L, starts

\* A compaction keeps the working state sound, ...
LEMMA TryFits ==
  ASSUME NEW h, Len(h) \in Nat, NEW n \in Nat, n <= Len(h), NEW p, NEW x, NEW knobs,
         knobs.keep \in Nat \ {0}, Fed(h, x, n, knobs.keep)
  PROVE  Fed(h, Try(h, p, x, knobs), n, knobs.keep)
<1> DEFINE L == x.out
           s == StartOf(h, p, x, knobs)
           sum == SummaryOf(L, s, Section(h, p, x), knobs)
           y == Adopted(h, p, x, s, HeadLen(L), sum)
<1>1. CASE Try(h, p, x, knobs) = x
  BY <1>1
<1>2. CASE Try(h, p, x, knobs) # x
  <2>1. /\ FirstModel(L) <= Len(L) /\ Cardinality(TurnStarts(L)) > knobs.keep
        /\ Reduces(L, s) /\ Try(h, p, x, knobs) = y
    BY <1>2 DEF Try, Keeping
  <2>2. Len(L) \in Nat /\ DOMAIN L = 1..Len(L)
    <3>1. CASE x.cut = 0
      BY <3>1, FirstOriginals, LenProperties DEF Fed
    <3>2. CASE x.cut # 0
      <4>1. /\ x.head \in Nat /\ x.cut \in Nat /\ x.head <= x.cut /\ x.cut <= n /\ x.sum \in {x.sum}
            /\ L = List(h, x.head, x.sum, x.cut, n)
        BY <3>2 DEF Fed, Anchored, Rooted
      <4>2. List(h, x.head, x.sum, x.cut, n) \in Seq(Items(h, {x.sum}))
        BY <4>1, ListIs
      <4> QED
        BY <4>1, <4>2, LenProperties
    <3> QED
      BY <3>1, <3>2
  <2>3. s \in TurnStarts(L) /\ Cardinality(Above(TurnStarts(L), s)) >= knobs.keep
    BY <2>1, <2>2, StartIs
  <2> HIDE DEF s, sum
  <2>4. s >= HeadLen(L) + 3
    BY <2>1 DEF Reduces
  <2>5. Cuts(h, x, n, s, HeadLen(L), CutOf(x, s))
    <3>1. CASE x.cut = 0
      BY <2>1, <2>3, <2>4, <3>1, FirstCut DEF Fed
    <3>2. CASE x.cut # 0
      BY <2>1, <2>3, <2>4, <3>2, NextCut DEF Fed
    <3> QED
      BY <3>1, <3>2
  <2>6. Anchored(h, HeadLen(L), CutOf(x, s)) /\ Kept(h, CutOf(x, s), knobs.keep)
    BY <2>2, <2>3, <2>5, CutIsSound
  <2>7. /\ DOMAIN y = {"out", "head", "cut", "sum", "carry", "steps"}
        /\ y.head = HeadLen(L) /\ y.cut = CutOf(x, s) /\ y.sum = sum /\ y.steps = x.steps + 1
        /\ y.out = SubSeq(L, 1, HeadLen(L)) \o <<Summary(h, sum)>> \o SubSeq(L, s, Len(L))
    BY DEF Fed, Adopted
  <2>8. y.out = List(h, HeadLen(L), sum, CutOf(x, s), n)
    BY <2>5, <2>7 DEF Cuts, Summarizes
  <2>9. CutOf(x, s) \in 0..n /\ HeadLen(L) \in Nat /\ CutOf(x, s) # 0 /\ x.steps + 1 \in Nat
    <3>1. CutOf(x, s) \in 0..n /\ HeadLen(L) \in Nat /\ CutOf(x, s) # 0
      BY <2>5 DEF Cuts
    <3>2. x.steps + 1 \in Nat
      BY DEF Fed
    <3> QED
      BY <3>1, <3>2
  <2> HIDE DEF y
  <2> QED
    BY <2>1, <2>6, <2>7, <2>8, <2>9 DEF Fed
<1> QED
  BY <1>1, <1>2


-----------------------------------------------------------------------------
(* A replay                                                                *)

\* A context in which a summary stands for what its cut says.
IsCut(c) ==
  /\ DOMAIN c = {"hist", "policy", "out", "head", "cut", "sum", "carry", "rung", "compacted",
                 "worst", "pending", "phase"}
  /\ Len(c.hist) \in Nat /\ c.cut \in 0..Len(c.hist)
  /\ c.cut # 0 => c.out = List(c.hist, c.head, c.sum, c.cut, Len(c.hist))
                  /\ Anchored(c.hist, c.head, c.cut)

LEMMA CrossingFits ==
  ASSUME NEW h, Len(h) \in Nat, NEW n \in Nat, n <= Len(h), NEW p, NEW x, NEW knobs, NEW must,
         knobs.keep \in Nat \ {0}, Fed(h, x, n, knobs.keep)
  PROVE  Fed(h, Crossing(h, p, x, knobs, must), n, knobs.keep)
<1>1. Crossing(h, p, x, knobs, must) \in {x, Try(h, p, x, knobs)}
  BY DEF Crossing
<1> QED
  BY <1>1, TryFits

\* ... and so does the next message, ...
LEMMA MoreFits ==
  ASSUME NEW h, Len(h) \in Nat, NEW n \in Nat, n + 1 <= Len(h), NEW x, NEW least, Fed(h, x, n, least)
  PROVE  Fed(h, [x EXCEPT !.out = Append(@, Original(h, n + 1))], n + 1, least)
<1> DEFINE y == [x EXCEPT !.out = Append(@, Original(h, n + 1))]
<1>1. /\ DOMAIN y = {"out", "head", "cut", "sum", "carry", "steps"}
      /\ y.out = Append(x.out, Original(h, n + 1))
      /\ y.head = x.head /\ y.cut = x.cut /\ y.sum = x.sum /\ y.steps = x.steps
  BY DEF Fed
<1> HIDE DEF y
<1>2. x.cut \in 0..n + 1 /\ n + 1 \in Nat
  BY DEF Fed
<1>3. CASE x.cut = 0
  <2>1. y.out = Originals(h, 1, n + 1)
    BY <1>1, <1>3, OriginalsGrow DEF Fed
  <2> QED
    BY <1>1, <1>2, <1>3, <2>1 DEF Fed, y
<1>4. CASE x.cut # 0
  <2>1. x.head \in Nat /\ x.cut \in Nat /\ x.head <= x.cut /\ x.cut <= n
    BY <1>4 DEF Fed, Anchored, Rooted
  <2>2. x.out = List(h, x.head, x.sum, x.cut, n)
    BY <1>4 DEF Fed
  <2>3. y.out = List(h, x.head, x.sum, x.cut, n + 1)
    BY <1>1, <2>1, <2>2, ListGrows
  <2> QED
    BY <1>1, <1>2, <1>4, <2>3 DEF Fed, y
<1> QED
  BY <1>3, <1>4

LEMMA StartFits ==
  ASSUME NEW c, IsCut(c), NEW least
  PROVE  Fed(c.hist, Start(c), c.cut, least)
<1> DEFINE h == c.hist
           y == Start(c)
<1>1. /\ DOMAIN y = {"out", "head", "cut", "sum", "carry", "steps"}
      /\ y.out = IF c.cut = 0 THEN <<>> ELSE SubSeq(c.out, 1, c.head + 1)
      /\ y.head = c.head /\ y.cut = c.cut /\ y.sum = c.sum /\ y.steps = 0
  BY DEF Start
<1> HIDE DEF y
<1>2. CASE c.cut = 0
  <2>1. Originals(h, 1, 0) = <<>>
    <3>1. Originals(h, 1, 0) \in Seq(Items(h, {})) /\ Len(Originals(h, 1, 0)) = 0
      BY FirstOriginals DEF IsCut
    <3> QED
      BY <3>1, EmptySeq
  <2> QED
    BY <1>1, <1>2, <2>1 DEF Fed, y
<1>3. CASE c.cut # 0
  <2>1. c.head \in Nat /\ c.cut \in Nat /\ c.head <= c.cut /\ c.cut <= Len(h) /\ Len(h) \in Nat
    BY <1>3 DEF IsCut, Anchored, Rooted
  <2>2. SubSeq(List(h, c.head, c.sum, c.cut, Len(h)), 1, c.head + 1) = List(h, c.head, c.sum, c.cut, c.cut)
    BY <2>1, StartOver
  <2>3. y.out = List(h, c.head, c.sum, c.cut, c.cut)
    BY <1>1, <1>3, <2>2 DEF IsCut
  <2> QED
    BY <1>1, <1>3, <2>1, <2>3 DEF Fed, IsCut, y
<1> QED
  BY <1>2, <1>3

\* ... so a whole replay does.
LEMMA ChainFits ==
  ASSUME NEW c, IsCut(c), NEW rung, Knobs(rung).keep \in Nat \ {0}
  PROVE  Fed(c.hist, Chain(c, rung), Len(c.hist), Knobs(rung).keep)
<1> DEFINE h == c.hist
           n == Len(h)
           least == Knobs(rung).keep
<1>0. n \in Nat /\ c.cut \in Nat /\ c.cut <= n
  BY DEF IsCut
<1>1. PICK fed : /\ fed[c.cut] = Start(c)
                 /\ \A i \in c.cut + 1..n + 1 : fed[i] = Feed(c, fed[i - 1], rung, i)
                 /\ Chain(c, rung) = fed[n + 1]
  BY <1>0, ChainIs
<1> DEFINE Bad == {i \in Nat : i >= c.cut /\ i <= n /\ ~Fed(h, fed[i], i, least)}
<1> HIDE DEF h, n, least
<1>2. Bad = {}
  <2>1. SUFFICES ASSUME Bad # {} PROVE FALSE
    OBVIOUS
  <2>2. PICK i \in Bad : \A j \in Bad : i <= j
    BY <2>1, Smallest
  <2>3. CASE i = c.cut
    BY <1>1, <2>2, <2>3, StartFits DEF h
  <2>4. CASE i # c.cut
    <3>1. PICK j \in Nat : i = j + 1 /\ j >= c.cut /\ j <= n
      BY <1>0, <2>2, <2>4
    <3>2. Fed(h, fed[j], j, least)
      BY <2>2, <3>1
    <3> DEFINE y == [fed[j] EXCEPT !.out = Append(@, Original(h, j + 1))]
    <3>3. Fed(h, y, j + 1, least)
      BY <1>0, <2>2, <3>1, <3>2, MoreFits DEF n
    <3>4. fed[i] = Crossing(h, c.policy, y, Knobs(rung), FALSE)
      <4>1. i \in c.cut + 1..n + 1 /\ i - 1 = j /\ i <= n
        BY <1>0, <2>2, <3>1
      <4>2. fed[i] = Feed(c, fed[j], rung, i)
        BY <1>1, <4>1
      <4> QED
        BY <3>1, <4>1, <4>2 DEF Feed, h, n
    <3> HIDE DEF y
    <3>5. Fed(h, fed[i], i, least)
      BY <1>0, <2>2, <3>1, <3>3, <3>4, CrossingFits DEF n, least
    <3> QED
      BY <2>2, <3>5
  <2> QED
    BY <2>3, <2>4
<1>3. Fed(h, fed[n], n, least)
  BY <1>0, <1>2
<1>4. fed[n + 1] \in {fed[n], Crossing(h, c.policy, fed[n], Knobs(rung), TRUE)}
  <2>1. n + 1 \in c.cut + 1..n + 1 /\ (n + 1) - 1 = n /\ ~(n + 1 <= n)
    BY <1>0
  <2>2. fed[n + 1] = Feed(c, fed[n], rung, n + 1)
    BY <1>1, <2>1
  <2> QED
    BY <2>1, <2>2 DEF Feed, h, n
<1>5. Fed(h, fed[n + 1], n, least)
  <2>1. n <= n /\ n = Len(h)
    BY <1>0 DEF n
  <2> QED
    BY <1>0, <1>3, <1>4, <2>1, CrossingFits DEF least
<1> QED
  BY <1>1, <1>5 DEF h, n, least


-----------------------------------------------------------------------------
(* What contexts and entries have to do with the client                    *)

\* Messages a conversation of a rewinding client starts with.
Opening == Min({Len(o) : o \in setup.openings})

\* A history of a client that answers each message but the last.
Answered(h) ==
  /\ Len(h) >= Opening
  /\ \A i \in 1..Opening : ~Assistant(h[i])
  /\ \A i \in Opening..Len(h) - 1 : ~Assistant(h[i]) => Assistant(h[i + 1])

Prefix(s, t) == Len(s) <= Len(t) /\ \A i \in 1..Len(s) : s[i] = t[i]
Known(h) == IF setup.rewinds THEN Answered(h) ELSE Prefix(h, history)

\* The turns a cut must leave, by the harshest setting that had a part in it.
Retained(worst) == IF worst = 0 THEN setup.keep ELSE 1
Lasting(h, cut, worst) == IF setup.rewinds THEN cut >= Opening ELSE Kept(h, cut, Retained(worst))

FineEntry(e) ==
  /\ e.key \in Seq(Message) /\ e.cut = Len(e.key) /\ e.worst \in 0..3
  /\ Rooted(e.key, e.head, e.cut)
  /\ IF setup.rewinds THEN e.cut >= Opening
     ELSE Prefix(e.key, history) /\ Anchored(history, e.head, e.cut) /\ Kept(history, e.cut, Retained(e.worst))
Stock(s) == \E T : s \in Seq(T) /\ \A e \in T : FineEntry(e)

Fine(c) ==
  /\ IsCut(c) /\ c.hist \in Seq(Message) /\ c.worst \in 0..3 /\ c.rung \in 0..3
  /\ c.phase # "idle" => Known(c.hist)
  /\ c.cut # 0 => Lasting(c.hist, c.cut, c.worst)
  /\ Stock(c.pending)

\* What all of it rests on.
Client ==
  /\ setup \in Setups /\ setup.keep \in Nat \ {0} /\ setup.rewinds \in BOOLEAN
  /\ Opening \in Nat \ {0}
  /\ history \in Seq(Message)
  /\ setup.rewinds => Answered(history)

LEMMA KeptLess ==
  ASSUME NEW h, Len(h) \in Nat, NEW cut \in Nat, NEW more \in Nat, NEW less \in Nat, less <= more,
         Kept(h, cut, more)
  PROVE  Kept(h, cut, less)
<1>1. Turns(h, cut, Len(h)) \subseteq 0..Len(h)
  BY DEF Turns
<1>2. Cardinality(Turns(h, cut, Len(h))) \in Nat
  BY <1>1, Few
<1> QED
  BY <1>2 DEF Kept

LEMMA KeptSome ==
  ASSUME NEW h, Len(h) \in Nat, NEW cut \in Nat, NEW least \in Nat \ {0}, Kept(h, cut, least)
  PROVE  cut < Len(h)
<1>1. CASE cut >= Len(h)
  <2>1. cut + 1..Len(h) = {}
    BY <1>1
  <2>2. Turns(h, cut, Len(h)) = {}
    BY <2>1 DEF Turns
  <2> QED
    BY <2>2, FS_EmptySet DEF Kept
<1> QED
  BY <1>1

\* A history that has more to it has as many turns behind the cut.
LEMMA KeptInMore ==
  ASSUME NEW h, NEW g, Len(h) \in Nat, Len(g) \in Nat, NEW cut \in Nat \ {0}, NEW least \in Nat,
         Prefix(h, g), Kept(h, cut, least)
  PROVE  Kept(g, cut, least)
<1> DEFINE S == Turns(h, cut, Len(h))
           T == Turns(g, cut, Len(g))
<1>1. S \subseteq 0..Len(h) /\ T \subseteq 0..Len(g)
  BY DEF Turns
<1>2. \A i \in cut + 1..Len(h) : /\ i \in 1..Len(h) /\ i - 1 \in 1..Len(h) /\ i \in cut + 1..Len(g)
                                 /\ h[i] = g[i] /\ h[i - 1] = g[i - 1]
  BY DEF Prefix
<1>3. S \subseteq T
  BY <1>2 DEF Turns
<1> HIDE DEF S, T
<1>4. IsFiniteSet(T) /\ Cardinality(S) \in Nat /\ Cardinality(T) \in Nat
  BY <1>1, Few
<1>5. Cardinality(S) <= Cardinality(T)
  BY <1>3, <1>4, FS_Subset
<1>6. Cardinality(S) >= least
  BY DEF Kept, S
<1>7. Cardinality(T) >= least
  BY <1>4, <1>5, <1>6
<1> QED
  BY <1>7 DEF Kept, T

\* As far as it goes to the cut, the longer history is the same.
LEMMA RootedInMore ==
  ASSUME NEW h, NEW g, Len(h) \in Nat, Len(g) \in Nat, NEW head, NEW cut,
         Prefix(h, g), Rooted(h, head, cut)
  PROVE  Rooted(g, head, cut)
<1>1. cut \in 1..Len(g) /\ h[cut] = g[cut]
  BY DEF Prefix, Rooted
<1>2. \A i \in 1..head : h[i] = g[i]
  BY DEF Prefix, Rooted
<1>3. head # 0 => h[head] = g[head]
  BY <1>2 DEF Rooted
<1> QED
  BY <1>1, <1>2, <1>3 DEF Rooted

LEMMA AnchoredInMore ==
  ASSUME NEW h, NEW g, Len(h) \in Nat, Len(g) \in Nat, NEW head, NEW cut,
         Prefix(h, g), Anchored(h, head, cut), cut < Len(h)
  PROVE  Anchored(g, head, cut)
<1>1. cut + 1 \in 1..Len(h)
  BY DEF Anchored, Rooted
<1> QED
  BY <1>1, RootedInMore DEF Anchored, Prefix

LEMMA DueIs ==
  ASSUME Client, NEW worst
  PROVE  Retained(worst) \in Nat \ {0} /\ Retained(worst) <= setup.keep
BY DEF Retained, Client


\* What a replay kept is what its setting owes the client.
LEMMA Lasts ==
  ASSUME Client, NEW h, Len(h) \in Nat, Known(h), NEW head, NEW cut, Anchored(h, head, cut),
         NEW keep \in Nat \ {0}, Kept(h, cut, keep), NEW worst, Retained(worst) <= keep
  PROVE  Lasting(h, cut, worst)
<1>1. cut \in Nat /\ cut \in 1..Len(h)
  BY DEF Anchored, Rooted
<1>2. CASE ~setup.rewinds
  <2>1. Retained(worst) \in Nat
    BY DueIs
  <2> QED
    BY <1>1, <1>2, <2>1, KeptLess DEF Lasting
<1>3. CASE setup.rewinds
  <2>1. cut < Len(h)
    BY <1>1, KeptSome
  <2>2. Assistant(h[cut + 1])
    BY <2>1 DEF Anchored
  <2>3. ~(cut + 1 \in 1..Opening)
    BY <1>3, <2>2 DEF Known, Answered
  <2>4. cut >= Opening
    BY <1>1, <2>3 DEF Client
  <2> QED
    BY <1>3, <2>4 DEF Lasting
<1> QED
  BY <1>2, <1>3

\* What a context would remember is a sound entry.
LEMMA EntryFits ==
  ASSUME Client, NEW c, Fine(c), c.cut # 0, c.phase # "idle"
  PROVE  FineEntry(EntryOf(c))
<1> DEFINE h == c.hist
           k == SubSeq(h, 1, c.cut)
           e == EntryOf(c)
<1>1. /\ h \in Seq(Message) /\ Len(h) \in Nat /\ Anchored(h, c.head, c.cut) /\ Known(h)
      /\ Lasting(h, c.cut, c.worst) /\ c.worst \in 0..3
  BY DEF Fine, IsCut
<1>2. /\ e.key = k /\ e.cut = c.cut /\ e.head = c.head /\ e.worst = c.worst
  BY DEF EntryOf
<1> HIDE DEF h, e
<1>3. c.cut \in 1..Len(h) /\ c.head \in 0..c.cut - 1
  BY <1>1 DEF Anchored, Rooted
<1>4. k \in Seq(Message) /\ Len(k) = c.cut /\ \A i \in 1..c.cut : k[i] = h[i]
  <2>1. 1 \in Int /\ c.cut \in Int /\ 1 <= c.cut /\ \A i \in 1..c.cut : h[i] \in Message
    BY <1>1, <1>3, ElementOfSeq
  <2>2. /\ k \in Seq(Message) /\ Len(k) = IF 1 <= c.cut THEN c.cut - 1 + 1 ELSE 0
        /\ \A i \in 1..c.cut - 1 + 1 : k[i] = h[1 + i - 1]
    BY <2>1, SubSeqProperties
  <2>3. c.cut - 1 + 1 = c.cut /\ \A i \in 1..c.cut : 1 + i - 1 = i
    BY <1>3
  <2> QED
    BY <2>1, <2>2, <2>3
<1> HIDE DEF k
<1>5. Prefix(k, h)
  BY <1>3, <1>4 DEF Prefix
<1>6. Rooted(k, c.head, c.cut)
  <2>1. \A i \in 1..c.head : i \in 1..c.cut
    BY <1>3
  <2>2. c.head # 0 => c.head \in 1..c.cut
    BY <1>3
  <2>3. c.cut \in 1..c.cut
    BY <1>3
  <2> QED
    BY <1>1, <1>3, <1>4, <2>1, <2>2, <2>3 DEF Anchored, Rooted
<1>7. CASE setup.rewinds
  BY <1>1, <1>2, <1>4, <1>6, <1>7 DEF FineEntry, Lasting, e
<1>8. CASE ~setup.rewinds
  <2>1. Prefix(h, history) /\ Len(history) \in Nat /\ Kept(h, c.cut, Retained(c.worst))
    BY <1>1, <1>8 DEF Known, Client, Lasting
  <2>2. Retained(c.worst) \in Nat \ {0}
    BY DueIs
  <2>3. c.cut < Len(h)
    BY <1>1, <1>3, <2>1, <2>2, KeptSome
  <2>4. Anchored(history, c.head, c.cut)
    BY <1>1, <2>1, <2>3, AnchoredInMore
  <2>5. Kept(history, c.cut, Retained(c.worst))
    BY <1>1, <1>3, <2>1, <2>2, KeptInMore
  <2>6. Prefix(k, history)
    BY <1>1, <1>3, <1>4, <2>1, SMTT(60) DEF Prefix
  <2> QED
    BY <1>1, <1>2, <1>4, <1>6, <1>8, <2>4, <2>5, <2>6 DEF FineEntry, e
<1> QED
  BY <1>7, <1>8

LEMMA StockGrows ==
  ASSUME NEW s, NEW e, Stock(s), FineEntry(e)
  PROVE  Stock(Append(s, e))
<1>1. PICK T : s \in Seq(T) /\ \A o \in T : FineEntry(o)
  BY DEF Stock
<1> DEFINE U == T \cup {e}
<1>2. s \in Seq(U) /\ e \in U /\ \A o \in U : FineEntry(o)
  BY <1>1, SeqMonotonic
<1> HIDE DEF U
<1>3. Append(s, e) \in Seq(U)
  BY <1>2, AppendProperties
<1> QED
  BY <1>2, <1>3 DEF Stock

LEMMA RememberedFits ==
  ASSUME Client, NEW c, Fine(c), c.cut # 0, c.phase # "idle"
  PROVE  Fine(Remembered(c))
<1> DEFINE d == Remembered(c)
<1>1. /\ DOMAIN d = DOMAIN c /\ d.pending = Append(c.pending, EntryOf(c))
      /\ d.hist = c.hist /\ d.out = c.out /\ d.head = c.head /\ d.cut = c.cut /\ d.sum = c.sum
      /\ d.worst = c.worst /\ d.rung = c.rung /\ d.phase = c.phase
  BY DEF Remembered, Fine, IsCut
<1> HIDE DEF d
<1>2. Stock(d.pending)
  BY <1>1, EntryFits, StockGrows DEF Fine
<1> QED
  BY <1>1, <1>2 DEF Fine, IsCut, d


\* A rung that replays the crossings.
LEMMA CompactedFits ==
  ASSUME Client, NEW c, Fine(c), c.phase # "idle", NEW rung \in {0, 1, 2, 4}
  PROVE  Fine(Compacted(c, rung)) /\ Compacted(c, rung).phase = c.phase
<1> DEFINE x == Chain(c, rung)
           least == Knobs(rung).keep
           k == IF rung = First THEN 1 ELSE rung
           worst == Max({c.worst, k})
           d == [c EXCEPT !.out = x.out, !.head = x.head, !.cut = x.cut, !.sum = x.sum,
                          !.carry = x.carry, !.compacted = TRUE, !.worst = worst,
                          !.rung = IF rung = First THEN @ ELSE rung]
<1>1. Compacted(c, rung) = IF x.steps = 0 THEN c ELSE Remembered(d)
  BY DEF Compacted, Adopting
<1>2. least \in Nat \ {0} /\ least = IF rung \in {0, 4} THEN setup.keep ELSE 1
  BY DEF Knobs, Base, First, Client
<1>3. Fed(c.hist, x, Len(c.hist), least)
  BY <1>2, ChainFits DEF Fine
<1>4. worst \in 0..3 /\ worst >= k
  <2>1. {c.worst, k} \subseteq 0..3 /\ {c.worst, k} # {}
    BY DEF Fine, First
  <2> HIDE DEF k
  <2>2. worst \in {c.worst, k} /\ \A y \in {c.worst, k} : y <= worst
    BY <2>1, MaxIs
  <2>3. k \in Int /\ worst \in 0..3 /\ k <= worst
    BY <2>1, <2>2
  <2> HIDE DEF worst
  <2> QED
    BY <2>3
<1> HIDE DEF worst, x, least
<1>5. Retained(worst) <= least
  <2>1. CASE rung \in {0, 4}
    BY <1>2, <2>1, DueIs
  <2>2. CASE rung \notin {0, 4}
    <3>1. worst # 0
      BY <1>4, <2>2 DEF First
    <3> QED
      BY <1>2, <2>2, <3>1 DEF Retained
  <2> QED
    BY <2>1, <2>2
<1>6. CASE x.steps # 0
  <2>1. /\ DOMAIN d = DOMAIN c /\ d.hist = c.hist /\ d.out = x.out /\ d.head = x.head /\ d.cut = x.cut
        /\ d.sum = x.sum /\ d.worst = worst /\ d.pending = c.pending /\ d.phase = c.phase
        /\ d.rung = IF rung = First THEN c.rung ELSE rung
    BY DEF Fine, IsCut
  <2> HIDE DEF d
  <2>2. /\ x.cut # 0 /\ x.cut \in 0..Len(c.hist) /\ Kept(c.hist, x.cut, least)
        /\ Anchored(c.hist, x.head, x.cut)
        /\ x.out = List(c.hist, x.head, x.sum, x.cut, Len(c.hist))
    BY <1>3, <1>6 DEF Fed
  <2>3. Lasting(c.hist, x.cut, worst)
    <3>1. Len(c.hist) \in Nat /\ Known(c.hist)
      BY DEF Fine, IsCut
    <3> QED
      BY <1>2, <1>5, <2>2, <3>1, Lasts
  <2>4. d.rung \in 0..3
    BY <2>1 DEF Fine, First
  <2>5. Fine(d)
    BY <1>4, <2>1, <2>2, <2>3, <2>4 DEF Fine, IsCut
  <2>6. Fine(Remembered(d)) /\ Remembered(d).phase = d.phase
    <3>1. Fine(Remembered(d))
      BY <2>1, <2>2, <2>5, RememberedFits
    <3>2. Remembered(d).phase = d.phase
      BY <2>5 DEF Remembered, Fine, IsCut
    <3> QED
      BY <3>1, <3>2
  <2> QED
    BY <1>1, <1>6, <2>1, <2>6
<1> QED
  BY <1>1, <1>6

\* Another summary in the place of the old one.
Resummarizes(L, h, head, new, cut) ==
  [L EXCEPT ![head + 1] = Summary(h, new)] = List(h, head, new, cut, Len(h))

LEMMA Resummarized ==
  ASSUME NEW h, NEW old, NEW new, Len(h) \in Nat,
         NEW head \in Nat, NEW cut \in Nat, head <= cut, cut <= Len(h)
  PROVE  Resummarizes(List(h, head, old, cut, Len(h)), h, head, new, cut)
<1> DEFINE L == List(h, head, old, cut, Len(h))
           e == Summary(h, new)
           R == [L EXCEPT ![head + 1] = e]
           T == Items(h, {old, new})
<1>1. L \in Seq(T) /\ Listed(L, h, head, old, cut, Len(h))
  <2>1. old \in {old, new} /\ Len(h) <= Len(h)
    OBVIOUS
  <2> QED
    BY <2>1, ListIs
<1>2. e \in T
  BY DEF Items
<1> HIDE DEF L, e, T
<1>3. Len(L) = head + 1 + Len(h) - cut /\ head + 1 \in 1..Len(L)
  BY <1>1 DEF Listed
<1>4. R \in Seq(T) /\ Len(R) = Len(L) /\ \A i \in 1..Len(L) : R[i] = IF i = head + 1 THEN e ELSE L[i]
  BY <1>1, <1>2, <1>3, ExceptSeq
<1> HIDE DEF R
<1>5. /\ \A i \in 1..head : i \in 1..Len(L) /\ i # head + 1
      /\ \A i \in head + 2..head + 1 + Len(h) - cut : i \in 1..Len(L) /\ i # head + 1
  BY <1>3
<1>6. Listed(R, h, head, new, cut, Len(h))
  BY <1>1, <1>3, <1>4, <1>5 DEF Listed, e
<1>7. new \in {new} /\ Len(h) <= Len(h)
  OBVIOUS
<1>8. R = List(h, head, new, cut, Len(h))
  BY <1>4, <1>6, <1>7, ListOf
<1> QED
  BY <1>8 DEF R, L, e, Resummarizes

\* The rung that shortens the summary in place.
LEMMA TruncatedFits ==
  ASSUME Client, NEW c, Fine(c), c.phase # "idle"
  PROVE  Fine(Truncated(c)) /\ Truncated(c).phase = c.phase
<1>1. CASE Truncated(c) = c
  BY <1>1
<1>2. CASE Truncated(c) # c
  <2>1. c.cut # 0 /\ \E new : Truncated(c) = Without(c, new)
    BY <1>2 DEF Truncated
  <2>2. PICK new : Truncated(c) = Without(c, new)
    BY <2>1
  <2> DEFINE d == [c EXCEPT !.sum = new, !.out[c.head + 1] = Summary(c.hist, new),
                            !.carry = {}, !.worst = 3, !.rung = 3]
  <2>3. /\ DOMAIN d = DOMAIN c /\ d.hist = c.hist /\ d.head = c.head /\ d.cut = c.cut
        /\ d.out = [c.out EXCEPT ![c.head + 1] = Summary(c.hist, new)]
        /\ d.sum = new /\ d.worst = 3 /\ d.pending = c.pending /\ d.phase = c.phase /\ d.rung = 3
    BY DEF Fine, IsCut
  <2>4. Truncated(c) = Remembered(d)
    BY <2>2 DEF Without
  <2> HIDE DEF d
  <2>5. c.out = List(c.hist, c.head, c.sum, c.cut, Len(c.hist)) /\ Anchored(c.hist, c.head, c.cut)
        /\ Len(c.hist) \in Nat /\ Lasting(c.hist, c.cut, c.worst)
    BY <2>1 DEF Fine, IsCut
  <2>6. c.head \in Nat /\ c.cut \in Nat /\ c.head <= c.cut /\ c.cut <= Len(c.hist)
    BY <2>5 DEF Anchored, Rooted
  <2>7. d.out = List(c.hist, c.head, new, c.cut, Len(c.hist))
    <3>1. Resummarizes(List(c.hist, c.head, c.sum, c.cut, Len(c.hist)), c.hist, c.head, new, c.cut)
      BY <2>5, <2>6, Resummarized
    <3>2. [c.out EXCEPT ![c.head + 1] = Summary(c.hist, new)]
            = List(c.hist, c.head, new, c.cut, Len(c.hist))
      BY <2>5, <3>1, Zenon DEF Resummarizes
    <3> QED
      BY <2>3, <3>2
  <2>8. Lasting(c.hist, c.cut, 3)
    <3>1. Retained(3) = 1 /\ Retained(c.worst) \in Nat \ {0}
      BY DueIs DEF Retained
    <3>2. 1 \in Nat /\ 1 <= Retained(c.worst)
      BY <3>1
    <3>3. Kept(c.hist, c.cut, Retained(c.worst)) => Kept(c.hist, c.cut, 1)
      BY <2>5, <2>6, <3>1, <3>2, KeptLess
    <3> QED
      BY <2>5, <3>1, <3>3 DEF Lasting
  <2>9. Fine(d)
    BY <2>1, <2>3, <2>5, <2>7, <2>8 DEF Fine, IsCut
  <2>10. Fine(Remembered(d))
    BY <2>1, <2>3, <2>9, RememberedFits
  <2>11. Remembered(d).phase = d.phase
    BY <2>9 DEF Remembered, Fine, IsCut
  <2> QED
    BY <2>3, <2>4, <2>10, <2>11
<1> QED
  BY <1>1, <1>2

LEMMA OnRungFits ==
  ASSUME Client, NEW c, Fine(c), c.phase # "idle", NEW rung \in 0..4
  PROVE  Fine(OnRung(c, rung)) /\ OnRung(c, rung).phase = c.phase
<1>1. CASE rung = 3
  BY <1>1, TruncatedFits DEF OnRung
<1>2. CASE rung # 3
  <2>1. rung \in {0, 1, 2, 4}
    BY <1>2
  <2> QED
    BY <1>2, <2>1, CompactedFits DEF OnRung
<1> QED
  BY <1>1, <1>2

LEMMA ClimbFits ==
  ASSUME Client, NEW c, Fine(c), c.phase # "idle", NEW rung \in 0..4
  PROVE  Fine(Climb(c, rung)) /\ Climb(c, rung).phase = c.phase
BY OnRungFits DEF Climb


-----------------------------------------------------------------------------
(* Preparing a request                                                     *)

\* The first n members of a sequence.
LEMMA FirstPart ==
  ASSUME NEW S, NEW s \in Seq(S), NEW n \in 0..Len(s)
  PROVE  /\ SubSeq(s, 1, n) \in Seq(S) /\ Len(SubSeq(s, 1, n)) = n
         /\ \A i \in 1..n : SubSeq(s, 1, n)[i] = s[i]
<1>1. 1 \in Int /\ n \in Int /\ \A i \in 1..n : s[i] \in S
  BY ElementOfSeq
<1>2. /\ SubSeq(s, 1, n) \in Seq(S) /\ Len(SubSeq(s, 1, n)) = IF 1 <= n THEN n - 1 + 1 ELSE 0
      /\ \A i \in 1..n - 1 + 1 : SubSeq(s, 1, n)[i] = s[1 + i - 1]
  BY <1>1, SubSeqProperties
<1>3. n - 1 + 1 = n /\ (~(1 <= n) => n = 0) /\ \A i \in 1..n : 1 + i - 1 = i
  OBVIOUS
<1> QED
  BY <1>2, <1>3

LEMMA PrefixIs ==
  ASSUME NEW S, NEW s \in Seq(S), NEW t \in Seq(S), IsPrefix(s, t)
  PROVE  Prefix(s, t)
<1>1. Len(s) \in 0..Len(s) /\ Len(s) \in 0..Len(t)
  BY LenProperties DEF IsPrefix
<1>2. \A i \in 1..Len(s) : SubSeq(s, 1, Len(s))[i] = s[i]
  BY <1>1, FirstPart
<1>3. \A i \in 1..Len(s) : SubSeq(t, 1, Len(s))[i] = t[i]
  BY <1>1, FirstPart
<1> QED
  BY <1>2, <1>3 DEF IsPrefix, Prefix

LEMMA NothingIsStock == Stock(<<>>)
<1>1. <<>> \in Seq({}) /\ \A e \in {} : FineEntry(e)
  OBVIOUS
<1>2. PICK T : T = {}
  OBVIOUS
<1>3. <<>> \in Seq(T) /\ \A e \in T : FineEntry(e)
  BY <1>2
<1> QED
  BY <1>3 DEF Stock

LEMMA BlankFits ==
  ASSUME NEW h \in Seq(Message), NEW p, Known(h)
  PROVE  Fine(Blank(h, p)) /\ Blank(h, p).phase # "idle"
<1>1. Len(h) \in Nat
  BY LenProperties
<1> QED
  BY <1>1, NothingIsStock DEF Blank, Fine, IsCut

LEMMA IdleFits == Fine(Idle) /\ Idle.phase = "idle" /\ Idle.cut = 0
<1>1. <<>> \in Seq(Message) /\ Len(<<>>) = 0
  BY EmptySeq
<1> QED
  BY <1>1, NothingIsStock DEF Idle, Blank, Fine, IsCut

\* An entry that is taken up serves the request as it served the one it is from.
LEMMA ResumedFits ==
  ASSUME Client, Known(history), NEW p, NEW e, FineEntry(e), IsPrefix(e.key, history)
  PROVE  /\ Fine(Resumed(Blank(history, p), e))
         /\ Resumed(Blank(history, p), e).phase # "idle"
         /\ Resumed(Blank(history, p), e).hist = history
<1> DEFINE h == history
           b == Blank(h, p)
           d == Resumed(b, e)
<1>0. h \in Seq(Message) /\ Len(h) \in Nat
  BY LenProperties DEF Client
<1>1. Fine(b) /\ b.phase # "idle" /\ b.hist = h /\ b.cut = 0
  BY <1>0, BlankFits DEF Blank
<1>2. e.cut = Len(e.key) /\ e.head <= e.cut /\ Rooted(e.key, e.head, e.cut) /\ e.key \in Seq(Message)
  BY DEF FineEntry, Rooted
<1>3. d = [b EXCEPT !.out = Splice(h, e.head, e.sum, e.cut), !.head = e.head, !.cut = e.cut,
                    !.sum = e.sum, !.carry = e.carry, !.worst = e.worst]
  BY <1>1, <1>2 DEF Resumed, Rooted
<1> HIDE DEF b
<1>4. /\ DOMAIN d = DOMAIN b /\ d.hist = h /\ d.out = List(h, e.head, e.sum, e.cut, Len(h))
      /\ d.head = e.head /\ d.cut = e.cut /\ d.sum = e.sum /\ d.worst = e.worst
      /\ d.pending = b.pending /\ d.phase = b.phase /\ d.rung = b.rung
  BY <1>1, <1>3 DEF Fine, IsCut, Splice, List
<1> HIDE DEF d
<1>5. Prefix(e.key, h)
  BY <1>0, <1>2, PrefixIs
<1>6. Rooted(h, e.head, e.cut)
  BY <1>0, <1>2, <1>5, RootedInMore, LenProperties
<1>7. Anchored(h, e.head, e.cut) /\ Lasting(h, e.cut, e.worst)
  <2>1. CASE setup.rewinds
    <3>1. e.cut >= Opening /\ Answered(h)
      BY <2>1 DEF FineEntry, Client
    <3>2. e.cut < Len(h) => e.cut \in Opening..Len(h) - 1
      BY <1>0, <1>6, <3>1 DEF Rooted, Client
    <3>3. e.cut < Len(h) => Assistant(h[e.cut + 1])
      BY <1>6, <3>1, <3>2 DEF Answered, Rooted
    <3> QED
      BY <1>6, <2>1, <3>1, <3>3 DEF Anchored, Lasting
  <2>2. CASE ~setup.rewinds
    BY <2>2 DEF FineEntry, Lasting
  <2> QED
    BY <2>1, <2>2
<1>8. e.cut \in 0..Len(h) /\ e.worst \in 0..3
  BY <1>6 DEF Rooted, FineEntry
<1>9. Fine(d)
  BY <1>1, <1>4, <1>7, <1>8 DEF Fine, IsCut
<1> QED
  BY <1>1, <1>4, <1>9 DEF d, b

LEMMA LongestIs ==
  ASSUME NEW h \in Seq(Message), NEW p, NEW entries, Stock(entries), Found(h, p, entries) # {}
  PROVE  Longest(entries, Found(h, p, entries)) \in Found(h, p, entries)
<1> DEFINE S == Found(h, p, entries)
           N == {Len(entries[i].key) : i \in S}
<1>1. \A i \in S : Len(entries[i].key) \in 0..Len(h)
  <2>1. PICK T : entries \in Seq(T) /\ \A e \in T : FineEntry(e)
    BY DEF Stock
  <2>2. \A i \in S : entries[i] \in T /\ IsPrefix(entries[i].key, h)
    BY <2>1, LenProperties, ElementOfSeq DEF Found, Usable
  <2>3. \A i \in S : Len(entries[i].key) \in Nat
    BY <2>1, <2>2, LenProperties DEF FineEntry
  <2>4. Len(h) \in Nat
    BY LenProperties
  <2> QED
    BY <2>2, <2>3, <2>4 DEF IsPrefix
<1>2. Len(h) \in Nat /\ N \subseteq 0..Len(h) /\ N # {}
  <2>1. S # {}
    OBVIOUS
  <2> HIDE DEF S
  <2> QED
    <3>1. N # {}
      BY <2>1
    <3>2. N \subseteq 0..Len(h)
      BY <1>1
    <3>3. Len(h) \in Nat
      BY LenProperties
    <3> QED
      BY <3>1, <3>2, <3>3
<1>3. PICK m \in N : \A k \in N : k <= m
  BY <1>2, MaxIs
<1>4. \E i \in S : \A j \in S : Len(entries[j].key) <= Len(entries[i].key)
  BY <1>3
<1> QED
  BY <1>4 DEF Longest

LEMMA SubstitutedFits ==
  ASSUME Client, Known(history), NEW p, NEW entries, Stock(entries)
  PROVE  /\ Fine(Substituted(history, p, entries))
         /\ Substituted(history, p, entries).phase # "idle"
         /\ Substituted(history, p, entries).hist = history
<1>0. history \in Seq(Message)
  BY DEF Client
<1>1. CASE Found(history, p, entries) = {}
  <2>1. Blank(history, p).hist = history
    BY DEF Blank
  <2> QED
    BY <1>0, <1>1, <2>1, BlankFits DEF Substituted
<1>2. CASE Found(history, p, entries) # {}
  <2> DEFINE i == Longest(entries, Found(history, p, entries))
             e == entries[i]
  <2>1. i \in Found(history, p, entries)
    BY <1>0, <1>2, LongestIs
  <2>2. FineEntry(e)
    <3>1. PICK T : entries \in Seq(T) /\ \A o \in T : FineEntry(o)
      BY DEF Stock
    <3>2. i \in 1..Len(entries)
      BY <2>1, <3>1, LenProperties DEF Found
    <3> HIDE DEF i
    <3> QED
      BY <3>1, <3>2, ElementOfSeq
  <2>3. IsPrefix(e.key, history)
    BY <2>1 DEF Found, Usable
  <2>4. Substituted(history, p, entries) = Resumed(Blank(history, p), e)
    BY <1>2 DEF Substituted
  <2> HIDE DEF e
  <2> QED
    BY <2>2, <2>3, <2>4, ResumedFits
<1> QED
  BY <1>1, <1>2

LEMMA PrepareFits ==
  ASSUME Client, Known(history), NEW p, NEW entries, Stock(entries)
  PROVE  Fine(Prepare(history, p, entries)) /\ Prepare(history, p, entries).phase # "idle"
<1> DEFINE a == Substituted(history, p, entries)
           b == Climb(a, Base)
           c == Climb(b, 1)
           d == Climb(c, 2)
<1>1. Fine(a) /\ a.phase # "idle"
  BY SubstitutedFits
<1> HIDE DEF a
<1>2. Fine(b) /\ b.phase # "idle"
  BY <1>1, ClimbFits DEF Base
<1> HIDE DEF b
<1>3. Fine(c) /\ c.phase # "idle"
  BY <1>2, ClimbFits
<1> HIDE DEF c
<1>4. Fine(d) /\ d.phase # "idle"
  BY <1>3, ClimbFits
<1> HIDE DEF d
<1>5. Fine(Climb(d, 3)) /\ Climb(d, 3).phase # "idle"
  BY <1>4, ClimbFits
<1>6. Prepare(history, p, entries) \in {d, Climb(d, 3)}
  BY DEF Prepare, a, b, c, d
<1> QED
  BY <1>4, <1>5, <1>6


-----------------------------------------------------------------------------
(* The prefix store                                                        *)

LEMMA StockMembers ==
  ASSUME NEW s, Stock(s)
  PROVE  Len(s) \in Nat /\ DOMAIN s = 1..Len(s) /\ \A i \in 1..Len(s) : FineEntry(s[i])
<1>1. PICK T : s \in Seq(T) /\ \A o \in T : FineEntry(o)
  BY DEF Stock
<1>2. Len(s) \in Nat /\ DOMAIN s = 1..Len(s)
  BY <1>1, LenProperties
<1>3. \A i \in 1..Len(s) : s[i] \in T
  BY <1>1, ElementOfSeq
<1> QED
  BY <1>1, <1>2, <1>3

LEMMA StockPart ==
  ASSUME NEW s, Stock(s), NEW a \in Nat \ {0}, NEW b \in 0..Len(s)
  PROVE  Stock(SubSeq(s, a, b))
<1>1. PICK T : s \in Seq(T) /\ \A o \in T : FineEntry(o)
  BY DEF Stock
<1>2. a \in Int /\ b \in Int /\ \A i \in a..b : s[i] \in T
  <2>1. \A i \in a..b : i \in 1..Len(s)
    BY <1>1, LenProperties
  <2> QED
    BY <1>1, <2>1, ElementOfSeq
<1>3. SubSeq(s, a, b) \in Seq(T)
  BY <1>2, SubSeqProperties
<1> QED
  BY <1>1, <1>3 DEF Stock

LEMMA StockJoins ==
  ASSUME NEW s, NEW t, Stock(s), Stock(t)
  PROVE  Stock(s \o t)
<1>1. PICK T : s \in Seq(T) /\ \A o \in T : FineEntry(o)
  BY DEF Stock
<1>2. PICK U : t \in Seq(U) /\ \A o \in U : FineEntry(o)
  BY DEF Stock
<1> DEFINE V == T \cup U
<1>3. s \in Seq(V) /\ t \in Seq(V) /\ \A o \in V : FineEntry(o)
  BY <1>1, <1>2, SeqMonotonic
<1> HIDE DEF V
<1>4. s \o t \in Seq(V)
  BY <1>3, ConcatProperties
<1> QED
  BY <1>3, <1>4 DEF Stock

\* Nothing the store does to its entries makes one up.
LEMMA StockRemoved ==
  ASSUME NEW s, NEW key, Stock(s)
  PROVE  Stock(Removed(s, key)) /\ (At(s, key) # {} => FineEntry(s[Min(At(s, key))]))
<1>1. Len(s) \in Nat /\ DOMAIN s = 1..Len(s) /\ \A i \in 1..Len(s) : FineEntry(s[i])
  BY StockMembers
<1>2. CASE At(s, key) = {}
  BY <1>2 DEF Removed
<1>3. CASE At(s, key) # {}
  <2>1. At(s, key) \subseteq 1..Len(s) /\ At(s, key) \subseteq Nat
    BY <1>1 DEF At
  <2> DEFINE i == Min(At(s, key))
  <2>2. i \in At(s, key)
    BY <1>3, <2>1, MinIs
  <2>3. i \in 1..Len(s)
    BY <2>1, <2>2
  <2>4. Removed(s, key) = SubSeq(s, 1, i - 1) \o SubSeq(s, i + 1, Len(s))
    BY <1>3 DEF Removed, RemoveAt
  <2> HIDE DEF i
  <2>5. 1 \in Nat \ {0} /\ i - 1 \in 0..Len(s) /\ i + 1 \in Nat \ {0} /\ Len(s) \in 0..Len(s)
    BY <1>1, <2>3
  <2>6. Stock(SubSeq(s, 1, i - 1)) /\ Stock(SubSeq(s, i + 1, Len(s)))
    BY <2>5, StockPart
  <2> QED
    BY <1>1, <2>3, <2>4, <2>6, StockJoins DEF i
<1> QED
  BY <1>2, <1>3

LEMMA StockShrunk ==
  ASSUME NEW s, Stock(s)
  PROVE  Stock(Shrunk(s))
<1> DEFINE D == {k \in 0..Len(s) : Within(SubSeq(s, k + 1, Len(s)))} \cup {Len(s)}
           drop == Min(D)
<1>1. Len(s) \in Nat
  BY StockMembers
<1>2. D \subseteq 0..Len(s) /\ D \subseteq Nat /\ D # {}
  BY <1>1
<1>3. Shrunk(s) = SubSeq(s, drop + 1, Len(s))
  BY DEF Shrunk
<1> HIDE DEF D
<1>4. drop \in 0..Len(s)
  BY <1>2, MinIs
<1> HIDE DEF drop
<1>5. drop + 1 \in Nat \ {0} /\ Len(s) \in 0..Len(s)
  BY <1>1, <1>4
<1>6. Stock(SubSeq(s, drop + 1, Len(s)))
  BY <1>5, StockPart
<1> QED
  BY <1>3, <1>6

LEMMA StockPut ==
  ASSUME NEW s, NEW e, Stock(s), FineEntry(e)
  PROVE  Stock(Put(s, e))
<1>1. Stock(Removed(s, e.key))
  BY StockRemoved
<1>2. Stock(Append(Removed(s, e.key), e))
  BY <1>1, StockGrows
<1>3. Stock(Shrunk(Append(Removed(s, e.key), e)))
  BY <1>2, StockShrunk
<1> QED
  BY <1>1, <1>3 DEF Put

LEMMA StockTouch ==
  ASSUME NEW s, NEW key, Stock(s)
  PROVE  Stock(Touch(s, key))
<1>1. Stock(Removed(s, key)) /\ (At(s, key) # {} => FineEntry(s[Min(At(s, key))]))
  BY StockRemoved
<1> QED
  BY <1>1, StockGrows DEF Touch

\* Whatever is published or looked up, the store holds entries that are sound.
LEMMA PublishedFits ==
  ASSUME NEW c, Fine(c), Stock(store)
  PROVE  Stock(Published(c))
<1> DEFINE n == Len(c.pending)
<1>1. n \in Nat /\ \A i \in 1..n : FineEntry(c.pending[i])
  BY StockMembers DEF Fine
<1>2. PICK f : /\ f[0] = store
               /\ \A i \in 1..n : f[i] = Put(f[i - 1], c.pending[i])
               /\ Published(c) = f[n]
  BY <1>1, PublishedIs
<1> HIDE DEF n
<1> DEFINE Bad == {i \in 0..n : ~Stock(f[i])}
<1>3. SUFFICES ASSUME Bad # {} PROVE FALSE
  BY <1>1, <1>2
<1>4. Bad \subseteq Nat
  BY <1>1
<1>5. PICK i \in Bad : \A j \in Bad : i <= j
  BY <1>3, <1>4, Smallest
<1>6. i # 0 /\ i \in 1..n
  BY <1>1, <1>2, <1>5
<1>7. i - 1 \in 0..n /\ ~(i <= i - 1)
  BY <1>1, <1>6
<1>8. Stock(f[i - 1])
  BY <1>5, <1>7
<1>9. Stock(f[i])
  BY <1>1, <1>2, <1>6, <1>8, StockPut
<1> QED
  BY <1>5, <1>9

LEMMA TouchedFits ==
  ASSUME NEW h \in Seq(Message), Len(h) >= 1, NEW p, Substituted(h, p, store).cut \in 0..Len(h),
         Stock(store)
  PROVE  Stock(Touched(h, p))
<1> DEFINE n == Len(h)
           m == Max({1, Substituted(h, p, store).cut})
<1>1. n \in Nat /\ n >= 1
  BY LenProperties
<1>2. PICK f : /\ f[0] = store
               /\ \A i \in 1..n : f[i] = Touch(f[i - 1], SubSeq(h, 1, n + 1 - i))
               /\ Touched(h, p) = f[n + 1 - m]
  BY <1>1, TouchedIs
<1>3. m \in 1..n
  <2>1. {1, Substituted(h, p, store).cut} \subseteq 0..n /\ {1, Substituted(h, p, store).cut} # {}
    BY <1>1
  <2>2. m \in {1, Substituted(h, p, store).cut} /\ \A y \in {1, Substituted(h, p, store).cut} : y <= m
    BY <1>1, <2>1, MaxIs
  <2> HIDE DEF m, n
  <2>3. m \in 0..n /\ 1 <= m
    BY <2>1, <2>2
  <2> QED
    BY <1>1, <2>3
<1>4. n + 1 - m \in 1..n
  BY <1>1, <1>3
<1> HIDE DEF n, m
<1> DEFINE Bad == {i \in 0..n : ~Stock(f[i])}
<1>5. SUFFICES ASSUME Bad # {} PROVE FALSE
  BY <1>1, <1>2, <1>4
<1>6. Bad \subseteq Nat
  BY <1>1
<1>7. PICK i \in Bad : \A j \in Bad : i <= j
  BY <1>5, <1>6, Smallest
<1>8. i # 0 /\ i \in 1..n
  BY <1>1, <1>2, <1>7
<1>9. i - 1 \in 0..n /\ ~(i <= i - 1)
  BY <1>1, <1>8
<1>10. Stock(f[i - 1])
  BY <1>7, <1>9
<1>11. Stock(f[i])
  BY <1>1, <1>2, <1>8, <1>10, StockTouch
<1> QED
  BY <1>7, <1>11


-----------------------------------------------------------------------------
(* The invariant                                                           *)

LEMMA PrefixOfMore ==
  ASSUME NEW S, NEW k \in Seq(S), NEW h \in Seq(S), NEW g \in Seq(S), Prefix(k, h), Prefix(h, g)
  PROVE  Prefix(k, g)
<1>1. Len(k) \in Nat /\ Len(h) \in Nat /\ Len(g) \in Nat
  BY LenProperties
<1>2. \A i \in 1..Len(k) : i \in 1..Len(h)
  BY <1>1 DEF Prefix
<1> QED
  BY <1>1, <1>2 DEF Prefix

\* The client goes on as it is, or is one that appends and appends.
GoesOn == setup' = setup /\ (setup.rewinds \/ Prefix(history, history'))

LEMMA StillDue ==
  ASSUME GoesOn
  PROVE  Opening' = Opening /\ \A worst : Retained(worst)' = Retained(worst)
BY DEF GoesOn, Opening, Retained

\* Entries stay sound while the client goes on.
LEMMA StillFineEntry ==
  ASSUME Client, Client', GoesOn, NEW e, FineEntry(e)
  PROVE  FineEntry(e)'
<1>1. setup' = setup /\ Opening' = Opening /\ Retained(e.worst)' = Retained(e.worst)
  BY StillDue DEF GoesOn
<1>2. /\ e.key \in Seq(Message) /\ e.cut = Len(e.key) /\ e.worst \in 0..3
      /\ Rooted(e.key, e.head, e.cut)
  BY DEF FineEntry
<1>3. CASE setup.rewinds
  <2>1. e.cut >= Opening
    BY <1>3 DEF FineEntry
  <2> QED
    BY <1>1, <1>2, <1>3, <2>1 DEF FineEntry
<1>4. CASE ~setup.rewinds
  <2>1. /\ Prefix(e.key, history) /\ Anchored(history, e.head, e.cut) /\ Kept(history, e.cut, Retained(e.worst))
    BY <1>4 DEF FineEntry
  <2>2. /\ history \in Seq(Message) /\ history' \in Seq(Message) /\ Prefix(history, history')
        /\ Len(history) \in Nat /\ Len(history') \in Nat
    BY <1>4, LenProperties DEF Client, GoesOn
  <2>3. Retained(e.worst) \in Nat \ {0} /\ e.cut \in Nat \ {0}
    BY <2>1, DueIs DEF Anchored, Rooted
  <2>4. e.cut < Len(history)
    BY <2>1, <2>2, <2>3, KeptSome
  <2>5. Prefix(e.key, history')
    BY <1>2, <2>1, <2>2, PrefixOfMore
  <2>6. Anchored(history', e.head, e.cut)
    BY <2>1, <2>2, <2>4, AnchoredInMore
  <2>7. Kept(history', e.cut, Retained(e.worst))
    BY <2>1, <2>2, <2>3, KeptInMore
  <2> QED
    BY <1>1, <1>2, <1>4, <2>5, <2>6, <2>7 DEF FineEntry
<1> QED
  BY <1>3, <1>4

LEMMA StillStock ==
  ASSUME Client, Client', GoesOn, NEW s, Stock(s)
  PROVE  Stock(s)'
<1>1. PICK T : s \in Seq(T) /\ \A o \in T : FineEntry(o)
  BY DEF Stock
<1>2. \A o \in T : FineEntry(o)'
  BY <1>1, StillFineEntry
<1> QED
  BY <1>1, <1>2 DEF Stock

LEMMA StillFine ==
  ASSUME Client, Client', GoesOn, NEW c, Fine(c)
  PROVE  Fine(c)'
<1>1. setup' = setup /\ Opening' = Opening /\ Retained(c.worst)' = Retained(c.worst)
  BY StillDue DEF GoesOn
<1>2. Stock(c.pending)'
  BY StillStock DEF Fine
<1>3. Lasting(c.hist, c.cut, c.worst) => Lasting(c.hist, c.cut, c.worst)'
  BY <1>1 DEF Lasting
<1>4. c.hist \in Seq(Message)
  BY DEF Fine
<1>5. Known(c.hist) => Known(c.hist)'
  <2>1. CASE setup.rewinds
    BY <1>1, <2>1 DEF Known, Answered
  <2>2. CASE ~setup.rewinds
    <3>1. history \in Seq(Message) /\ history' \in Seq(Message) /\ Prefix(history, history')
      BY <2>2 DEF Client, GoesOn
    <3>2. Prefix(c.hist, history) => Prefix(c.hist, history')
      BY <1>4, <3>1, PrefixOfMore
    <3> QED
      BY <1>1, <2>2, <3>2 DEF Known
  <2> QED
    BY <2>1, <2>2
<1> QED
  BY <1>2, <1>3, <1>5 DEF Fine


\* What every step keeps: the client answers, and what is remembered is sound.
ReplayInv ==
  /\ Client /\ Len(history) \in Nat \ {0}
  /\ DOMAIN ctx = Workers
  /\ \A w \in Workers : Fine(ctx[w])
  /\ Stock(store)

LEMMA KnownIs ==
  ASSUME Client
  PROVE  Known(history)
<1>1. Prefix(history, history)
  BY LenProperties DEF Prefix, Client
<1> QED
  BY <1>1 DEF Known, Client

LEMMA OpeningIs ==
  ASSUME NEW s \in Setups, NEW o \in s.openings, setup = s
  PROVE  Opening \in Nat \ {0} /\ (Alternates(s) /\ s.rewinds => Opening = Len(o))
<1> DEFINE N == {Len(q) : q \in s.openings}
<1>1. \A q \in s.openings : Len(q) \in Nat \ {0}
  BY EngineAssumption, EmptySeq
<1>2. N \subseteq Nat \ {0} /\ N \subseteq Nat /\ N # {}
  BY <1>1
<1>3. Opening = Min(N)
  BY DEF Opening
<1>4. Min(N) \in N
  BY <1>2, MinIs
<1> QED
  BY <1>2, <1>3, <1>4 DEF Alternates

LEMMA InitFits ==
  ASSUME \A s \in Setups : Alternates(s), Init
  PROVE  ReplayInv
<1>1. setup \in Setups /\ history \in setup.openings /\ setup.openings \subseteq Seq(Message) \ {<<>>}
      /\ setup.keep \in Nat \ {0} /\ setup.rewinds \in BOOLEAN
  BY EngineAssumption DEF Init
<1>2. history \in Seq(Message) /\ Len(history) \in Nat \ {0} /\ DOMAIN history = 1..Len(history)
  BY <1>1, EmptySeq, LenProperties
<1>3. Opening \in Nat \ {0} /\ (setup.rewinds => Opening = Len(history))
  BY <1>1, OpeningIs
<1>4. setup.rewinds => Answered(history)
  <2>1. setup.rewinds => \A i \in 1..Len(history) : ~Assistant(history[i])
    BY <1>1, <1>2 DEF Alternates
  <2>2. \A i \in Len(history)..Len(history) - 1 : FALSE
    BY <1>2
  <2> QED
    BY <1>2, <1>3, <2>1, <2>2 DEF Answered
<1>5. Client
  BY <1>1, <1>2, <1>3, <1>4 DEF Client
<1>6. Stock(store) /\ DOMAIN ctx = Workers /\ \A w \in Workers : Fine(ctx[w])
  BY NothingIsStock, IdleFits DEF Init
<1> QED
  BY <1>2, <1>5, <1>6 DEF ReplayInv

\* It is enough that the new contexts and the new store suit the old history.
LEMMA InvGoesOn ==
  ASSUME ReplayInv, GoesOn, Client', Len(history') \in Nat \ {0}, DOMAIN ctx' = Workers,
         \A w \in Workers : Fine(ctx'[w]), Stock(store')
  PROVE  ReplayInv'
<1>1. Client
  BY DEF ReplayInv
<1>2. Stock(store)'
  BY <1>1, StillStock
<1>3. \A w \in Workers : Fine(ctx[w])'
  BY <1>1, StillFine
<1> QED
  BY <1>2, <1>3 DEF ReplayInv

LEMMA SameClient ==
  ASSUME ReplayInv, UNCHANGED <<setup, history>>
  PROVE  GoesOn /\ Client' /\ Len(history') \in Nat \ {0}
<1>1. Prefix(history, history)
  BY DEF ReplayInv, Prefix
<1> QED
  BY <1>1 DEF ReplayInv, GoesOn, Client, Answered, Opening

\* The client's moves: the model answers, whatever was rewound.
LEMMA GrowFits ==
  ASSUME ReplayInv, \A s \in Setups : Alternates(s), Grow
  PROVE  ReplayInv'
<1>1. PICK t \in setup.turns : history' = history \o t
  BY DEF Grow
<1>2. setup \in Setups /\ history \in Seq(Message) /\ Len(history) \in Nat \ {0} /\ setup' = setup
      /\ Opening \in Nat \ {0} /\ (setup.rewinds => Answered(history))
  BY DEF ReplayInv, Client, Grow
<1>3. t \in Seq(Message) /\ Len(t) \in Nat /\ DOMAIN t = 1..Len(t)
  <2>1. t \in Seq(Message)
    BY <1>2, EngineAssumption
  <2> QED
    BY <2>1, LenProperties
<1> DEFINE n == Len(history)
           g == history \o t
<1>4. /\ g \in Seq(Message) /\ Len(g) = n + Len(t)
      /\ \A i \in 1..n + Len(t) : g[i] = IF i <= n THEN history[i] ELSE t[i - n]
  BY <1>2, <1>3, ConcatProperties
<1> HIDE DEF g, n
<1>5. n \in Nat \ {0} /\ n = Len(history)
  BY <1>2 DEF n
<1>6. \A i \in 1..n : g[i] = history[i]
  <2>1. \A i \in 1..n : i \in 1..n + Len(t) /\ i <= n
    BY <1>3, <1>5
  <2> QED
    BY <1>4, <2>1
<1>7. Prefix(history, g) /\ Len(g) \in Nat \ {0}
  BY <1>3, <1>4, <1>5, <1>6 DEF Prefix
<1>8. ASSUME setup.rewinds
      PROVE  Answered(g)
  <2>1. Opening <= n /\ Opening <= Len(g)
    BY <1>2, <1>3, <1>4, <1>5, <1>8 DEF Answered
  <2>2. \A i \in 1..Opening : ~Assistant(g[i])
    <3>1. \A i \in 1..Opening : i \in 1..n
      BY <1>2, <1>5, <2>1
    <3> QED
      BY <1>2, <1>6, <1>8, <3>1 DEF Answered
  <2>3. ASSUME NEW i \in Opening..Len(g) - 1, ~Assistant(g[i])
        PROVE  Assistant(g[i + 1])
    <3>1. CASE i < n
      <4>1. i \in 1..n /\ i + 1 \in 1..n /\ i \in Opening..n - 1
        BY <1>2, <1>5, <3>1
      <4> QED
        BY <1>2, <1>5, <1>6, <1>8, <2>3, <4>1 DEF Answered
    <3>2. CASE i >= n
      <4> DEFINE j == i - n
      <4>1. /\ j + 1 \in 1..Len(t) /\ i + 1 \in 1..n + Len(t) /\ ~(i + 1 <= n) /\ (i + 1) - n = j + 1
            /\ j # 0 => i \in 1..n + Len(t) /\ ~(i <= n) /\ i - n = j /\ j \in 1..Len(t) /\ j < Len(t)
        BY <1>2, <1>3, <1>4, <1>5, <3>2
      <4> HIDE DEF j
      <4>2. g[i + 1] = t[j + 1] /\ (j # 0 => g[i] = t[j])
        BY <1>4, <4>1
      <4>3. \A k \in 1..Len(t) : ~Assistant(t[k]) => k # 1 /\ (k < Len(t) => Assistant(t[k + 1]))
        BY <1>1, <1>2, <1>3, <1>8 DEF Alternates
      <4>4. CASE j = 0
        BY <4>1, <4>2, <4>3, <4>4
      <4>5. CASE j # 0
        BY <2>3, <4>1, <4>2, <4>3, <4>5
      <4> QED
        BY <4>4, <4>5
    <3> QED
      BY <1>2, <1>4, <1>5, <3>1, <3>2
  <2> QED
    BY <2>1, <2>2, <2>3, <1>7, <1>2 DEF Answered
<1>9. GoesOn /\ history' = g /\ Opening' = Opening
  BY <1>1, <1>2, <1>7 DEF GoesOn, Opening, g
<1>10. Client'
  BY <1>2, <1>4, <1>8, <1>9 DEF Client, Answered, ReplayInv
<1> QED
  BY <1>7, <1>9, <1>10, InvGoesOn DEF ReplayInv, Grow

LEMMA RewindFits ==
  ASSUME ReplayInv, Rewind
  PROVE  ReplayInv'
<1>1. PICK n \in Opening..Len(history) - 1 : history' = SubSeq(history, 1, n)
  BY DEF Rewind, Opening
<1>2. setup \in Setups /\ history \in Seq(Message) /\ Len(history) \in Nat \ {0} /\ setup' = setup
      /\ Opening \in Nat \ {0} /\ Answered(history) /\ setup.rewinds
  BY DEF ReplayInv, Client, Rewind
<1>3. n \in 0..Len(history) /\ n \in Nat \ {0} /\ n >= Opening
  BY <1>2
<1>4. history' \in Seq(Message) /\ Len(history') = n /\ \A i \in 1..n : history'[i] = history[i]
  BY <1>1, <1>2, <1>3, FirstPart
<1>5. GoesOn /\ Opening' = Opening
  BY <1>2 DEF GoesOn, Opening
<1>6. Answered(history)'
  <2>1. \A i \in 1..Opening : i \in 1..n
    BY <1>2, <1>3
  <2>2. \A i \in Opening..n - 1 : i \in 1..n /\ i + 1 \in 1..n /\ i \in Opening..Len(history) - 1
    BY <1>2, <1>3
  <2> QED
    BY <1>2, <1>3, <1>4, <1>5, <2>1, <2>2 DEF Answered
<1>7. Client'
  BY <1>2, <1>4, <1>5, <1>6 DEF Client, ReplayInv
<1> QED
  BY <1>3, <1>4, <1>5, <1>7, InvGoesOn DEF ReplayInv, Rewind


LEMMA WorkersIs ==
  ASSUME ReplayInv, NEW w \in setup.workers
  PROVE  w \in Workers
BY EngineAssumption DEF ReplayInv, Client

\* The proxy's moves.
LEMMA SendFits ==
  ASSUME ReplayInv, NEW w \in setup.workers, NEW p, Send(w, p)
  PROVE  ReplayInv'
<1> DEFINE d == Prepare(history, p, store)
<1>1. Client /\ Stock(store) /\ Known(history) /\ history \in Seq(Message) /\ Len(history) \in Nat \ {0}
  BY KnownIs DEF ReplayInv, Client
<1>2. Fine(d)
  BY <1>1, PrepareFits
<1>3. Fine(Substituted(history, p, store)) /\ Substituted(history, p, store).hist = history
  BY <1>1, SubstitutedFits
<1>4. Substituted(history, p, store).cut \in 0..Len(history) /\ Len(history) >= 1
  BY <1>1, <1>3 DEF Fine, IsCut
<1>5. Stock(Touched(history, p))
  BY <1>1, <1>4, TouchedFits
<1> HIDE DEF d
<1>6. ctx' = [ctx EXCEPT ![w] = d] /\ store' = Touched(history, p) /\ UNCHANGED <<setup, history>>
  BY DEF Send, d
<1>7. DOMAIN ctx' = Workers /\ \A v \in Workers : Fine(ctx'[v])
  BY <1>2, <1>6 DEF ReplayInv
<1> QED
  BY <1>5, <1>6, <1>7, SameClient, InvGoesOn

LEMMA PublishFits ==
  ASSUME ReplayInv, NEW w \in setup.workers, Publish(w)
  PROVE  ReplayInv'
<1> DEFINE c == ctx[w]
<1>1. w \in Workers /\ Fine(c) /\ Stock(store) /\ c.phase = "prepared" /\ DOMAIN ctx = Workers
  BY WorkersIs DEF ReplayInv, Publish
<1>2. /\ DOMAIN ctx' = Workers /\ \A v \in Workers \ {w} : ctx'[v] = ctx[v]
      /\ DOMAIN ctx'[w] = DOMAIN c
      /\ ctx'[w].hist = c.hist /\ ctx'[w].out = c.out /\ ctx'[w].head = c.head
      /\ ctx'[w].cut = c.cut /\ ctx'[w].sum = c.sum /\ ctx'[w].worst = c.worst
      /\ ctx'[w].rung = c.rung /\ ctx'[w].phase = "sent" /\ ctx'[w].pending = <<>>
  BY <1>1 DEF Publish, Fine, IsCut
<1> HIDE DEF c
<1>3. Fine(ctx'[w])
  BY <1>1, <1>2, NothingIsStock DEF Fine, IsCut
<1>4. \A v \in Workers : Fine(ctx'[v])
  BY <1>1, <1>2, <1>3 DEF ReplayInv
<1>5. Stock(store')
  <2>1. store' \in {Published(c), store}
    BY DEF Publish, c
  <2> QED
    BY <1>1, <2>1, PublishedFits
<1>6. UNCHANGED <<setup, history>>
  BY DEF Publish
<1> QED
  BY <1>2, <1>4, <1>5, <1>6, SameClient, InvGoesOn

LEMMA DiscardFits ==
  ASSUME ReplayInv, NEW w \in setup.workers, Discard(w)
  PROVE  ReplayInv'
<1>1. ctx' = [ctx EXCEPT ![w] = Idle] /\ store' = store /\ UNCHANGED <<setup, history>>
  BY DEF Discard
<1>2. Fine(Idle)
  BY IdleFits
<1>3. DOMAIN ctx' = Workers /\ (\A v \in Workers : Fine(ctx'[v])) /\ Stock(store')
  BY <1>1, <1>2 DEF ReplayInv
<1> QED
  BY <1>1, <1>3, SameClient, InvGoesOn

LEMMA RejectFits ==
  ASSUME ReplayInv, NEW w \in setup.workers, Reject(w)
  PROVE  ReplayInv'
<1> DEFINE c == ctx[w]
<1>1. w \in Workers /\ Fine(c) /\ Stock(store) /\ c.phase # "idle" /\ DOMAIN ctx = Workers /\ Client
  BY WorkersIs DEF ReplayInv, Reject
<1>2. PICK rung \in NextRung(c) : \E next \in {OnRung(c, rung)} :
        /\ ctx' = [ctx EXCEPT ![w] = [next EXCEPT !.pending = <<>>]]
        /\ store' \in {Published(next), store}
  BY DEF Reject
<1> HIDE DEF c
<1>3. rung \in 0..4
  <2>1. c.rung \in 0..3
    BY <1>1 DEF Fine
  <2>2. rung \in {4} \cup (c.rung + 1..3)
    BY <1>2 DEF NextRung, RungsLeft, First
  <2> QED
    BY <2>1, <2>2
<1> DEFINE next == OnRung(c, rung)
           d == [next EXCEPT !.pending = <<>>]
<1>4. Fine(next) /\ next.phase # "idle"
  BY <1>1, <1>3, OnRungFits
<1>5. ctx' = [ctx EXCEPT ![w] = d] /\ store' \in {Published(next), store} /\ UNCHANGED <<setup, history>>
  BY <1>2 DEF Reject
<1> HIDE DEF next
<1>6. /\ DOMAIN d = DOMAIN next /\ d.hist = next.hist /\ d.out = next.out /\ d.head = next.head
      /\ d.cut = next.cut /\ d.sum = next.sum /\ d.worst = next.worst /\ d.rung = next.rung
      /\ d.phase = next.phase /\ d.pending = <<>>
  BY <1>4 DEF Fine, IsCut
<1> HIDE DEF d
<1>7. Fine(d)
  BY <1>4, <1>6, NothingIsStock DEF Fine, IsCut
<1>8. DOMAIN ctx' = Workers /\ \A v \in Workers : Fine(ctx'[v])
  BY <1>5, <1>7 DEF ReplayInv
<1>9. Stock(store')
  BY <1>1, <1>4, <1>5, PublishedFits
<1> QED
  BY <1>5, <1>8, <1>9, SameClient, InvGoesOn

LEMMA FinishFits ==
  ASSUME ReplayInv, NEW w \in setup.workers, Finish(w)
  PROVE  ReplayInv'
<1> DEFINE c == ctx[w]
<1>1. w \in Workers /\ Fine(c) /\ c.phase # "idle" /\ DOMAIN ctx = Workers
  BY WorkersIs DEF ReplayInv, Finish
<1>2. /\ DOMAIN ctx' = Workers /\ \A v \in Workers \ {w} : ctx'[v] = ctx[v]
      /\ DOMAIN ctx'[w] = DOMAIN c
      /\ ctx'[w].hist = c.hist /\ ctx'[w].out = c.out /\ ctx'[w].head = c.head
      /\ ctx'[w].cut = c.cut /\ ctx'[w].sum = c.sum /\ ctx'[w].worst = c.worst
      /\ ctx'[w].rung = c.rung /\ ctx'[w].phase = "done" /\ ctx'[w].pending = c.pending
  BY <1>1 DEF Finish, Fine, IsCut
<1> HIDE DEF c
<1>3. Fine(ctx'[w])
  BY <1>1, <1>2 DEF Fine, IsCut
<1>4. \A v \in Workers : Fine(ctx'[v])
  BY <1>1, <1>2, <1>3 DEF ReplayInv
<1>5. Stock(store') /\ UNCHANGED <<setup, history>>
  BY DEF Finish, ReplayInv
<1> QED
  BY <1>2, <1>4, <1>5, SameClient, InvGoesOn

LEMMA EvictFits ==
  ASSUME ReplayInv, Evict
  PROVE  ReplayInv'
<1>1. store # <<>> /\ store' = Tail(store) /\ UNCHANGED <<setup, history, ctx>> /\ Stock(store)
  BY DEF Evict, ReplayInv
<1>2. PICK T : store \in Seq(T) /\ \A o \in T : FineEntry(o)
  BY <1>1 DEF Stock
<1>3. store' \in Seq(T)
  BY <1>1, <1>2, HeadTailProperties
<1>4. Stock(store')
  BY <1>2, <1>3 DEF Stock
<1>5. DOMAIN ctx' = Workers /\ \A v \in Workers : Fine(ctx'[v])
  BY <1>1 DEF ReplayInv
<1> QED
  BY <1>1, <1>4, <1>5, SameClient, InvGoesOn

LEMMA RestartFits ==
  ASSUME ReplayInv, Restart
  PROVE  ReplayInv'
<1>1. store' = <<>> /\ ctx' = [w \in Workers |-> Idle] /\ UNCHANGED <<setup, history>>
  BY DEF Restart
<1>2. Stock(store')
  BY <1>1, NothingIsStock
<1>3. Fine(Idle)
  BY IdleFits
<1>4. DOMAIN ctx' = Workers /\ \A v \in Workers : Fine(ctx'[v])
  BY <1>1, <1>3
<1> QED
  BY <1>1, <1>2, <1>4, SameClient, InvGoesOn

LEMMA StepFits ==
  ASSUME ReplayInv, \A s \in Setups : Alternates(s), [Next]_vars
  PROVE  ReplayInv'
<1>1. CASE Grow
  BY <1>1, GrowFits
<1>2. CASE Rewind
  BY <1>2, RewindFits
<1>3. CASE Evict
  BY <1>3, EvictFits
<1>4. CASE Restart
  BY <1>4, RestartFits
<1>5. ASSUME NEW w \in setup.workers, NEW p \in setup.policies, Send(w, p)
      PROVE  ReplayInv'
  BY <1>5, SendFits
<1>6. ASSUME NEW w \in setup.workers, Publish(w) \/ Discard(w) \/ Reject(w) \/ Finish(w)
      PROVE  ReplayInv'
  BY <1>6, PublishFits, DiscardFits, RejectFits, FinishFits
<1>7. CASE UNCHANGED vars
  <2>1. /\ UNCHANGED <<setup, history>> /\ DOMAIN ctx' = Workers /\ \A v \in Workers : Fine(ctx'[v])
        /\ Stock(store')
    BY <1>7 DEF vars, ReplayInv
  <2> QED
    BY <2>1, SameClient, InvGoesOn
<1> QED
  BY <1>1, <1>2, <1>3, <1>4, <1>5, <1>6, <1>7 DEF Next


-----------------------------------------------------------------------------
(* What is sent                                                            *)

LEMMA SplicedIs ==
  ASSUME NEW c, Fine(c), c.cut # 0
  PROVE  /\ c.out = Splice(c.hist, c.head, c.sum, c.cut)
         /\ ~Assistant(c.hist[c.cut])
         /\ c.cut < Len(c.hist) => Assistant(c.hist[c.cut + 1])
BY DEF Fine, IsCut, Anchored, Rooted, List, Splice

\* The turns behind the summary are those behind the cut.
LEMMA TailIs ==
  ASSUME Client, ~setup.rewinds, NEW c, Fine(c), c.cut # 0
  PROVE  TailTurns(c) >= Retained(c.worst)
<1> DEFINE h == c.hist
           L == c.out
           head == c.head
           cut == c.cut
           S == Turns(h, cut, Len(h))
           T == {k \in head + 2..Len(L) : Assistant(L[k]) /\ ~Assistant(L[k - 1])}
           d == head + 1 - cut
<1>1. /\ Len(h) \in Nat /\ cut \in 1..Len(h) /\ head \in 0..cut - 1
      /\ L = List(h, head, c.sum, cut, Len(h)) /\ Kept(h, cut, Retained(c.worst))
  BY DEF Fine, IsCut, Anchored, Rooted, Lasting
<1>2. Listed(L, h, head, c.sum, cut, Len(h))
  <2>1. /\ c.sum \in {c.sum} /\ head \in Nat /\ cut \in Nat /\ head <= cut /\ cut <= Len(h)
        /\ Len(h) <= Len(h)
    BY <1>1
  <2> HIDE DEF h, L, head, cut
  <2>2. Listed(List(h, head, c.sum, cut, Len(h)), h, head, c.sum, cut, Len(h))
    BY <1>1, <2>1, ListIs
  <2> QED
    BY <1>1, <2>2
<1> HIDE DEF h, L, head, cut
<1>3. Len(L) = head + 1 + Len(h) - cut /\ Len(L) \in Nat
  BY <1>1, <1>2 DEF Listed
<1>4. S \subseteq 0..Len(h) /\ T \subseteq 0..Len(L) /\ d \in Int
  BY <1>1, <1>3, SMTT(60) DEF Turns
<1>5. ASSUME NEW i \in S
      PROVE  i + d \in T
  <2>1. i \in cut + 1..Len(h) /\ Assistant(h[i]) /\ ~Assistant(h[i - 1])
    BY <1>5 DEF Turns
  <2>2. /\ i + d \in head + 2..head + 1 + Len(h) - cut /\ (i + d) - head - 1 + cut = i
        /\ i # cut + 1 => /\ (i + d) - 1 \in head + 2..head + 1 + Len(h) - cut
                          /\ (i + d) - 1 - head - 1 + cut = i - 1
        /\ i = cut + 1 => (i + d) - 1 = head + 1
    BY <1>1, <2>1
  <2> HIDE DEF d
  <2>3. Assistant(L[i + d])
    BY <1>2, <2>1, <2>2, SameKind DEF Listed
  <2>4. ~Assistant(L[(i + d) - 1])
    <3>1. CASE i = cut + 1
      <4>1. L[(i + d) - 1] = Summary(h, c.sum)
        BY <1>2, <2>2, <3>1 DEF Listed
      <4> QED
        BY <4>1, SummaryKind
    <3>2. CASE i # cut + 1
      <4>1. L[(i + d) - 1] = Original(h, i - 1)
        BY <1>2, <2>2, <3>2 DEF Listed
      <4> QED
        BY <2>1, <4>1, SameKind
    <3> QED
      BY <3>1, <3>2
  <2> QED
    BY <1>3, <2>2, <2>3, <2>4
<1> HIDE DEF S, T, d
<1>6. Cardinality(S) <= Cardinality(T)
  BY <1>1, <1>3, <1>4, <1>5, Moved
<1>7. Cardinality(S) \in Nat /\ Cardinality(T) \in Nat
  BY <1>1, <1>3, <1>4, Few
<1>8. Cardinality(S) >= Retained(c.worst) /\ Retained(c.worst) \in Nat
  BY <1>1, DueIs DEF Kept, S
<1>9. TailTurns(c) = Cardinality(T)
  BY DEF TailTurns, T, L, head
<1> QED
  BY <1>6, <1>7, <1>8, <1>9

LEMMA InvIsSound ==
  ASSUME ReplayInv
  PROVE  ListIsSound
<1>1. Spliced /\ WholeTurns
  BY SplicedIs DEF ReplayInv, Spliced, WholeTurns
<1>2. NewestKept
  BY TailIs DEF ReplayInv, NewestKept, Retained
<1> QED
  BY <1>1, <1>2 DEF ListIsSound

\* For every engine, every history and every loss of entries: a list that is sent
\* is the head, a summary and the rest of the history (engine.rs, Replay), no run
\* of model output is parted, and a client that only appends gets its newest
\* turns word for word.
THEOREM ListsAreSound ==
  ASSUME \A s \in Setups : Alternates(s)
  PROVE  Spec => []ListIsSound
<1>1. Init => ReplayInv
  BY InitFits
<1>2. ReplayInv /\ [Next]_vars => ReplayInv'
  BY StepFits
<1>3. ReplayInv => ListIsSound
  BY InvIsSound
<1> QED
  BY <1>1, <1>2, <1>3, PTL DEF Spec

-----------------------------------------------------------------------------
(* Compaction: sums                                                        *)

\* A total is the last of a sequence of totals.
LEMMA TotalIs ==
  ASSUME NEW f, NEW n \in Nat
  PROVE  \E sum : /\ sum[0] = 0
                  /\ \A k \in 1..n : sum[k] = sum[k - 1] + f[k]
                  /\ Total(f, n) = sum[n]
<1> DEFINE Adds(s, m) == s = [k \in 0..m |-> IF k = 0 THEN 0 ELSE s[k - 1] + f[k]]
           Bad == {m \in Nat : ~\E s : Adds(s, m)}
<1>1. \A s, m : Adds(s, m) => \A k \in 0..m : s[k] = IF k = 0 THEN 0 ELSE s[k - 1] + f[k]
  OBVIOUS
<1>2. Bad = {}
  <2>1. SUFFICES ASSUME Bad # {} PROVE FALSE
    OBVIOUS
  <2>2. Bad \subseteq Nat
    OBVIOUS
  <2>3. PICK m \in Bad : \A l \in Bad : m <= l
    <3> HIDE DEF Bad
    <3> QED
      BY <2>1, <2>2, Smallest
  <2>4. m # 0
    <3>1. SUFFICES ASSUME m = 0 PROVE FALSE
      OBVIOUS
    <3>2. \A k \in 0..m : k = 0
      BY <3>1
    <3>3. Adds([k \in 0..m |-> 0], m)
      BY <3>2
    <3> QED
      BY <2>3, <3>3
  <2>5. m \in Nat /\ m - 1 \in Nat /\ ~(m <= m - 1)
    <3> HIDE DEF Bad
    <3> QED
      BY <2>2, <2>3, <2>4
  <2>6. PICK s : Adds(s, m - 1)
    <3>1. m - 1 \notin Bad
      <4> HIDE DEF Bad
      <4> QED
        BY <2>3, <2>5
    <3> HIDE DEF Adds
    <3> QED
      BY <2>5, <3>1
  <2> DEFINE t == [k \in 0..m |-> IF k = m THEN s[m - 1] + f[m] ELSE s[k]]
  <2>7. \A k \in 0..m : t[k] = IF k = 0 THEN 0 ELSE t[k - 1] + f[k]
    <3>1. \A k \in 0..m - 1 : s[k] = IF k = 0 THEN 0 ELSE s[k - 1] + f[k]
      BY <1>1, <2>6
    <3>2. \A k \in 0..m - 1 : k \in 0..m /\ k # m /\ t[k] = s[k]
      BY <2>5
    <3>3. t[m] = s[m - 1] + f[m] /\ m - 1 \in 0..m - 1
      BY <2>5
    <3>4. \A k \in 0..m : k = m \/ (k \in 0..m - 1 /\ (k # 0 => k - 1 \in 0..m - 1))
      BY <2>5
    <3> HIDE DEF t
    <3> QED
      BY <2>4, <3>1, <3>2, <3>3, <3>4
  <2>8. Adds(t, m)
    <3> DEFINE u == [k \in 0..m |-> IF k = 0 THEN 0 ELSE t[k - 1] + f[k]]
    <3>1. \A k \in 0..m : t[k] = u[k]
      BY <2>7
    <3>2. t = u
      BY <3>1
    <3> QED
      BY <3>2
  <2> HIDE DEF t
  <2> QED
    BY <2>3, <2>8
<1>3. \E s : Adds(s, n)
  <2> HIDE DEF Adds
  <2> QED
    BY <1>2
<1> DEFINE sum == CHOOSE s : Adds(s, n)
<1>4. Adds(sum, n)
  <2> HIDE DEF Adds
  <2> QED
    BY <1>3
<1>5. Total(f, n) = sum[n]
  BY DEF Total
<1> HIDE DEF sum, Adds
<1>6. \A k \in 0..n : sum[k] = IF k = 0 THEN 0 ELSE sum[k - 1] + f[k]
  BY <1>1, <1>4
<1>7. 0 \in 0..n /\ \A k \in 1..n : k \in 0..n /\ k # 0
  OBVIOUS
<1> QED
  BY <1>5, <1>6, <1>7

\* What is true of every number is true of the totals.
LEMMA TotalsCompare ==
  ASSUME NEW n \in Nat, NEW f, NEW g, NEW h,
         \A k \in 1..n : f[k] \in Int /\ g[k] \in Int /\ h[k] \in Int /\ f[k] - g[k] >= h[k]
  PROVE  /\ Total(f, n) \in Int /\ Total(g, n) \in Int /\ Total(h, n) \in Int
         /\ Total(f, n) - Total(g, n) >= Total(h, n)
<1>1. PICK r : r[0] = 0 /\ (\A k \in 1..n : r[k] = r[k - 1] + f[k]) /\ Total(f, n) = r[n]
  BY TotalIs
<1>2. PICK s : s[0] = 0 /\ (\A k \in 1..n : s[k] = s[k - 1] + g[k]) /\ Total(g, n) = s[n]
  BY TotalIs
<1>3. PICK t : t[0] = 0 /\ (\A k \in 1..n : t[k] = t[k - 1] + h[k]) /\ Total(h, n) = t[n]
  BY TotalIs
<1> DEFINE Good(k) == r[k] \in Int /\ s[k] \in Int /\ t[k] \in Int /\ r[k] - s[k] >= t[k]
           Bad == {k \in 0..n : ~Good(k)}
<1>4. Good(0)
  BY <1>1, <1>2, <1>3
<1>5. \A k \in 1..n : Good(k - 1) => Good(k)
  <2> SUFFICES ASSUME NEW k \in 1..n, Good(k - 1) PROVE Good(k)
    OBVIOUS
  <2>1. f[k] \in Int /\ g[k] \in Int /\ h[k] \in Int /\ f[k] - g[k] >= h[k]
    OBVIOUS
  <2>2. r[k] = r[k - 1] + f[k] /\ s[k] = s[k - 1] + g[k] /\ t[k] = t[k - 1] + h[k]
    BY <1>1, <1>2, <1>3
  <2> QED
    BY <2>1, <2>2
<1> HIDE DEF Good
<1>6. Bad = {}
  <2>1. SUFFICES ASSUME Bad # {} PROVE FALSE
    OBVIOUS
  <2>2. PICK k \in Bad : \A l \in Bad : k <= l
    <3>1. Bad \subseteq Nat
      OBVIOUS
    <3> QED
      BY <2>1, <3>1, Smallest
  <2>3. k \in 0..n /\ ~Good(k) /\ k # 0
    BY <1>4
  <2>4. k \in 1..n /\ k - 1 \in 0..n /\ ~(k <= k - 1)
    BY <2>3
  <2>5. Good(k - 1)
    BY <2>2, <2>4
  <2> QED
    BY <1>5, <2>3, <2>4, <2>5
<1>7. Good(n)
  BY <1>6
<1> QED
  BY <1>1, <1>2, <1>3, <1>7 DEF Good

\* One more number is added to the total of those before.
LEMMA TotalNext ==
  ASSUME NEW n \in Nat, NEW f, NEW g, \A k \in 1..n : f[k] = g[k]
  PROVE  Total(f, n + 1) = Total(g, n) + f[n + 1]
<1>1. PICK r : r[0] = 0 /\ (\A k \in 1..n + 1 : r[k] = r[k - 1] + f[k]) /\ Total(f, n + 1) = r[n + 1]
  BY TotalIs
<1>2. PICK s : s[0] = 0 /\ (\A k \in 1..n : s[k] = s[k - 1] + g[k]) /\ Total(g, n) = s[n]
  BY TotalIs
<1> DEFINE Bad == {k \in 0..n : r[k] # s[k]}
<1>3. Bad = {}
  <2>1. SUFFICES ASSUME Bad # {} PROVE FALSE
    OBVIOUS
  <2>2. PICK k \in Bad : \A l \in Bad : k <= l
    <3>1. Bad \subseteq Nat
      OBVIOUS
    <3> QED
      BY <2>1, <3>1, Smallest
  <2>3. k \in 0..n /\ r[k] # s[k] /\ k # 0
    BY <1>1, <1>2
  <2>4. k \in 1..n /\ k \in 1..n + 1 /\ k - 1 \in 0..n /\ ~(k <= k - 1)
    BY <2>3
  <2>5. r[k - 1] = s[k - 1]
    BY <2>2, <2>4
  <2> QED
    BY <1>1, <1>2, <2>3, <2>4, <2>5
<1>4. r[n] = s[n] /\ n + 1 \in 1..n + 1 /\ (n + 1) - 1 = n
  BY <1>3
<1> QED
  BY <1>1, <1>2, <1>4

-----------------------------------------------------------------------------
(* Compaction: records and elisions                                        *)

\* What a copy is made of.
Recorded == Records \cup {Stubbed(x) : x \in Records} \cup {Card(n) : n \in Nat}

LEMMA StubbedIs ==
  ASSUME NEW x \in Records
  PROVE  /\ Stubbed(x).tokens = x.tokens - x.payload + x.parts * StubTokens
         /\ Stubbed(x).payload = 0 /\ Stubbed(x).parts = 0 /\ Stubbed(x).score = x.score
         /\ Stubbed(x).kind = IF Claude THEN "user" ELSE x.kind
<1>1. DOMAIN x = {"kind", "tokens", "payload", "parts", "tool", "text", "score"}
  BY RecordsAssumption
<1> QED
  BY <1>1 DEF Stubbed

LEMMA RecordedIs ==
  ASSUME NEW x \in Recorded
  PROVE  Sizes(x) /\ x.score \in Nat \cup {Nil} /\ (IsElidable(x) => x \in Records)
<1>1. CASE x \in Records
  BY <1>1, RecordsAssumption
<1>2. ASSUME NEW y \in Records, x = Stubbed(y)
      PROVE  Sizes(x) /\ x.score \in Nat \cup {Nil} /\ ~IsElidable(x)
  <2>1. Sizes(y) /\ y.score \in Nat \cup {Nil}
    BY RecordsAssumption
  <2>2. y.parts * StubTokens \in Nat /\ StubTokens \in Nat
    BY <2>1, CompactionAssumption DEF Sizes
  <2> QED
    BY <1>2, <2>1, <2>2, StubbedIs DEF Sizes, IsElidable
<1>3. ASSUME NEW n \in Nat, x = Card(n)
      PROVE  Sizes(x) /\ x.score \in Nat \cup {Nil} /\ ~IsElidable(x)
  BY <1>3, CompactionAssumption DEF Sizes, IsElidable, Card, Overhead, Least
<1> QED
  BY <1>1, <1>2, <1>3 DEF Recorded

\* A stub is smaller than what it replaces by what the estimate says, at least.
LEMMA Lighter ==
  ASSUME NEW x \in Recorded, IsElidable(x)
  PROVE  /\ Stubbed(x) \in Recorded /\ Stubbed(x).payload = 0
         /\ Savings(x) \in Int /\ x.tokens - Stubbed(x).tokens >= Savings(x)
         /\ x.tokens > 0 /\ Stubbed(x).tokens > 0
         /\ x.kind # "assistant" /\ Stubbed(x).kind # "assistant"
<1>1. x \in Records /\ Sizes(x) /\ x.payload > 0 /\ x.parts > 0 /\ x.tokens > 0
  BY RecordedIs DEF IsElidable, Sizes
<1>2. x.parts \in Nat /\ x.payload \in Nat /\ x.tokens \in Nat /\ x.payload <= x.tokens
      /\ StubTokens \in Nat /\ StubTokens > 0 /\ PartTokens \in Nat /\ StubTokens <= PartTokens
  BY <1>1, CompactionAssumption DEF Sizes
<1> DEFINE stubs == x.parts * StubTokens
           budget == Most(1, x.parts) * PartTokens
<1>3. Most(1, x.parts) = x.parts
  BY <1>1, <1>2 DEF Most
<1>4. stubs \in Nat /\ stubs > 0 /\ budget \in Nat /\ stubs <= budget
  <2>1. \A a, b, c \in Nat : a > 0 /\ b > 0 /\ b <= c =>
          a * b \in Nat /\ a * b > 0 /\ a * c \in Nat /\ a * b <= a * c
    OBVIOUS
  <2> QED
    BY <1>1, <1>2, <1>3, <2>1
<1>5. Savings(x) = Least(x.tokens, Capped(x.payload - budget))
  BY DEF Savings
<1>6. stubs <= x.payload
  BY <1>1 DEF Sizes
<1>7. Stubbed(x).tokens = x.tokens - x.payload + stubs
  BY <1>1, StubbedIs
<1> HIDE DEF stubs, budget
<1>8. Savings(x) \in Int /\ x.tokens - Stubbed(x).tokens >= Savings(x) /\ Stubbed(x).tokens > 0
  BY <1>2, <1>4, <1>5, <1>6, <1>7 DEF Least, Capped
<1>9. x.kind # "assistant" /\ Stubbed(x).kind # "assistant" /\ Stubbed(x).payload = 0
  BY <1>1, StubbedIs DEF Sizes
<1> QED
  BY <1>1, <1>8, <1>9 DEF Recorded

LEMMA CardIs ==
  ASSUME NEW n \in Nat
  PROVE  /\ Card(n) \in Recorded /\ Card(n).tokens = Overhead(n)
         /\ Overhead(n) \in Nat /\ Digest(n).lines = 1..n /\ Cardinality(1..n) = n
<1>1. Card(n) \in Recorded /\ Card(n).tokens = Overhead(n)
  BY DEF Recorded, Card
<1>2. Overhead(n) \in Nat
  BY CompactionAssumption DEF Overhead, Least
<1>3. Cardinality(1..n) = n
  BY FS_Interval
<1> QED
  BY <1>1, <1>2, <1>3 DEF Digest

\* Transcripts stay transcripts.
LEMMA ElidedIs ==
  ASSUME NEW t \in Seq(Recorded), NEW S
  PROVE  /\ Lowered(t, Elide(S)) \in Seq(Recorded) /\ Len(Lowered(t, Elide(S))) = Len(t)
         /\ Lowered(t, Elide(S)) =
              [i \in DOMAIN t |-> IF i \in S /\ IsElidable(t[i]) THEN Stubbed(t[i]) ELSE t[i]]
<1> DEFINE made == [i \in 1..Len(t) |-> IF i \in S /\ IsElidable(t[i]) THEN Stubbed(t[i]) ELSE t[i]]
<1>1. Lowered(t, Elide(S)) = made
  BY DEF Lowered, Elide
<1>2. \A i \in 1..Len(t) : made[i] \in Recorded
  <2>1. \A i \in 1..Len(t) : t[i] \in Recorded
    OBVIOUS
  <2>2. \A i \in 1..Len(t) : IsElidable(t[i]) => Stubbed(t[i]) \in Recorded
    BY <2>1, Lighter
  <2> QED
    BY <2>1, <2>2
<1>3. made \in Seq(Recorded) /\ Len(made) = Len(t)
  <2>1. Len(t) \in Nat /\ made \in [1..Len(t) -> Recorded]
    BY <1>2
  <2> HIDE DEF made
  <2> QED
    BY <2>1
<1> QED
  BY <1>1, <1>3

LEMMA EstimateIs ==
  ASSUME NEW t \in Seq(Recorded)
  PROVE  Estimate(t) \in Int
<1> DEFINE f == [i \in DOMAIN t |-> t[i].tokens]
           z == [i \in DOMAIN t |-> 0]
<1>1. Len(t) \in Nat /\ DOMAIN t = 1..Len(t)
  OBVIOUS
<1>2. \A k \in 1..Len(t) : f[k] \in Int /\ z[k] \in Int /\ f[k] - f[k] >= z[k]
  <2> SUFFICES ASSUME NEW k \in 1..Len(t)
               PROVE  f[k] \in Int /\ z[k] \in Int /\ f[k] - f[k] >= z[k]
    OBVIOUS
  <2>1. t[k] \in Recorded /\ f[k] = t[k].tokens /\ z[k] = 0
    BY <1>1
  <2>2. t[k].tokens \in Nat
    BY <2>1, RecordedIs DEF Sizes
  <2> HIDE DEF f, z
  <2> QED
    BY <2>1, <2>2
<1>3. Estimate(t) = Total(f, Len(t))
  BY DEF Estimate
<1> HIDE DEF f, z
<1> QED
  BY <1>1, <1>2, <1>3, TotalsCompare

\* An elision saves what was estimated, at least.
LEMMA ElisionSaves ==
  ASSUME NEW t \in Seq(Recorded), NEW S
  PROVE  /\ SavedBy(t, S) \in Int
         /\ Estimate(t) - Estimate(Lowered(t, Elide(S))) >= SavedBy(t, S)
<1> DEFINE made == Lowered(t, Elide(S))
           f == [i \in DOMAIN t |-> t[i].tokens]
           g == [i \in DOMAIN made |-> made[i].tokens]
           h == [i \in DOMAIN t |-> IF i \in S THEN Savings(t[i]) ELSE 0]
<1>1. Len(t) \in Nat /\ DOMAIN t = 1..Len(t) /\ DOMAIN made = 1..Len(t) /\ Len(made) = Len(t)
  BY ElidedIs
<1>2. \A k \in 1..Len(t) : f[k] \in Int /\ g[k] \in Int /\ h[k] \in Int /\ f[k] - g[k] >= h[k]
  <2> SUFFICES ASSUME NEW k \in 1..Len(t)
               PROVE  f[k] \in Int /\ g[k] \in Int /\ h[k] \in Int /\ f[k] - g[k] >= h[k]
    OBVIOUS
  <2>1. t[k] \in Recorded /\ t[k].tokens \in Nat /\ f[k] = t[k].tokens /\ g[k] = made[k].tokens
    BY <1>1, RecordedIs DEF Sizes
  <2>2. made[k] = IF k \in S /\ IsElidable(t[k]) THEN Stubbed(t[k]) ELSE t[k]
    BY <1>1, ElidedIs
  <2>3. h[k] = IF k \in S THEN Savings(t[k]) ELSE 0
    BY <1>1
  <2>4. ~IsElidable(t[k]) => Savings(t[k]) = 0
    BY DEF Savings
  <2>5. CASE k \in S /\ IsElidable(t[k])
    <3>1. made[k] = Stubbed(t[k]) /\ h[k] = Savings(t[k])
      BY <2>2, <2>3, <2>5
    <3>2. Stubbed(t[k]).tokens \in Nat
      BY <2>1, <2>5, Lighter, RecordedIs DEF Sizes
    <3> HIDE DEF f, g, h, made
    <3> QED
      BY <2>1, <2>5, <3>1, <3>2, Lighter
  <2>6. CASE ~(k \in S /\ IsElidable(t[k]))
    <3>1. made[k] = t[k] /\ h[k] = 0
      BY <2>2, <2>3, <2>4, <2>6
    <3> HIDE DEF f, g, h, made
    <3> QED
      BY <2>1, <3>1
  <2> QED
    BY <2>5, <2>6
<1>3. Estimate(t) = Total(f, Len(t)) /\ Estimate(made) = Total(g, Len(t)) /\ SavedBy(t, S) = Total(h, Len(t))
  BY <1>1 DEF Estimate, SavedBy
<1> HIDE DEF f, g, h, made
<1>4. Total(h, Len(t)) \in Int /\ Total(f, Len(t)) - Total(g, Len(t)) >= Total(h, Len(t))
  BY <1>1, <1>2, TotalsCompare
<1> QED
  BY <1>3, <1>4 DEF made

\* Elisions of other records count the same before and after.
LEMMA SavedApart ==
  ASSUME NEW t \in Seq(Recorded), NEW R, NEW S, R \cap S = {}
  PROVE  SavedBy(Lowered(t, Elide(R)), S) = SavedBy(t, S)
<1> DEFINE made == Lowered(t, Elide(R))
<1>1. DOMAIN made = DOMAIN t /\ Len(made) = Len(t)
  BY ElidedIs
<1>2. \A i \in DOMAIN t : i \in S => made[i] = t[i]
  BY ElidedIs
<1>3. [i \in DOMAIN made |-> IF i \in S THEN Savings(made[i]) ELSE 0] =
      [i \in DOMAIN t |-> IF i \in S THEN Savings(t[i]) ELSE 0]
  <2> HIDE DEF made
  <2> QED
    BY <1>1, <1>2
<1> QED
  BY <1>1, <1>3 DEF SavedBy

\* A card costs what it is estimated at.
LEMMA CardCosts ==
  ASSUME NEW t \in Seq(Recorded), NEW n \in Nat
  PROVE  /\ Lowered(t, Digest(n)) \in Seq(Recorded)
         /\ Estimate(Lowered(t, Digest(n))) = Estimate(t) + Overhead(n)
<1> DEFINE made == Append(t, Card(n))
<1>1. Lowered(t, Digest(n)) = made
  BY CardIs DEF Lowered, Digest
<1>2. made \in Seq(Recorded) /\ Len(made) = Len(t) + 1 /\ Len(t) \in Nat
      /\ made[Len(t) + 1] = Card(n) /\ \A i \in 1..Len(t) : made[i] = t[i]
  BY CardIs, SMTT(60)
<1> DEFINE f == [i \in DOMAIN made |-> made[i].tokens]
           g == [i \in DOMAIN t |-> t[i].tokens]
<1>3. /\ \A i \in 1..Len(t) : f[i] = g[i]
      /\ f[Len(t) + 1] = Overhead(n)
  <2>1. DOMAIN made = 1..Len(t) + 1 /\ DOMAIN t = 1..Len(t)
    BY <1>2
  <2>2. made[Len(t) + 1].tokens = Overhead(n)
    BY <1>2, CardIs
  <2>3. \A i \in 1..Len(t) : i \in 1..Len(t) + 1
    BY <1>2
  <2>4. Len(t) + 1 \in 1..Len(t) + 1
    BY <1>2
  <2> HIDE DEF made
  <2> QED
    BY <1>2, <2>1, <2>2, <2>3, <2>4
<1>4. Estimate(made) = Total(f, Len(t) + 1) /\ Estimate(t) = Total(g, Len(t))
  BY <1>2 DEF Estimate
<1> HIDE DEF f, g, made
<1>5. Total(f, Len(t) + 1) = Total(g, Len(t)) + Overhead(n)
  BY <1>2, <1>3, TotalNext, ZenonT(60)
<1> QED
  BY <1>1, <1>2, <1>4, <1>5

-----------------------------------------------------------------------------
(* Compaction: orders, and the newest of a set                             *)

\* A chain of beginnings of a finite set.
Orders(order, X) ==
  /\ \A B \in order : B # {} /\ B \subseteq X
  /\ \A B, C \in order : B \subseteq C \/ C \subseteq B

\* The shortest beginning that is enough is one, so there is something in it.
LEMMA ShortestIs ==
  ASSUME NEW X, IsFiniteSet(X), NEW order, Orders(order, X), order # {}, NEW enough \in SUBSET order
  PROVE  Shortest(order, enough) \subseteq X /\ Shortest(order, enough) # {}
<1>1. Shortest(order, enough) \subseteq X
  BY DEF Shortest, Orders
<1>2. CASE enough = {}
  <2>1. PICK B \in order : B # {}
    BY DEF Orders
  <2> QED
    BY <1>1, <1>2, <2>1 DEF Shortest
<1>3. CASE enough # {}
  <2> DEFINE sizes == {Cardinality(B) : B \in enough}
  <2>1. \A B \in enough : IsFiniteSet(B) /\ Cardinality(B) \in Nat
    BY FS_Subset, FS_CardinalityType DEF Orders
  <2>2. sizes \subseteq Nat /\ sizes # {}
    BY <1>3, <2>1
  <2>3. PICK m \in sizes : \A l \in sizes : m <= l
    <3> HIDE DEF sizes
    <3> QED
      BY <2>2, Smallest
  <2>4. PICK B \in enough : m = Cardinality(B)
    BY <2>3
  <2>5. \A C \in enough : B \subseteq C
    <3> SUFFICES ASSUME NEW C \in enough, ~(B \subseteq C) PROVE FALSE
      OBVIOUS
    <3>1. C \subseteq B
      BY DEF Orders
    <3>2. Cardinality(B) <= Cardinality(C) /\ Cardinality(C) <= Cardinality(B)
      BY <2>1, <2>3, <2>4, <3>1, FS_Subset
    <3>3. Cardinality(B) = Cardinality(C)
      BY <2>1, <3>2
    <3> QED
      BY <2>1, <3>1, <3>3, FS_Subset
  <2>6. B \subseteq Shortest(order, enough)
    BY <2>5 DEF Shortest
  <2>7. B # {}
    BY DEF Orders
  <2> QED
    BY <1>1, <2>6, <2>7
<1> QED
  BY <1>2, <1>3

LEMMA OldestFirstIs ==
  ASSUME NEW X, X \subseteq Int
  PROVE  Orders(OldestFirst(X), X) /\ (OldestFirst(X) = {} <=> X = {})
<1>1. \A i \in X : i \in {j \in X : j <= i}
  OBVIOUS
<1>2. \A i, k \in X : {j \in X : j <= i} \subseteq {j \in X : j <= k}
                      \/ {j \in X : j <= k} \subseteq {j \in X : j <= i}
  <2> SUFFICES ASSUME NEW i \in X, NEW k \in X
               PROVE  {j \in X : j <= i} \subseteq {j \in X : j <= k}
                      \/ {j \in X : j <= k} \subseteq {j \in X : j <= i}
    OBVIOUS
  <2>1. i \in Int /\ k \in Int /\ \A j \in X : j \in Int
    OBVIOUS
  <2>2. CASE i <= k
    <3>1. \A j \in X : j <= i => j <= k
      BY <2>1, <2>2
    <3> QED
      BY <3>1
  <2>3. CASE k <= i
    <3>1. \A j \in X : j <= k => j <= i
      BY <2>1, <2>3
    <3> QED
      BY <3>1
  <2> QED
    BY <2>1, <2>2, <2>3
<1> DEFINE Upto(i) == {j \in X : j <= i}
<1>3. OldestFirst(X) = {Upto(i) : i \in X} /\ \A i \in X : i \in Upto(i) /\ Upto(i) \subseteq X
  BY <1>1 DEF OldestFirst
<1>4. \A i, k \in X : Upto(i) \subseteq Upto(k) \/ Upto(k) \subseteq Upto(i)
  BY <1>2
<1> HIDE DEF Upto
<1> QED
  BY <1>3, <1>4 DEF Orders

LEMMA NewestFirstIs ==
  ASSUME NEW X, X \subseteq Int
  PROVE  Orders(NewestFirst(X), X) /\ (NewestFirst(X) = {} <=> X = {})
<1>1. \A i \in X : i \in {j \in X : j >= i}
  OBVIOUS
<1>2. \A i, k \in X : {j \in X : j >= i} \subseteq {j \in X : j >= k}
                      \/ {j \in X : j >= k} \subseteq {j \in X : j >= i}
  <2> SUFFICES ASSUME NEW i \in X, NEW k \in X
               PROVE  {j \in X : j >= i} \subseteq {j \in X : j >= k}
                      \/ {j \in X : j >= k} \subseteq {j \in X : j >= i}
    OBVIOUS
  <2>1. i \in Int /\ k \in Int /\ \A j \in X : j \in Int
    OBVIOUS
  <2>2. CASE i <= k
    <3>1. \A j \in X : j >= k => j >= i
      BY <2>1, <2>2
    <3> QED
      BY <3>1
  <2>3. CASE k <= i
    <3>1. \A j \in X : j >= i => j >= k
      BY <2>1, <2>3
    <3> QED
      BY <3>1
  <2> QED
    BY <2>1, <2>2, <2>3
<1> DEFINE Upto(i) == {j \in X : j >= i}
<1>3. NewestFirst(X) = {Upto(i) : i \in X} /\ \A i \in X : i \in Upto(i) /\ Upto(i) \subseteq X
  BY <1>1 DEF NewestFirst
<1>4. \A i, k \in X : Upto(i) \subseteq Upto(k) \/ Upto(k) \subseteq Upto(i)
  BY <1>2
<1> HIDE DEF Upto
<1> QED
  BY <1>3, <1>4 DEF Orders

LEMMA CheapestFirstIs ==
  ASSUME NEW t \in Seq(Recorded), NEW X, X \subseteq DOMAIN t
  PROVE  Orders(CheapestFirst(t, X), X) /\ (CheapestFirst(t, X) = {} <=> X = {})
<1>0. \A i \in X : i \in Int /\ ScoreOf(t[i]) \in Int /\ Savings(t[i]) \in Int
  <2> SUFFICES ASSUME NEW i \in X
               PROVE  i \in Int /\ ScoreOf(t[i]) \in Int /\ Savings(t[i]) \in Int
    OBVIOUS
  <2>1. i \in 1..Len(t) /\ t[i] \in Recorded
    OBVIOUS
  <2>2. ScoreOf(t[i]) \in Int
    BY <2>1, RecordedIs DEF ScoreOf
  <2>3. Savings(t[i]) \in Int
    BY <2>1, Lighter DEF Savings
  <2> QED
    BY <2>1, <2>2, <2>3
<1> DEFINE Upto(i) == {j \in X : j = i \/ Cheaper(t, j, i)}
<1>1. \A i \in X : i \in Upto(i) /\ Upto(i) \subseteq X
  OBVIOUS
<1>2. \A i, k \in X : i = k \/ Cheaper(t, i, k) \/ Cheaper(t, k, i)
  BY <1>0 DEF Cheaper
<1>3. \A i, j, k \in X : Cheaper(t, i, j) /\ Cheaper(t, j, k) => Cheaper(t, i, k)
  BY <1>0 DEF Cheaper
<1>4. \A i, k \in X : Upto(i) \subseteq Upto(k) \/ Upto(k) \subseteq Upto(i)
  BY <1>2, <1>3
<1>5. CheapestFirst(t, X) = {Upto(i) : i \in X}
  BY DEF CheapestFirst
<1> HIDE DEF Upto
<1> QED
  BY <1>1, <1>4, <1>5 DEF Orders

\* What is not of the newest of a part is not of the newest of the whole.
LEMMA NewestOfMore ==
  ASSUME NEW T, IsFiniteSet(T), NEW S \in SUBSET T, NEW n \in Int, NEW i \in S, i \notin Newest(S, n)
  PROVE  i \notin Newest(T, n)
<1> DEFINE U == {j \in S : j > i}
           V == {j \in T : j > i}
<1>1. IsFiniteSet(V) /\ U \subseteq V
  BY FS_Subset
<1>2. IsFiniteSet(U) /\ Cardinality(U) \in Nat /\ Cardinality(V) \in Nat /\ Cardinality(U) <= Cardinality(V)
  <2> HIDE DEF U, V
  <2> QED
    BY <1>1, FS_Subset, FS_CardinalityType
<1>3. ~(Cardinality(U) < n)
  BY DEF Newest
<1>4. ~(Cardinality(V) < n)
  <2> HIDE DEF U, V
  <2> QED
    BY <1>2, <1>3
<1> QED
  BY <1>4 DEF Newest

\* The newest are what they were when others go.
LEMMA NewestStay ==
  ASSUME NEW len \in Nat, NEW T, T \subseteq 0..len, NEW n \in Int, NEW C \in SUBSET T,
         C \cap Newest(T, n) = {}
  PROVE  Newest(T \ C, n) = Newest(T, n)
<1>0. IsFiniteSet(T)
  <2>1. IsFiniteSet(0..len)
    BY FS_Interval
  <2> QED
    BY <2>1, FS_Subset
<1>1. \A i \in Newest(T, n) : i \in Newest(T \ C, n)
  <2> SUFFICES ASSUME NEW i \in Newest(T, n), i \notin Newest(T \ C, n) PROVE FALSE
    OBVIOUS
  <2>1. i \in T \ C
    BY DEF Newest
  <2> QED
    BY <1>0, <2>1, NewestOfMore
<1>2. \A i \in Newest(T \ C, n) : i \in Newest(T, n)
  <2> SUFFICES ASSUME NEW i \in Newest(T \ C, n), i \notin Newest(T, n) PROVE FALSE
    OBVIOUS
  <2> DEFINE Dropped == {j \in T : j >= i /\ j \notin Newest(T, n)}
  <2>1. i \in T \ C /\ i \in Dropped
    BY DEF Newest
  <2>2. PICK m \in Dropped : \A j \in Dropped : j <= m
    <3>1. Dropped \subseteq 0..len /\ Dropped # {}
      BY <2>1
    <3> HIDE DEF Dropped
    <3> QED
      BY <3>1, MaxIs
  <2> DEFINE V == {j \in T : j > m}
             U == {j \in T \ C : j > i}
  <2>3. V \subseteq U
    <3> SUFFICES ASSUME NEW j \in T, j > m PROVE j \in T \ C /\ j > i
      OBVIOUS
    <3>1. j \in Int /\ m \in Int /\ i \in Int /\ m >= i
      BY <2>1, <2>2
    <3>2. j \notin Dropped /\ j > i /\ j >= i
      <4> HIDE DEF Dropped
      <4> QED
        BY <2>2, <3>1
    <3> QED
      BY <3>2
  <2>4. ~(Cardinality(V) < n)
    BY <2>2 DEF Newest
  <2>5. IsFiniteSet(U) /\ IsFiniteSet(V)
    BY <1>0, FS_Subset
  <2>6. Cardinality(V) <= Cardinality(U) /\ Cardinality(V) \in Nat /\ Cardinality(U) \in Nat
    <3> HIDE DEF U, V
    <3> QED
      BY <2>3, <2>5, FS_Subset, FS_CardinalityType
  <2>7. Cardinality(U) < n
    BY DEF Newest
  <2> HIDE DEF U, V
  <2> QED
    BY <2>4, <2>6, <2>7
<1> QED
  BY <1>1, <1>2

-----------------------------------------------------------------------------
(* Compaction: plans                                                       *)

\* What one edit makes, and what two make.
LEMMA RewrittenIs ==
  ASSUME NEW t, NEW edits, Len(edits) \in Nat, Len(edits) >= 1, Len(edits) <= 2
  PROVE  Rewritten(t, edits) = IF Len(edits) < 2 THEN Lowered(t, edits[1])
                                 ELSE Lowered(Lowered(t, edits[1]), edits[2])
<1>0. \A n \in 0..Len(edits) : n = 0 \/ (n = 1 /\ n - 1 = 0) \/ (n = 2 /\ n - 1 = 1)
  <2>1. Len(edits) \in Int /\ Len(edits) <= 2
    OBVIOUS
  <2> SUFFICES ASSUME NEW n \in 0..Len(edits), n # 0, n # 1 PROVE n = 2
    OBVIOUS
  <2> QED
    BY <2>1
<1> DEFINE Runs(f) == f = [n \in 0..Len(edits) |-> IF n = 0 THEN t ELSE Lowered(f[n - 1], edits[n])]
           first == Lowered(t, edits[1])
           second == Lowered(first, edits[2])
           f == [n \in 0..Len(edits) |-> IF n = 0 THEN t ELSE IF n = 1 THEN first ELSE second]
           g == CHOOSE h : Runs(h)
<1>1. Runs(f)
  <2>1. \A n \in 0..Len(edits) : n = 0 \/ (n = 1 /\ n - 1 = 0) \/ (n = 2 /\ n - 1 = 1)
    BY <1>0
  <2>2. /\ 0 \in 0..Len(edits) /\ 1 \in 0..Len(edits)
        /\ f[0] = t /\ f[1] = first /\ (2 \in 0..Len(edits) => f[2] = second)
    OBVIOUS
  <2> DEFINE r == [n \in 0..Len(edits) |-> IF n = 0 THEN t ELSE Lowered(f[n - 1], edits[n])]
  <2>3. /\ r[0] = t /\ r[1] = Lowered(f[1 - 1], edits[1])
        /\ (2 \in 0..Len(edits) => r[2] = Lowered(f[2 - 1], edits[2]))
    <3> HIDE DEF f, first, second
    <3> QED
      BY <2>2
  <2>4. r[0] = t /\ r[1] = first /\ (2 \in 0..Len(edits) => r[2] = second)
    <3>1. 1 - 1 = 0 /\ 2 - 1 = 1
      OBVIOUS
    <3> HIDE DEF f, r
    <3> QED
      BY <2>2, <2>3, <3>1
  <2>5. \A n \in 0..Len(edits) : f[n] = r[n]
    <3> HIDE DEF f, r
    <3> QED
      BY <2>1, <2>2, <2>4
  <2>6. f = r
    <3> HIDE DEF first, second
    <3> QED
      BY <2>5
  <2> QED
    BY <2>6
<1>2. Runs(g)
  <2> HIDE DEF Runs, f
  <2> QED
    BY <1>1
<1>3. \A n \in 0..Len(edits) : g[n] = IF n = 0 THEN t ELSE Lowered(g[n - 1], edits[n])
  <2> HIDE DEF g
  <2> QED
    BY <1>2
<1>4. g[0] = t /\ g[1] = first /\ (Len(edits) > 1 => g[2] = second)
  <2>1. 0 \in 0..Len(edits) /\ 1 \in 0..Len(edits) /\ (Len(edits) > 1 => 2 \in 0..Len(edits))
        /\ 1 - 1 = 0 /\ 2 - 1 = 1
    OBVIOUS
  <2>2. g[0] = t /\ g[1] = Lowered(g[1 - 1], edits[1])
        /\ (Len(edits) > 1 => g[2] = Lowered(g[2 - 1], edits[2]))
    <3> HIDE DEF g
    <3> QED
      BY <1>3, <2>1
  <2> HIDE DEF g
  <2> QED
    BY <2>1, <2>2
<1>5. Rewritten(t, edits) = g[Len(edits)]
  BY DEF Rewritten
<1> HIDE DEF g, first, second
<1>6. \A n \in 0..Len(edits) :
        ~(n < Len(edits)) => g[n] = IF Len(edits) < 2 THEN g[1] ELSE g[2]
  BY <1>0
<1>7. Len(edits) \in 0..Len(edits) /\ ~(Len(edits) < Len(edits))
  OBVIOUS
<1>8. g[Len(edits)] = IF Len(edits) < 2 THEN g[1] ELSE g[2]
  BY <1>6, <1>7
<1>9. Len(edits) < 2 \/ Len(edits) > 1
  OBVIOUS
<1> QED
  BY <1>4, <1>5, <1>8, <1>9 DEF first, second

\* One edit is admitted, and two are if the first admits the second.
LEMMA AdmittedIs ==
  ASSUME NEW edits, Len(edits) \in Nat, Len(edits) >= 1, Len(edits) <= 2
  PROVE  Admitted(edits) <=>
           Admits(Fresh, edits[1]) /\ (Len(edits) > 1 => Admits(Admit(Fresh, edits[1]), edits[2]))
<1>0. \A n \in 0..Len(edits) : n = 0 \/ (n = 1 /\ n - 1 = 0) \/ (n = 2 /\ n - 1 = 1)
  <2>1. Len(edits) \in Int /\ Len(edits) <= 2
    OBVIOUS
  <2> SUFFICES ASSUME NEW n \in 0..Len(edits), n # 0, n # 1 PROVE n = 2
    OBVIOUS
  <2> QED
    BY <2>1
<1> DEFINE Runs(f) == f = [n \in 0..Len(edits) |-> IF n = 0 THEN Fresh ELSE Admit(f[n - 1], edits[n])]
           first == Admit(Fresh, edits[1])
           second == Admit(first, edits[2])
           f == [n \in 0..Len(edits) |-> IF n = 0 THEN Fresh ELSE IF n = 1 THEN first ELSE second]
           g == CHOOSE h : Runs(h)
<1>1. Runs(f)
  <2>1. \A n \in 0..Len(edits) : n = 0 \/ (n = 1 /\ n - 1 = 0) \/ (n = 2 /\ n - 1 = 1)
    BY <1>0
  <2>2. /\ 0 \in 0..Len(edits) /\ 1 \in 0..Len(edits)
        /\ f[0] = Fresh /\ f[1] = first /\ (2 \in 0..Len(edits) => f[2] = second)
    OBVIOUS
  <2> DEFINE r == [n \in 0..Len(edits) |-> IF n = 0 THEN Fresh ELSE Admit(f[n - 1], edits[n])]
  <2>3. /\ r[0] = Fresh /\ r[1] = Admit(f[1 - 1], edits[1])
        /\ (2 \in 0..Len(edits) => r[2] = Admit(f[2 - 1], edits[2]))
    <3> HIDE DEF f, first, second
    <3> QED
      BY <2>2
  <2>4. r[0] = Fresh /\ r[1] = first /\ (2 \in 0..Len(edits) => r[2] = second)
    <3>1. 1 - 1 = 0 /\ 2 - 1 = 1
      OBVIOUS
    <3> HIDE DEF f, r
    <3> QED
      BY <2>2, <2>3, <3>1
  <2>5. \A n \in 0..Len(edits) : f[n] = r[n]
    <3> HIDE DEF f, r
    <3> QED
      BY <2>1, <2>2, <2>4
  <2>6. f = r
    <3> HIDE DEF first, second
    <3> QED
      BY <2>5
  <2> QED
    BY <2>6
<1>2. Runs(g)
  <2> HIDE DEF Runs, f
  <2> QED
    BY <1>1
<1>3. \A n \in 0..Len(edits) : g[n] = IF n = 0 THEN Fresh ELSE Admit(g[n - 1], edits[n])
  <2> HIDE DEF g
  <2> QED
    BY <1>2
<1>4. g[0] = Fresh /\ g[1] = first /\ (Len(edits) > 1 => g[2] = second)
  <2>1. 0 \in 0..Len(edits) /\ 1 \in 0..Len(edits) /\ (Len(edits) > 1 => 2 \in 0..Len(edits))
        /\ 1 - 1 = 0 /\ 2 - 1 = 1
    OBVIOUS
  <2>2. g[0] = Fresh /\ g[1] = Admit(g[1 - 1], edits[1])
        /\ (Len(edits) > 1 => g[2] = Admit(g[2 - 1], edits[2]))
    <3> HIDE DEF g
    <3> QED
      BY <1>3, <2>1
  <2> HIDE DEF g
  <2> QED
    BY <2>1, <2>2
<1>5. Admitted(edits) <=> Len(edits) <= MaxEdits /\ \A n \in 1..Len(edits) : Admits(g[n - 1], edits[n])
  BY DEF Admitted
<1> HIDE DEF g, first, second
<1>6. Len(edits) <= MaxEdits
  BY CompactionAssumption
<1>7. (\A n \in 1..Len(edits) : Admits(g[n - 1], edits[n])) <=>
        Admits(g[0], edits[1]) /\ (Len(edits) > 1 => Admits(g[1], edits[2]))
  <2>0. \A n \in 1..Len(edits) : n \in 0..Len(edits) /\ n # 0 /\ (n = 2 => Len(edits) > 1)
    OBVIOUS
  <2>1. /\ \A n \in 1..Len(edits) : (n = 1 /\ n - 1 = 0) \/ (Len(edits) > 1 /\ n = 2 /\ n - 1 = 1)
        /\ 1 \in 1..Len(edits) /\ (Len(edits) > 1 => 2 \in 1..Len(edits)) /\ 1 - 1 = 0 /\ 2 - 1 = 1
    BY <1>0, <2>0
  <2> QED
    BY <2>1
<1> QED
  BY <1>4, <1>5, <1>6, <1>7 DEF first

\* What is expected after one edit, and after two.
LEMMA ExternalAfterIs ==
  ASSUME NEW t, NEW before, NEW edits, Len(edits) \in Nat, Len(edits) >= 1, Len(edits) <= 2
  PROVE  ExternalAfter(t, before, edits) =
           IF Len(edits) < 2 THEN Expected(t, before, edits[1])
           ELSE Expected(t, Expected(t, before, edits[1]), edits[2])
<1>0. \A n \in 0..Len(edits) : n = 0 \/ (n = 1 /\ n - 1 = 0) \/ (n = 2 /\ n - 1 = 1)
  <2>1. Len(edits) \in Int /\ Len(edits) <= 2
    OBVIOUS
  <2> SUFFICES ASSUME NEW n \in 0..Len(edits), n # 0, n # 1 PROVE n = 2
    OBVIOUS
  <2> QED
    BY <2>1
<1> DEFINE Runs(f) == f = [n \in 0..Len(edits) |-> IF n = 0 THEN before ELSE Expected(t, f[n - 1], edits[n])]
           first == Expected(t, before, edits[1])
           second == Expected(t, first, edits[2])
           f == [n \in 0..Len(edits) |-> IF n = 0 THEN before ELSE IF n = 1 THEN first ELSE second]
           g == CHOOSE h : Runs(h)
<1>1. Runs(f)
  <2>1. \A n \in 0..Len(edits) : n = 0 \/ (n = 1 /\ n - 1 = 0) \/ (n = 2 /\ n - 1 = 1)
    BY <1>0
  <2>2. /\ 0 \in 0..Len(edits) /\ 1 \in 0..Len(edits)
        /\ f[0] = before /\ f[1] = first /\ (2 \in 0..Len(edits) => f[2] = second)
    OBVIOUS
  <2> DEFINE r == [n \in 0..Len(edits) |-> IF n = 0 THEN before ELSE Expected(t, f[n - 1], edits[n])]
  <2>3. /\ r[0] = before /\ r[1] = Expected(t, f[1 - 1], edits[1])
        /\ (2 \in 0..Len(edits) => r[2] = Expected(t, f[2 - 1], edits[2]))
    <3> HIDE DEF f, first, second
    <3> QED
      BY <2>2
  <2>4. r[0] = before /\ r[1] = first /\ (2 \in 0..Len(edits) => r[2] = second)
    <3>1. 1 - 1 = 0 /\ 2 - 1 = 1
      OBVIOUS
    <3> HIDE DEF f, r
    <3> QED
      BY <2>2, <2>3, <3>1
  <2>5. \A n \in 0..Len(edits) : f[n] = r[n]
    <3> HIDE DEF f, r
    <3> QED
      BY <2>1, <2>2, <2>4
  <2>6. f = r
    <3> HIDE DEF first, second
    <3> QED
      BY <2>5
  <2> QED
    BY <2>6
<1>2. Runs(g)
  <2> HIDE DEF Runs, f
  <2> QED
    BY <1>1
<1>3. \A n \in 0..Len(edits) : g[n] = IF n = 0 THEN before ELSE Expected(t, g[n - 1], edits[n])
  <2> HIDE DEF g
  <2> QED
    BY <1>2
<1>4. g[0] = before /\ g[1] = first /\ (Len(edits) > 1 => g[2] = second)
  <2>1. 0 \in 0..Len(edits) /\ 1 \in 0..Len(edits) /\ (Len(edits) > 1 => 2 \in 0..Len(edits))
        /\ 1 - 1 = 0 /\ 2 - 1 = 1
    OBVIOUS
  <2>2. g[0] = before /\ g[1] = Expected(t, g[1 - 1], edits[1])
        /\ (Len(edits) > 1 => g[2] = Expected(t, g[2 - 1], edits[2]))
    <3> HIDE DEF g
    <3> QED
      BY <1>3, <2>1
  <2> HIDE DEF g
  <2> QED
    BY <2>1, <2>2
<1>5. ExternalAfter(t, before, edits) = g[Len(edits)]
  BY DEF ExternalAfter
<1> HIDE DEF g, first, second
<1>6. \A n \in 0..Len(edits) :
        ~(n < Len(edits)) => g[n] = IF Len(edits) < 2 THEN g[1] ELSE g[2]
  BY <1>0
<1>7. Len(edits) \in 0..Len(edits) /\ ~(Len(edits) < Len(edits))
  OBVIOUS
<1>8. g[Len(edits)] = IF Len(edits) < 2 THEN g[1] ELSE g[2]
  BY <1>6, <1>7
<1>9. Len(edits) < 2 \/ Len(edits) > 1
  OBVIOUS
<1> QED
  BY <1>4, <1>5, <1>8, <1>9 DEF first, second

\* The same for one edit, and for two.
LEMMA OneEdit ==
  ASSUME NEW t, NEW before, NEW e
  PROVE  /\ Rewritten(t, <<e>>) = Lowered(t, e)
         /\ Admitted(<<e>>) <=> Admits(Fresh, e)
         /\ ExternalAfter(t, before, <<e>>) = Expected(t, before, e)
<1> DEFINE edits == <<e>>
<1>1. Len(edits) \in Nat /\ Len(edits) >= 1 /\ Len(edits) <= 2 /\ Len(edits) < 2
      /\ ~(Len(edits) > 1) /\ edits[1] = e
  OBVIOUS
<1> HIDE DEF edits
<1>2. Rewritten(t, edits) = Lowered(t, e)
  BY <1>1, RewrittenIs
<1>3. Admitted(edits) <=> Admits(Fresh, e)
  BY <1>1, AdmittedIs
<1>4. ExternalAfter(t, before, edits) = Expected(t, before, e)
  BY <1>1, ExternalAfterIs
<1> QED
  BY <1>2, <1>3, <1>4 DEF edits

LEMMA TwoRewritten ==
  ASSUME NEW t, NEW d, NEW e
  PROVE  Rewritten(t, <<d, e>>) = Lowered(Lowered(t, d), e)
<1> DEFINE edits == <<d, e>>
<1>1. Len(edits) \in Nat /\ Len(edits) >= 1 /\ Len(edits) <= 2 /\ ~(Len(edits) < 2)
      /\ edits[1] = d /\ edits[2] = e
  OBVIOUS
<1> HIDE DEF edits
<1>2. Rewritten(t, edits) = Lowered(Lowered(t, d), e)
  BY <1>1, RewrittenIs
<1> QED
  BY <1>2 DEF edits

LEMMA TwoEdits ==
  ASSUME NEW t, NEW before, NEW d, NEW e
  PROVE  /\ Admitted(<<d, e>>) <=> Admits(Fresh, d) /\ Admits(Admit(Fresh, d), e)
         /\ ExternalAfter(t, before, <<d, e>>) = Expected(t, Expected(t, before, d), e)
<1> DEFINE edits == <<d, e>>
<1>1. Len(edits) \in Nat /\ Len(edits) >= 1 /\ Len(edits) <= 2 /\ ~(Len(edits) < 2)
      /\ Len(edits) > 1 /\ edits[1] = d /\ edits[2] = e
  OBVIOUS
<1> HIDE DEF edits
<1>3. Admitted(edits) <=> Admits(Fresh, d) /\ Admits(Admit(Fresh, d), e)
  BY <1>1, AdmittedIs
<1>4. ExternalAfter(t, before, edits) = Expected(t, Expected(t, before, d), e)
  BY <1>1, ExternalAfterIs
<1> QED
  BY <1>3, <1>4 DEF edits

\* A plan takes some of X from the transcript, and may add a card.
CutsOf(t, before, plan, X) ==
  \E S \in SUBSET X : S # {} /\ plan \in {Cut(t, before, S), CutWithCard(t, before, S)}

LEMMA ShedIs ==
  ASSUME NEW t, NEW before, NEW floor, NEW X, IsFiniteSet(X), NEW order, Orders(order, X)
  PROVE  /\ Shed(t, before, floor, order) # Nil =>
              CutsOf(t, before, Shed(t, before, floor, order), X)
         /\ ShedForCard(t, before, floor, order) # Nil =>
              CutsOf(t, before, ShedForCard(t, before, floor, order), X)
<1> DEFINE enough == {B \in order : Left(t, before, B) <= floor}
           carded == {B \in order : After(t, before, B) <= floor \/ Left(t, before, B) = 0}
<1>1. order # {} =>
        /\ Shortest(order, enough) \subseteq X /\ Shortest(order, enough) # {}
        /\ Shortest(order, carded) \subseteq X /\ Shortest(order, carded) # {}
  <2>1. enough \in SUBSET order /\ carded \in SUBSET order
    OBVIOUS
  <2> HIDE DEF enough, carded
  <2> QED
    BY <2>1, ShortestIs
<1>2. Shed(t, before, floor, order) # Nil =>
        order # {} /\ Shed(t, before, floor, order) = Cut(t, before, Shortest(order, enough))
  BY DEF Shed
<1>3. ShedForCard(t, before, floor, order) # Nil =>
        order # {} /\ ShedForCard(t, before, floor, order) = CutWithCard(t, before, Shortest(order, carded))
  BY DEF ShedForCard
<1> HIDE DEF enough, carded
<1> QED
  BY <1>1, <1>2, <1>3 DEF CutsOf

LEMMA PlacesAre ==
  ASSUME NEW t \in Seq(Recorded)
  PROVE  /\ Elidable(t) \subseteq 1..Len(t) /\ \A p : Candidates(t, p) \subseteq Elidable(t)
         /\ \A X \in SUBSET Elidable(t) : X \subseteq Int /\ IsFiniteSet(X)
<1>1. Elidable(t) \subseteq 1..Len(t)
  BY DEF Elidable
<1>2. IsFiniteSet(1..Len(t))
  BY FS_Interval
<1>3. \A X \in SUBSET Elidable(t) : X \subseteq Int /\ IsFiniteSet(X)
  <2> SUFFICES ASSUME NEW X \in SUBSET Elidable(t) PROVE X \subseteq Int /\ IsFiniteSet(X)
    OBVIOUS
  <2>1. X \in SUBSET (1..Len(t)) /\ 1..Len(t) \subseteq Int
    BY <1>1
  <2>2. IsFiniteSet(X)
    BY <1>2, <2>1, FS_Subset
  <2> QED
    BY <2>1, <2>2
<1> QED
  BY <1>1, <1>3 DEF Candidates

\* A cut of some is a cut of more.
LEMMA CutsOfMore ==
  ASSUME NEW t, NEW before, NEW plan, NEW X, NEW Y, X \subseteq Y, CutsOf(t, before, plan, X)
  PROVE  CutsOf(t, before, plan, Y)
  BY DEF CutsOf

\* Sheds of some of the candidates, in either order.
LEMMA CandidatesShed ==
  ASSUME NEW t \in Seq(Recorded), NEW before, NEW floor, NEW X \in SUBSET Elidable(t),
         NEW plan, plan # Nil,
         \/ plan = Shed(t, before, floor, OldestFirst(X))
         \/ plan = ShedForCard(t, before, floor, OldestFirst(X))
         \/ plan = ShedForCard(t, before, floor, NewestFirst(X))
  PROVE  CutsOf(t, before, plan, X)
<1>1. X \subseteq Int /\ IsFiniteSet(X)
  BY PlacesAre
<1>2. Orders(OldestFirst(X), X) /\ Orders(NewestFirst(X), X)
  BY <1>1, OldestFirstIs, NewestFirstIs
<1> QED
  BY <1>1, <1>2, ShedIs

\* Every strategy but `micro` plans a cut of candidates.
LEMMA MiddleCuts ==
  ASSUME NEW t \in Seq(Recorded), NEW p, p.keep \in Int, NEW before, PlanMiddle(t, p, before) # Nil
  PROVE  CutsOf(t, before, PlanMiddle(t, p, before), Candidates(t, p))
<1> DEFINE rest == Elidable(t) \ Oldest(Elidable(t), p.keep)
           X == rest \ Newest(rest, p.keep)
<1>1. X \subseteq Candidates(t, p)
  <2> SUFFICES ASSUME NEW i \in rest, i \notin Newest(rest, p.keep) PROVE i \in Candidates(t, p)
    OBVIOUS
  <2>1. IsFiniteSet(Elidable(t)) /\ rest \in SUBSET Elidable(t)
    BY PlacesAre
  <2>2. i \in Elidable(t) /\ i \notin Newest(Elidable(t), p.keep)
    <3> HIDE DEF rest
    <3> QED
      BY <2>1, NewestOfMore
  <2> QED
    BY <2>2 DEF Candidates, Protected
<1>2. PlanMiddle(t, p, before) = ShedForCard(t, before, p.floor, OldestFirst(X))
  BY DEF PlanMiddle
<1>3. X \in SUBSET Elidable(t)
  OBVIOUS
<1> HIDE DEF X
<1>4. CutsOf(t, before, PlanMiddle(t, p, before), X)
  BY <1>2, <1>3, CandidatesShed
<1> QED
  BY <1>1, <1>4, CutsOfMore

LEMMA ScoredCuts ==
  ASSUME NEW t \in Seq(Recorded), NEW p, NEW before, PlanScored(t, p, before) # Nil
  PROVE  CutsOf(t, before, PlanScored(t, p, before), Candidates(t, p))
<1> DEFINE target == Capped(before - p.floor)
           newest == NewestFirst(Droppable(t, p))
           enough == {B \in newest : SavedBy(t, B) >= target + Reserve}
           window == Shortest(newest, enough)
           order == CheapestFirst(t, window)
           chosen == {B \in order : SavedBy(t, B) >= target /\ After(t, before, B) <= p.floor}
<1>1. /\ Droppable(t, p) # {}
      /\ PlanScored(t, p, before) = CutWithCard(t, before, Shortest(order, chosen))
  BY DEF PlanScored
<1>2. /\ Droppable(t, p) \subseteq Candidates(t, p) /\ Candidates(t, p) \in SUBSET Elidable(t)
      /\ Droppable(t, p) \in SUBSET Elidable(t)
  BY DEF Droppable, Candidates
<1>3. Droppable(t, p) \subseteq Int /\ IsFiniteSet(Droppable(t, p))
  BY <1>2, PlacesAre
<1>4. Orders(newest, Droppable(t, p)) /\ newest # {} /\ enough \in SUBSET newest
  <2>1. enough \in SUBSET newest
    OBVIOUS
  <2> HIDE DEF enough
  <2> QED
    BY <1>1, <1>3, <2>1, NewestFirstIs
<1>5. window \subseteq Droppable(t, p) /\ window # {}
  <2> HIDE DEF newest, enough
  <2> QED
    BY <1>3, <1>4, ShortestIs
<1>6. window \in SUBSET Elidable(t) /\ window \subseteq DOMAIN t /\ IsFiniteSet(window)
  <2>1. window \in SUBSET Elidable(t)
    BY <1>2, <1>5
  <2> HIDE DEF window
  <2> QED
    BY <2>1, PlacesAre DEF Elidable
<1>7. Orders(order, window) /\ order # {} /\ chosen \in SUBSET order
  <2>1. chosen \in SUBSET order
    OBVIOUS
  <2> HIDE DEF chosen, window
  <2> QED
    BY <1>5, <1>6, <2>1, CheapestFirstIs
<1>8. Shortest(order, chosen) \subseteq window /\ Shortest(order, chosen) # {}
  <2> HIDE DEF order, chosen, window
  <2> QED
    BY <1>6, <1>7, ShortestIs
<1>9. Shortest(order, chosen) \in SUBSET Candidates(t, p)
  <2> HIDE DEF order, chosen, window
  <2> QED
    BY <1>2, <1>5, <1>8
<1> HIDE DEF order, chosen
<1> QED
  BY <1>1, <1>8, <1>9 DEF CutsOf

LEMMA FilesCut ==
  ASSUME NEW t \in Seq(Recorded), NEW p, p.keep \in Int, NEW before, NEW plan, plan # Nil
  PROVE  /\ plan \in {PlanElide(t, p, before), PlanCompacted(t, p, before), PlanCacheAware(t, p, before),
                      PlanDedupe(t, p, before), PlanMiddle(t, p, before), PlanStructured(t, p, before),
                      PlanCliff(t, p, before), PlanScored(t, p, before)} =>
              CutsOf(t, before, plan, Candidates(t, p))
         /\ plan = PlanMicro(t, p, before) => CutsOf(t, before, plan, Elidable(t))
<1>0. Candidates(t, p) \in SUBSET Elidable(t)
  BY PlacesAre
<1>1. ASSUME plan \in {PlanElide(t, p, before), PlanCompacted(t, p, before), PlanCacheAware(t, p, before)}
      PROVE  CutsOf(t, before, plan, Candidates(t, p))
  BY <1>0, <1>1, CandidatesShed DEF PlanElide, PlanCompacted, PlanCacheAware
<1>2. ASSUME plan = PlanDedupe(t, p, before) PROVE CutsOf(t, before, plan, Candidates(t, p))
  <2> DEFINE repeated == {i \in Candidates(t, p) :
                            t[i].text # Nil /\ \E j \in Candidates(t, p) :
                              j > i /\ t[j].tool = t[i].tool /\ t[j].text = t[i].text}
  <2>1. plan = ShedForCard(t, before, p.floor, OldestFirst(repeated))
    BY <1>2 DEF PlanDedupe
  <2>2. repeated \subseteq Candidates(t, p) /\ repeated \in SUBSET Elidable(t)
    BY <1>0
  <2> HIDE DEF repeated
  <2>3. CutsOf(t, before, plan, repeated)
    BY <2>1, <2>2, CandidatesShed
  <2> QED
    BY <2>2, <2>3, CutsOfMore
<1>3. ASSUME plan = PlanStructured(t, p, before) PROVE CutsOf(t, before, plan, Candidates(t, p))
  BY <1>3 DEF PlanStructured, CutsOf
<1>4. ASSUME plan = PlanCliff(t, p, before) PROVE CutsOf(t, before, plan, Candidates(t, p))
  <2>1. CliffDrops(t, p) \subseteq Candidates(t, p)
    BY DEF CliffDrops, Candidates
  <2> QED
    BY <1>4, <2>1 DEF PlanCliff, CutsOf
<1>5. ASSUME plan = PlanMicro(t, p, before) PROVE CutsOf(t, before, plan, Elidable(t))
  <2> DEFINE of(tool) == {i \in Elidable(t) : t[i].tool = tool}
             kept == UNION {Newest(of(t[i].tool), KeepPerTool) : i \in Elidable(t)}
  <2>1. plan = ShedForCard(t, before, p.floor, OldestFirst(Elidable(t) \ kept))
    BY <1>5 DEF PlanMicro
  <2> HIDE DEF kept
  <2>2. CutsOf(t, before, plan, Elidable(t) \ kept)
    BY <2>1, CandidatesShed
  <2> QED
    BY <2>2, CutsOfMore
<1> QED
  BY <1>1, <1>2, <1>3, <1>4, <1>5, MiddleCuts, ScoredCuts

\* What a control is: one edit, of results there are, or none for the provider.
ControlOf(t, plan) ==
  \/ Claude /\ \E S \in SUBSET (DOMAIN t) : S # {} /\ plan.edits = <<CacheEdit(S)>>
  \/ plan.edits = <<ProviderCompact>>

LEMMA ControlsPlanned ==
  ASSUME NEW t \in Seq(Recorded), NEW p, NEW before, NEW plan, plan # Nil,
         plan \in {PlanCacheEdits(t, p, before), PlanSawtooth(p)}
  PROVE  ControlOf(t, plan)
<1>1. CASE plan = PlanSawtooth(p)
  BY <1>1 DEF PlanSawtooth, Plan, ControlOf
<1>2. CASE plan = PlanCacheEdits(t, p, before)
  <2> DEFINE order == CheapestFirst(t, Candidates(t, p))
             enough == {B \in order : Left(t, before, B) <= p.floor}
             chosen == Shortest(order, enough)
  <2>1. Claude /\ order # {} /\ plan = Plan(<<CacheEdit(chosen)>>, Left(t, before, chosen))
    BY <1>2 DEF PlanCacheEdits
  <2>2. Candidates(t, p) \subseteq DOMAIN t /\ IsFiniteSet(Candidates(t, p))
    BY PlacesAre
  <2>3. Orders(order, Candidates(t, p)) /\ enough \in SUBSET order
    <3>1. enough \in SUBSET order
      OBVIOUS
    <3> HIDE DEF enough
    <3> QED
      BY <2>2, <3>1, CheapestFirstIs
  <2>4. chosen \subseteq Candidates(t, p) /\ chosen # {}
    <3> HIDE DEF order, enough
    <3> QED
      BY <2>1, <2>2, <2>3, ShortestIs
  <2>5. chosen \in SUBSET (DOMAIN t) /\ plan.edits = <<CacheEdit(chosen)>>
    <3> HIDE DEF chosen
    <3> QED
      BY <2>1, <2>2, <2>4 DEF Plan
  <2> HIDE DEF chosen
  <2> QED
    BY <2>1, <2>4, <2>5 DEF ControlOf
<1> QED
  BY <1>1, <1>2

LEMMA BestIs ==
  ASSUME NEW t \in Seq(Recorded), NEW p, p.keep \in Int, NEW before,
         Best(t, before, FilePlans(t, p, before)) # Nil
  PROVE  CutsOf(t, before, Best(t, before, FilePlans(t, p, before)), Elidable(t))
<1> DEFINE plans == FilePlans(t, p, before)
           found == {i \in DOMAIN plans : plans[i] # Nil}
           best == {i \in found : \A j \in found : Worth(t, before, plans[j]) <= Worth(t, before, plans[i])}
<1>1. best # {} /\ Best(t, before, plans) = plans[Min(best)]
  BY DEF Best
<1>2. DOMAIN plans = 1..8
  BY DEF FilePlans
<1>3. best \subseteq Nat /\ \A i \in best : i \in 1..8 /\ plans[i] # Nil
  <2> HIDE DEF plans
  <2> QED
    BY <1>2
<1>4. Min(best) \in best
  <2> HIDE DEF best
  <2> QED
    BY <1>1, <1>3, MinIs
<1>5. \A i \in 1..8 :
        plans[i] \in {PlanElide(t, p, before), PlanCompacted(t, p, before), PlanCacheAware(t, p, before),
                      PlanDedupe(t, p, before), PlanMiddle(t, p, before), PlanStructured(t, p, before),
                      PlanCliff(t, p, before), PlanScored(t, p, before)}
        \/ plans[i] = PlanMicro(t, p, before)
  BY DEF FilePlans
<1> HIDE DEF plans, best
<1>6. \A i \in 1..8 : plans[i] # Nil => CutsOf(t, before, plans[i], Elidable(t))
  <2>1. Candidates(t, p) \subseteq Elidable(t)
    BY PlacesAre
  <2> QED
    BY <1>5, <2>1, FilesCut, CutsOfMore
<1> QED
  BY <1>1, <1>3, <1>4, <1>6 DEF plans

\* Every plan is a control or a cut, and of candidates, unless it may be from `micro`.
LEMMA PlansAre ==
  ASSUME NEW t \in Seq(Recorded), NEW p, p.keep \in Int, NEW before, NEW name \in Strategies,
         NEW live \in BOOLEAN, PlanOf(name, t, p, before, live) # Nil
  PROVE  LET plan == PlanOf(name, t, p, before, live)
         IN \/ ControlOf(t, plan)
            \/ /\ CutsOf(t, before, plan, Elidable(t))
               /\ name \notin {"micro", "auto"} => CutsOf(t, before, plan, Candidates(t, p))
<1> DEFINE plan == PlanOf(name, t, p, before, live)
<1>0. Candidates(t, p) \subseteq Elidable(t)
  BY PlacesAre
<1>1. CASE name = "auto"
  <2>1. \/ plan \in {PlanCacheEdits(t, p, before), PlanSawtooth(p)}
        \/ plan = Best(t, before, FilePlans(t, p, before))
    BY <1>1 DEF PlanOf, PlanAuto
  <2> HIDE DEF plan
  <2>2. plan # Nil
    BY DEF plan
  <2> QED
    BY <1>1, <2>1, <2>2, BestIs, ControlsPlanned DEF plan
<1>2. CASE name \in {"cache_edits", "sawtooth"}
  <2>1. plan \in {PlanCacheEdits(t, p, before), PlanSawtooth(p)}
    BY <1>2 DEF PlanOf
  <2> HIDE DEF plan
  <2>2. plan # Nil
    BY DEF plan
  <2> QED
    BY <2>1, <2>2, ControlsPlanned DEF plan
<1>3. CASE name = "micro"
  <2>1. plan = PlanMicro(t, p, before)
    BY <1>3 DEF PlanOf
  <2> HIDE DEF plan
  <2>2. plan # Nil
    BY DEF plan
  <2> QED
    BY <1>3, <2>1, <2>2, FilesCut DEF plan
<1>4. CASE name \notin {"auto", "cache_edits", "sawtooth", "micro"}
  <2>1. plan \in {PlanElide(t, p, before), PlanCompacted(t, p, before), PlanCacheAware(t, p, before),
                  PlanDedupe(t, p, before), PlanMiddle(t, p, before), PlanStructured(t, p, before),
                  PlanCliff(t, p, before), PlanScored(t, p, before)}
    BY <1>4 DEF PlanOf, Strategies
  <2> HIDE DEF plan
  <2>2. plan # Nil
    BY DEF plan
  <2>3. CutsOf(t, before, plan, Candidates(t, p))
    BY <2>1, <2>2, FilesCut
  <2> QED
    BY <1>0, <2>3, CutsOfMore DEF plan
<1> QED
  BY <1>1, <1>2, <1>3, <1>4

-----------------------------------------------------------------------------
(* Compaction: what is admitted, and what it saves                         *)

LEMMA ValidAlone ==
  ASSUME NEW t, NEW p, NEW e, Admits(Fresh, e),
         \/ e.op = "elide" /\ TargetsAllowed(t, p, e.lines)
         \/ e.op = "cache" /\ Claude /\ e.lines # {} /\ e.lines \subseteq DOMAIN t
         \/ e.op = "provider"
  PROVE  Valid(t, p, <<e>>)
<1> DEFINE edits == <<e>>
<1>1. Admitted(edits)
  BY OneEdit
<1>2. DOMAIN edits = {1} /\ edits[1] = e /\ Len(edits) = 1
  OBVIOUS
<1> HIDE DEF edits
<1>3. ~Overlapping(edits)
  BY <1>2 DEF Overlapping
<1>4. \A n \in DOMAIN edits :
        CASE edits[n].op = "elide" -> TargetsAllowed(t, p, edits[n].lines)
          [] edits[n].op = "digest" -> Cardinality(edits[n].lines) \in 1..Len(t)
          [] edits[n].op = "provider" -> Len(edits) = 1
          [] edits[n].op = "cache" ->
               /\ Len(edits) = 1 /\ Claude
               /\ edits[n].lines # {} /\ edits[n].lines \subseteq DOMAIN t
  <2> SUFFICES ASSUME NEW n \in DOMAIN edits
               PROVE  CASE edits[n].op = "elide" -> TargetsAllowed(t, p, edits[n].lines)
                        [] edits[n].op = "digest" -> Cardinality(edits[n].lines) \in 1..Len(t)
                        [] edits[n].op = "provider" -> Len(edits) = 1
                        [] edits[n].op = "cache" ->
                             /\ Len(edits) = 1 /\ Claude
                             /\ edits[n].lines # {} /\ edits[n].lines \subseteq DOMAIN t
    OBVIOUS
  <2>1. edits[n] = e
    BY <1>2
  <2>2. CASE e.op = "elide"
    BY <2>1, <2>2
  <2>3. CASE e.op = "cache"
    BY <1>2, <2>1, <2>3
  <2>4. CASE e.op = "provider"
    BY <1>2, <2>1, <2>4
  <2> QED
    BY <2>2, <2>3, <2>4
<1>5. Valid(t, p, edits)
  BY <1>1, <1>3, <1>4 DEF Valid
<1> QED
  BY <1>5 DEF edits

\* A cut of candidates is valid, and so is a control.
LEMMA CutsAreValid ==
  ASSUME NEW t \in Seq(Recorded), NEW p, NEW before, NEW plan, CutsOf(t, before, plan, Candidates(t, p))
  PROVE  Valid(t, p, plan.edits)
<1>1. PICK S \in SUBSET Candidates(t, p) : S # {} /\ plan \in {Cut(t, before, S), CutWithCard(t, before, S)}
  BY DEF CutsOf
<1> DEFINE n == Cardinality(S)
<1>2. S \subseteq 1..Len(t) /\ DOMAIN t = 1..Len(t) /\ S \subseteq Candidates(t, p)
  BY PlacesAre
<1>3. n \in Nat /\ n >= 1 /\ n <= Len(t)
  <2>1. IsFiniteSet(S)
    BY <1>1, PlacesAre
  <2>2. n \in Nat /\ n # 0
    BY <1>1, <2>1, FS_CardinalityType, FS_EmptySet
  <2>3. IsFiniteSet(1..Len(t)) /\ Cardinality(1..Len(t)) = Len(t)
    <3>1. Len(t) \in Nat
      OBVIOUS
    <3> QED
      BY <3>1, FS_Interval, SMTT(60)
  <2>4. n <= Len(t)
    BY <1>2, <2>3, FS_Subset, ZenonT(60)
  <2> QED
    BY <2>2, <2>4
<1>4. Cardinality(Digest(n).lines) = n
  BY <1>3, CardIs
<1> HIDE DEF n
<1>5. CASE plan.edits = <<Elide(S)>>
  <2>1. Admits(Fresh, Elide(S))
    BY CompactionAssumption DEF Admits, Fresh, Elide, IsControl
  <2>2. Elide(S).op = "elide" /\ Elide(S).lines = S /\ TargetsAllowed(t, p, S)
    BY <1>2 DEF Elide, TargetsAllowed
  <2> QED
    BY <1>5, <2>1, <2>2, ValidAlone
<1>6. CASE plan.edits = <<Elide(S), Digest(n)>>
  <2> DEFINE edits == <<Elide(S), Digest(n)>>
  <2>1. Admitted(edits)
    <3>1. Admits(Fresh, Elide(S)) /\ Admits(Admit(Fresh, Elide(S)), Digest(n))
      <4>1. Elide(S).op = "elide" /\ Digest(n).op = "digest"
        BY DEF Elide, Digest
      <4>2. IsControl(Elide(S)) = FALSE /\ IsControl(Digest(n)) = FALSE
        BY <4>1 DEF IsControl
      <4>3. Admit(Fresh, Elide(S)).edits = 1 /\ Admit(Fresh, Elide(S)).digests = 0
            /\ ~Admit(Fresh, Elide(S)).control
        BY <4>1, <4>2 DEF Admit, Fresh
      <4> QED
        BY <4>1, <4>2, <4>3, CompactionAssumption DEF Admits, Fresh
    <3> QED
      BY <3>1, TwoEdits
  <2>2. ~Overlapping(edits)
    BY DEF Overlapping, Digest
  <2>3. TargetsAllowed(t, p, S)
    BY <1>2 DEF TargetsAllowed
  <2>4. DOMAIN edits = {1, 2} /\ edits[1] = Elide(S) /\ edits[2] = Digest(n)
    OBVIOUS
  <2> HIDE DEF edits
  <2>5. \A k \in DOMAIN edits :
          CASE edits[k].op = "elide" -> TargetsAllowed(t, p, edits[k].lines)
            [] edits[k].op = "digest" -> Cardinality(edits[k].lines) \in 1..Len(t)
            [] edits[k].op = "provider" -> Len(edits) = 1
            [] edits[k].op = "cache" ->
                 /\ Len(edits) = 1 /\ Claude
                 /\ edits[k].lines # {} /\ edits[k].lines \subseteq DOMAIN t
    <3>1. Elide(S).op = "elide" /\ Elide(S).lines = S /\ Digest(n).op = "digest"
      BY DEF Elide, Digest
    <3>2. Cardinality(Digest(n).lines) \in 1..Len(t)
      BY <1>3, <1>4
    <3> QED
      BY <2>3, <2>4, <3>1, <3>2
  <2> QED
    BY <1>6, <2>1, <2>2, <2>5 DEF Valid, edits
<1> QED
  BY <1>1, <1>5, <1>6 DEF Cut, CutWithCard, Plan, n

LEMMA ControlsAreValid ==
  ASSUME NEW t \in Seq(Recorded), NEW p, NEW plan, ControlOf(t, plan)
  PROVE  Valid(t, p, plan.edits) /\ Controls(plan)
<1>0. \A e : plan.edits = <<e>> /\ IsControl(e) => Controls(plan)
  <2> SUFFICES ASSUME NEW e, plan.edits = <<e>>, IsControl(e) PROVE Controls(plan)
    OBVIOUS
  <2>1. 1 \in DOMAIN plan.edits /\ plan.edits[1] = e
    OBVIOUS
  <2> QED
    BY <2>1 DEF Controls
<1>1. ASSUME NEW S \in SUBSET (DOMAIN t), Claude, S # {}, plan.edits = <<CacheEdit(S)>>
      PROVE  Valid(t, p, plan.edits) /\ Controls(plan)
  <2>1. CacheEdit(S).op = "cache" /\ CacheEdit(S).lines = S /\ IsControl(CacheEdit(S))
    BY DEF CacheEdit, IsControl
  <2>2. Admits(Fresh, CacheEdit(S))
    BY <2>1, CompactionAssumption DEF Admits, Fresh
  <2> QED
    BY <1>0, <1>1, <2>1, <2>2, ValidAlone
<1>2. CASE plan.edits = <<ProviderCompact>>
  <2>1. ProviderCompact.op = "provider" /\ IsControl(ProviderCompact)
    BY DEF ProviderCompact, IsControl
  <2>2. Admits(Fresh, ProviderCompact)
    BY <2>1, CompactionAssumption DEF Admits, Fresh
  <2> QED
    BY <1>0, <1>2, <2>1, <2>2, ValidAlone
<1> QED
  BY <1>1, <1>2 DEF ControlOf

\* A cut claims no more than it takes from the file.
LEMMA CutsPay ==
  ASSUME NEW t \in Seq(Recorded), NEW before \in Int, NEW plan, CutsOf(t, before, plan, Elidable(t))
  PROVE  /\ Rewritten(t, plan.edits) \in Seq(Recorded)
         /\ before - plan.after <= Estimate(t) - Estimate(Rewritten(t, plan.edits))
<1>1. PICK S \in SUBSET Elidable(t) : plan \in {Cut(t, before, S), CutWithCard(t, before, S)}
  BY DEF CutsOf
<1> DEFINE n == Cardinality(S)
           made == Lowered(t, Elide(S))
<1>2. n \in Nat
  BY PlacesAre, FS_CardinalityType
<1>3. made \in Seq(Recorded) /\ Estimate(t) \in Int /\ Estimate(made) \in Int /\ SavedBy(t, S) \in Int
      /\ Estimate(t) - Estimate(made) >= SavedBy(t, S)
  BY ElidedIs, ElisionSaves, EstimateIs
<1>4. Lowered(made, Digest(n)) \in Seq(Recorded)
      /\ Estimate(Lowered(made, Digest(n))) = Estimate(made) + Overhead(n) /\ Overhead(n) \in Nat
  <2> HIDE DEF made
  <2> QED
    BY <1>2, <1>3, CardCosts, CardIs
<1>5. Left(t, before, S) \in Int /\ before - Left(t, before, S) <= SavedBy(t, S)
  BY <1>3 DEF Left, Capped
<1>6. Rewritten(t, <<Elide(S)>>) = made
  BY OneEdit
<1>7. Rewritten(t, <<Elide(S), Digest(n)>>) = Lowered(made, Digest(n))
  BY TwoRewritten
<1> HIDE DEF n, made
<1>8. CASE plan = Cut(t, before, S)
  <2>1. plan.edits = <<Elide(S)>> /\ plan.after = Left(t, before, S)
    BY <1>8 DEF Cut, Plan
  <2> QED
    BY <1>3, <1>5, <1>6, <2>1
<1>9. CASE plan = CutWithCard(t, before, S)
  <2>1. plan.edits = <<Elide(S), Digest(n)>> /\ plan.after = Left(t, before, S) + Overhead(n)
    BY <1>9 DEF CutWithCard, Plan, After, n
  <2> QED
    BY <1>3, <1>4, <1>5, <1>7, <2>1, SMTT(60)
<1> QED
  BY <1>1, <1>8, <1>9

\* What a plug-in proposes, if it is admitted, claims no more either.
LEMMA ExpectedIs ==
  ASSUME NEW t \in Seq(Recorded), NEW left \in Int
  PROVE  /\ \A S \in SUBSET (DOMAIN t) :
              /\ Expected(t, left, Elide(S)) \in Int
              /\ left - Expected(t, left, Elide(S)) <= SavedBy(t, S)
         /\ \A n \in Nat : Expected(t, left, Digest(n)) = left + Overhead(n)
<1>1. ASSUME NEW S \in SUBSET (DOMAIN t)
      PROVE  /\ Expected(t, left, Elide(S)) \in Int
             /\ left - Expected(t, left, Elide(S)) <= SavedBy(t, S)
  <2>1. S \cap DOMAIN t = S
    OBVIOUS
  <2>2. Expected(t, left, Elide(S)) = Capped(left - SavedBy(t, S))
    BY <2>1 DEF Expected, Elide
  <2>3. SavedBy(t, S) \in Int
    BY ElisionSaves
  <2> QED
    BY <2>2, <2>3 DEF Capped
<1>2. ASSUME NEW n \in Nat PROVE Expected(t, left, Digest(n)) = left + Overhead(n)
  BY CardIs DEF Expected, Digest
<1> QED
  BY <1>1, <1>2

LEMMA ExternalsPay ==
  ASSUME NEW t \in Seq(Recorded), NEW p, NEW before \in Int, NEW edits \in Proposals(t), edits # <<>>,
         Valid(t, p, edits), ~\E n \in DOMAIN edits : IsControl(edits[n])
  PROVE  /\ Rewritten(t, edits) \in Seq(Recorded)
         /\ before - ExternalAfter(t, before, edits) <= Estimate(t) - Estimate(Rewritten(t, edits))
<1>0. ASSUME NEW n \in DOMAIN edits, NEW S, edits[n] = Elide(S) PROVE S \in SUBSET (DOMAIN t)
  <2>1. edits[n].op = "elide" /\ edits[n].lines = S
    BY <1>0 DEF Elide
  <2> QED
    BY <2>1 DEF Valid, TargetsAllowed
<1>1. ASSUME NEW S, edits = <<Elide(S)>>
      PROVE  /\ Rewritten(t, edits) \in Seq(Recorded)
             /\ before - ExternalAfter(t, before, edits) <= Estimate(t) - Estimate(Rewritten(t, edits))
  <2>1. S \in SUBSET (DOMAIN t)
    <3>1. 1 \in DOMAIN edits /\ edits[1] = Elide(S)
      BY <1>1
    <3> QED
      BY <1>0, <3>1
  <2>2. ExternalAfter(t, before, edits) = Expected(t, before, Elide(S))
        /\ Rewritten(t, edits) = Lowered(t, Elide(S))
    BY <1>1, OneEdit
  <2>3. Lowered(t, Elide(S)) \in Seq(Recorded)
    BY ElidedIs
  <2>4. Estimate(t) \in Int /\ Estimate(Lowered(t, Elide(S))) \in Int /\ SavedBy(t, S) \in Int
        /\ Estimate(t) - Estimate(Lowered(t, Elide(S))) >= SavedBy(t, S)
    BY <2>3, ElisionSaves, EstimateIs
  <2>5. Expected(t, before, Elide(S)) \in Int /\ before - Expected(t, before, Elide(S)) <= SavedBy(t, S)
    BY <2>1, ExpectedIs
  <2> QED
    BY <2>2, <2>3, <2>4, <2>5
<1>2. ASSUME NEW S, edits = <<Elide(S), Digest(1)>>
      PROVE  /\ Rewritten(t, edits) \in Seq(Recorded)
             /\ before - ExternalAfter(t, before, edits) <= Estimate(t) - Estimate(Rewritten(t, edits))
  <2>1. S \in SUBSET (DOMAIN t)
    <3>1. 1 \in DOMAIN edits /\ edits[1] = Elide(S)
      BY <1>2
    <3> QED
      BY <1>0, <3>1
  <2> DEFINE left == Expected(t, before, Elide(S))
             made == Lowered(t, Elide(S))
  <2>2. ExternalAfter(t, before, edits) = Expected(t, left, Digest(1))
        /\ Rewritten(t, edits) = Lowered(made, Digest(1))
    BY <1>2, TwoEdits, TwoRewritten
  <2>3. left \in Int /\ before - left <= SavedBy(t, S)
    BY <2>1, ExpectedIs
  <2>4. made \in Seq(Recorded)
    BY ElidedIs
  <2>5. Estimate(t) \in Int /\ Estimate(made) \in Int /\ SavedBy(t, S) \in Int
        /\ Estimate(t) - Estimate(made) >= SavedBy(t, S)
    BY <2>4, ElisionSaves, EstimateIs
  <2> HIDE DEF left, made
  <2>6. Expected(t, left, Digest(1)) = left + Overhead(1) /\ Overhead(1) \in Nat
        /\ Estimate(Lowered(made, Digest(1))) = Estimate(made) + Overhead(1)
        /\ Lowered(made, Digest(1)) \in Seq(Recorded)
    BY <2>3, <2>4, ExpectedIs, CardCosts, CardIs
  <2> QED
    BY <2>2, <2>3, <2>5, <2>6, SMTT(60)
<1>3. ASSUME NEW R, NEW S, edits = <<Elide(R), Elide(S)>>
      PROVE  /\ Rewritten(t, edits) \in Seq(Recorded)
             /\ before - ExternalAfter(t, before, edits) <= Estimate(t) - Estimate(Rewritten(t, edits))
  <2>0. 1 \in DOMAIN edits /\ edits[1] = Elide(R) /\ 2 \in DOMAIN edits /\ edits[2] = Elide(S)
    BY <1>3
  <2>1. R \in SUBSET (DOMAIN t) /\ S \in SUBSET (DOMAIN t)
    BY <1>0, <2>0
  <2>2. R \cap S = {}
    <3>1. Elide(R).op = "elide" /\ Elide(R).lines = R /\ Elide(S).op = "elide" /\ Elide(S).lines = S
      BY DEF Elide
    <3>2. ~Overlapping(edits)
      BY DEF Valid
    <3> QED
      BY <2>0, <3>1, <3>2 DEF Overlapping
  <2> DEFINE left == Expected(t, before, Elide(R))
             made == Lowered(t, Elide(R))
  <2>3. ExternalAfter(t, before, edits) = Expected(t, left, Elide(S))
        /\ Rewritten(t, edits) = Lowered(made, Elide(S))
    BY <1>3, TwoEdits, TwoRewritten
  <2>4. left \in Int /\ before - left <= SavedBy(t, R)
    BY <2>1, ExpectedIs
  <2>5. made \in Seq(Recorded) /\ SavedBy(made, S) = SavedBy(t, S)
    BY <2>2, ElidedIs, SavedApart
  <2>6. Estimate(t) \in Int /\ Estimate(made) \in Int /\ SavedBy(t, R) \in Int
        /\ Estimate(t) - Estimate(made) >= SavedBy(t, R)
    BY <2>5, ElisionSaves, EstimateIs
  <2> HIDE DEF left, made
  <2>7. Expected(t, left, Elide(S)) \in Int /\ left - Expected(t, left, Elide(S)) <= SavedBy(t, S)
    BY <2>1, <2>4, ExpectedIs
  <2>8. Lowered(made, Elide(S)) \in Seq(Recorded) /\ Estimate(Lowered(made, Elide(S))) \in Int /\ SavedBy(t, S) \in Int
        /\ Estimate(made) - Estimate(Lowered(made, Elide(S))) >= SavedBy(t, S)
    BY <2>5, ElisionSaves, ElidedIs, EstimateIs
  <2> QED
    BY <2>3, <2>4, <2>6, <2>7, <2>8, SMTT(60)
<1>4. edits # <<Digest(1), Digest(1)>>
  <2>1. SUFFICES ASSUME edits = <<Digest(1), Digest(1)>> PROVE FALSE
    OBVIOUS
  <2>2. Admits(Admit(Fresh, Digest(1)), Digest(1))
    BY <2>1, TwoEdits DEF Valid
  <2>3. Digest(1).op = "digest"
    BY DEF Digest
  <2>4. Admit(Fresh, Digest(1)).digests = 1
    BY <2>3 DEF Admit, Fresh
  <2> QED
    BY <2>2, <2>3, <2>4 DEF Admits
<1>5. edits # <<ProviderCompact>> /\ edits # <<Elide({1}), ProviderCompact>>
  <2>1. IsControl(ProviderCompact)
    BY DEF IsControl, ProviderCompact
  <2>2. ASSUME edits = <<ProviderCompact>> PROVE 1 \in DOMAIN edits /\ edits[1] = ProviderCompact
    BY <2>2
  <2>3. ASSUME edits = <<Elide({1}), ProviderCompact>> PROVE 2 \in DOMAIN edits /\ edits[2] = ProviderCompact
    BY <2>3
  <2> QED
    BY <2>1, <2>2, <2>3
<1>6. \/ \E S : edits = <<Elide(S)>> \/ edits = <<Elide(S), Digest(1)>>
      \/ \E R, S : edits = <<Elide(R), Elide(S)>>
  <2> DEFINE lines == {S \in SUBSET (1..(Len(t) + 1)) : Cardinality(S) \in {1, 2}}
             elides == {Elide(S) : S \in lines}
             ones == {<<e>> : e \in elides}
             carded == {<<e, Digest(1)>> : e \in elides}
             Two(i, S) == <<Elide({i}), Elide(S)>>
             twos == {Two(i, S) : i \in 1..Len(t), S \in {{j} : j \in 1..Len(t)}}
  <2>1. edits \in ones \/ edits \in carded \/ edits \in twos
    <3>1. Proposals(t) = {<<>>} \cup ones \cup carded \cup twos
                         \cup {<<Digest(1), Digest(1)>>, <<ProviderCompact>>, <<Elide({1}), ProviderCompact>>}
      BY DEF Proposals
    <3> HIDE DEF ones, carded, twos
    <3> QED
      BY <1>4, <1>5, <3>1
  <2>2. CASE edits \in ones
    <3>1. PICK e \in elides : edits = <<e>>
      BY <2>2
    <3>2. PICK S : e = Elide(S)
      OBVIOUS
    <3> QED
      BY <3>1, <3>2
  <2>3. CASE edits \in carded
    <3>1. PICK e \in elides : edits = <<e, Digest(1)>>
      BY <2>3
    <3>2. PICK S : e = Elide(S)
      OBVIOUS
    <3> QED
      BY <3>1, <3>2
  <2>4. CASE edits \in twos
    <3>1. \E i, S : edits = Two(i, S)
      <4> HIDE DEF Two
      <4> QED
        BY <2>4
    <3> QED
      BY <3>1
  <2> HIDE DEF ones, carded, twos
  <2> QED
    BY <2>1, <2>2, <2>3, <2>4
<1> QED
  BY <1>1, <1>2, <1>3, <1>6

-----------------------------------------------------------------------------
(* Compaction: what `cliff` drops, of a session and of its copy            *)

\* Whether a step starts at a record depends on what precedes it alone, and on
\* which records are live and which are the assistant's.
LEMMA StepsAgree ==
  ASSUME NEW t \in Seq(Recorded), NEW u \in Seq(Recorded), Len(t) <= Len(u),
         \A i \in 1..Len(t) : /\ t[i].tokens > 0 <=> u[i].tokens > 0
                              /\ t[i].kind = "assistant" <=> u[i].kind = "assistant"
  PROVE  /\ StepStarts(t) \subseteq 1..Len(t) /\ StepStarts(u) \subseteq 1..Len(u)
         /\ \A i \in 1..Len(t) : i \in StepStarts(t) <=> i \in StepStarts(u)
<1> DEFINE T == {i \in DOMAIN t : t[i].tokens > 0}
           U == {i \in DOMAIN u : u[i].tokens > 0}
           Prior(L, i, j) == j < i /\ ~\E k \in L : j < k /\ k < i
<1>1. Len(t) \in Nat /\ Len(u) \in Nat /\ DOMAIN t = 1..Len(t) /\ DOMAIN u = 1..Len(u)
  OBVIOUS
<1>2. StepStarts(t) = {i \in T : t[i].kind = "assistant" /\ \A j \in T : Prior(T, i, j) => t[j].kind # "assistant"}
  BY DEF StepStarts
<1>3. StepStarts(u) = {i \in U : u[i].kind = "assistant" /\ \A j \in U : Prior(U, i, j) => u[j].kind # "assistant"}
  BY DEF StepStarts
<1>4. T \subseteq 1..Len(t) /\ U \subseteq 1..Len(u) /\ \A i \in 1..Len(t) : i \in T <=> i \in U
  BY <1>1
<1> HIDE DEF T, U
<1>5. \A i \in 1..Len(t) : \A j \in Int : Prior(T, i, j) <=> Prior(U, i, j)
  BY <1>1, <1>4
<1>6. \A i \in 1..Len(t), j \in T \cup U : Prior(T, i, j) => j \in 1..Len(t)
  BY <1>1, <1>4
<1> HIDE DEF Prior
<1>7. ASSUME NEW i \in 1..Len(t)
      PROVE  i \in StepStarts(t) <=> i \in StepStarts(u)
  BY <1>1, <1>2, <1>3, <1>4, <1>5, <1>6, SMTT(60)
<1> QED
  BY <1>2, <1>3, <1>4, <1>7

\* What is compactable stays so when more is said.
LEMMA CompactableInMore ==
  ASSUME NEW t \in Seq(Recorded), NEW u \in Seq(Recorded), Len(t) <= Len(u),
         \A i \in 1..Len(t) : /\ t[i].tokens > 0 <=> u[i].tokens > 0
                              /\ t[i].kind = "assistant" <=> u[i].kind = "assistant",
         NEW p, p.keepTurns \in Int
  PROVE  Compactable(t, p) \subseteq Compactable(u, p)
<1>0. Len(t) \in Nat /\ Len(u) \in Nat /\ DOMAIN t = 1..Len(t) /\ DOMAIN u = 1..Len(u)
  OBVIOUS
<1>1. /\ StepStarts(t) \subseteq 1..Len(t) /\ StepStarts(u) \subseteq 1..Len(u)
      /\ \A i \in 1..Len(t) : i \in StepStarts(t) <=> i \in StepStarts(u)
  BY StepsAgree
<1>2. StepStarts(t) \subseteq StepStarts(u) /\ IsFiniteSet(StepStarts(u)) /\ IsFiniteSet(StepStarts(t))
  <2>1. IsFiniteSet(1..Len(u)) /\ StepStarts(t) \subseteq StepStarts(u)
    BY <1>0, <1>1, FS_Interval
  <2> QED
    BY <1>1, <2>1, FS_Subset
<1>3. Cardinality(StepStarts(t)) \in Nat /\ Cardinality(StepStarts(u)) \in Nat
      /\ Cardinality(StepStarts(t)) <= Cardinality(StepStarts(u))
  BY <1>2, FS_Subset, FS_CardinalityType
<1>4. ASSUME NEW i \in 1..Len(t)
      PROVE  {j \in StepStarts(t) : j <= i} = {j \in StepStarts(u) : j <= i}
  BY <1>0, <1>1
<1>5. ASSUME NEW i \in 1..Len(t)
      PROVE  Cardinality({j \in StepStarts(t) : j <= i}) \in Nat
  <2>1. IsFiniteSet({j \in StepStarts(t) : j <= i})
    BY <1>2, FS_Subset
  <2> QED
    BY <2>1, FS_CardinalityType
<1>6. ASSUME NEW i \in Compactable(t, p)
      PROVE  i \in Compactable(u, p)
  <2>1. i \in 1..Len(t) /\ i \in DOMAIN u
        /\ Cardinality({j \in StepStarts(t) : j <= i}) \in 1..(Cardinality(StepStarts(t)) - p.keepTurns)
    BY <1>0, <1>6 DEF Compactable
  <2>2. Cardinality({j \in StepStarts(u) : j <= i}) = Cardinality({j \in StepStarts(t) : j <= i})
    BY <1>4, <2>1
  <2>3. Cardinality({j \in StepStarts(u) : j <= i}) \in 1..(Cardinality(StepStarts(u)) - p.keepTurns)
    BY <1>3, <2>1, <2>2
  <2> QED
    BY <2>1, <2>3 DEF Compactable
<1> QED
  BY <1>6

LEMMA CliffPlaces ==
  ASSUME NEW t \in Seq(Recorded), NEW p
  PROVE  CliffDrops(t, p) \subseteq Elidable(t) /\ CliffDrops(t, p) \subseteq 1..Len(t)
BY PlacesAre DEF CliffDrops

\* What is dropped stays so when more is said.
LEMMA CliffKept ==
  ASSUME NEW t \in Seq(Recorded), NEW x \in Recorded, NEW p, p.keep \in Int, p.keepTurns \in Int
  PROVE  CliffDrops(t, p) \subseteq CliffDrops(Append(t, x), p)
<1> DEFINE u == Append(t, x)
<1>1. u \in Seq(Recorded) /\ Len(u) = Len(t) + 1 /\ Len(t) \in Nat /\ Len(t) <= Len(u)
      /\ \A i \in 1..Len(t) : u[i] = t[i]
  OBVIOUS
<1>2. DOMAIN t = 1..Len(t) /\ DOMAIN u = 1..Len(u)
  BY <1>1
<1> HIDE DEF u
<1>3. Compactable(t, p) \subseteq Compactable(u, p)
  BY <1>1, CompactableInMore
<1>4. Elidable(t) \subseteq Elidable(u)
  BY <1>1, <1>2 DEF Elidable
<1>5. IsFiniteSet(Elidable(u))
  BY <1>1, PlacesAre
<1>6. ASSUME NEW i \in CliffDrops(t, p)
      PROVE  i \in CliffDrops(u, p)
  <2>1. i \in Compactable(t, p) /\ i \in Elidable(t) /\ i \notin Newest(Elidable(t), p.keep)
        /\ t[i].payload > p.resultMax
    BY <1>6 DEF CliffDrops, Protected
  <2>2. i \notin Newest(Elidable(u), p.keep)
    BY <1>4, <1>5, <2>1, NewestOfMore
  <2>3. u[i] = t[i]
    BY <1>1, <2>1, PlacesAre
  <2> QED
    BY <1>3, <1>4, <2>1, <2>2, <2>3 DEF CliffDrops, Protected
<1> QED
  BY <1>6 DEF u

\* Of what is dropped, the rest is dropped of what is left.
LEMMA CliffElided ==
  ASSUME NEW t \in Seq(Recorded), NEW p, p.keep \in Int, p.keepTurns \in Int,
         NEW C \in SUBSET CliffDrops(t, p)
  PROVE  CliffDrops(Lowered(t, Elide(C)), p) = CliffDrops(t, p) \ C
<1> DEFINE made == Lowered(t, Elide(C))
<1>1. made \in Seq(Recorded) /\ Len(made) = Len(t) /\ Len(t) \in Nat
      /\ DOMAIN t = 1..Len(t) /\ DOMAIN made = 1..Len(t)
  BY ElidedIs
<1>2. C \subseteq Elidable(t) /\ C \subseteq 1..Len(t)
  BY CliffPlaces
<1>3. \A i \in 1..Len(t) : i \notin C => made[i] = t[i]
  BY <1>1, ElidedIs
<1>4. \A i \in C : IsElidable(t[i]) /\ made[i] = Stubbed(t[i]) /\ t[i] \in Recorded
  <2>1. \A i \in C : IsElidable(t[i]) /\ i \in DOMAIN t /\ t[i] \in Recorded
    BY <1>1, <1>2 DEF Elidable
  <2> QED
    BY <2>1, ElidedIs
<1> HIDE DEF made
<1>5. \A i \in C : ~IsElidable(made[i])
  BY <1>4, Lighter DEF IsElidable
<1>6. Elidable(made) = Elidable(t) \ C
  BY <1>1, <1>2, <1>3, <1>5 DEF Elidable
<1>7. \A i \in 1..Len(t) : /\ t[i].tokens > 0 <=> made[i].tokens > 0
                           /\ t[i].kind = "assistant" <=> made[i].kind = "assistant"
  <2> SUFFICES ASSUME NEW i \in 1..Len(t)
               PROVE  /\ t[i].tokens > 0 <=> made[i].tokens > 0
                      /\ t[i].kind = "assistant" <=> made[i].kind = "assistant"
    OBVIOUS
  <2>1. CASE i \in C
    BY <1>4, <2>1, Lighter
  <2>2. CASE i \notin C
    BY <1>3, <2>2
  <2> QED
    BY <2>1, <2>2
<1>8. Compactable(made, p) = Compactable(t, p)
  <2>1. Compactable(t, p) \subseteq Compactable(made, p)
    BY <1>1, <1>7, CompactableInMore
  <2>2. Compactable(made, p) \subseteq Compactable(t, p)
    BY <1>1, <1>7, CompactableInMore
  <2> QED
    BY <2>1, <2>2
<1>9. Protected(made, p) = Protected(t, p)
  <2>1. Elidable(t) \subseteq 0..Len(t)
    BY <1>1, PlacesAre
  <2>2. C \cap Newest(Elidable(t), p.keep) = {}
    BY DEF CliffDrops, Protected
  <2>3. Newest(Elidable(t) \ C, p.keep) = Newest(Elidable(t), p.keep)
    <3> DEFINE T == Elidable(t)
    <3>1. C \in SUBSET T /\ T \subseteq 0..Len(t) /\ C \cap Newest(T, p.keep) = {}
      BY <1>2, <2>1, <2>2
    <3> HIDE DEF T
    <3>2. Newest(T \ C, p.keep) = Newest(T, p.keep)
      BY <1>1, <3>1, NewestStay
    <3> QED
      BY <3>2 DEF T
  <2> QED
    BY <1>6, <2>3 DEF Protected
<1>10. CliffDrops(made, p) = CliffDrops(t, p) \ C
  <2>1. \A i \in Elidable(made) : made[i] = t[i]
    BY <1>1, <1>2, <1>3, <1>6, PlacesAre
  <2> QED
    BY <1>6, <1>8, <1>9, <2>1 DEF CliffDrops
<1> QED
  BY <1>10 DEF made

\* An elision of what an elision left is one of both.
LEMMA ElidedTwice ==
  ASSUME NEW t \in Seq(Recorded), NEW C, NEW D
  PROVE  Lowered(Lowered(t, Elide(C)), Elide(D)) = Lowered(t, Elide(C \cup D))
<1> DEFINE made == Lowered(t, Elide(C))
           once == Lowered(t, Elide(C \cup D))
           twice == Lowered(made, Elide(D))
<1>1. made \in Seq(Recorded) /\ DOMAIN made = DOMAIN t
  BY ElidedIs
<1>2. twice = [i \in DOMAIN made |-> IF i \in D /\ IsElidable(made[i]) THEN Stubbed(made[i]) ELSE made[i]]
  <2> HIDE DEF made
  <2> QED
    BY <1>1, ElidedIs
<1>3. once = [i \in DOMAIN t |-> IF i \in C \cup D /\ IsElidable(t[i]) THEN Stubbed(t[i]) ELSE t[i]]
  BY ElidedIs
<1>4. \A i \in DOMAIN t : made[i] = IF i \in C /\ IsElidable(t[i]) THEN Stubbed(t[i]) ELSE t[i]
  BY ElidedIs
<1> HIDE DEF made, once, twice
<1>5. \A i \in DOMAIN t : twice[i] = once[i]
  <2> SUFFICES ASSUME NEW i \in DOMAIN t PROVE twice[i] = once[i]
    OBVIOUS
  <2>1. t[i] \in Recorded
    OBVIOUS
  <2>2. CASE i \in C /\ IsElidable(t[i])
    <3>1. made[i] = Stubbed(t[i]) /\ ~IsElidable(made[i])
      BY <1>4, <2>1, <2>2, Lighter DEF IsElidable
    <3> QED
      BY <1>1, <1>2, <1>3, <2>2, <3>1
  <2>3. CASE ~(i \in C /\ IsElidable(t[i]))
    BY <1>1, <1>2, <1>3, <1>4, <2>3
  <2> QED
    BY <2>2, <2>3
<1> QED
  BY <1>1, <1>2, <1>3, <1>5 DEF once, twice, made

\* What is said to both is said after an elision as before it.
LEMMA ElidedThenSaid ==
  ASSUME NEW t \in Seq(Recorded), NEW x \in Recorded, NEW C \in SUBSET (1..Len(t))
  PROVE  Append(Lowered(t, Elide(C)), x) = Lowered(Append(t, x), Elide(C))
<1> DEFINE made == Lowered(t, Elide(C))
           said == Append(t, x)
           left == Append(made, x)
           right == Lowered(said, Elide(C))
<1>1. made \in Seq(Recorded) /\ Len(made) = Len(t) /\ Len(t) \in Nat
      /\ \A i \in 1..Len(t) : made[i] = IF i \in C /\ IsElidable(t[i]) THEN Stubbed(t[i]) ELSE t[i]
  BY ElidedIs
<1>2. said \in Seq(Recorded) /\ Len(said) = Len(t) + 1
      /\ said[Len(t) + 1] = x /\ \A i \in 1..Len(t) : said[i] = t[i]
  OBVIOUS
<1>3. right \in Seq(Recorded) /\ Len(right) = Len(t) + 1
      /\ \A i \in 1..(Len(t) + 1) : right[i] = IF i \in C /\ IsElidable(said[i]) THEN Stubbed(said[i]) ELSE said[i]
  <2> HIDE DEF said
  <2> QED
    BY <1>2, ElidedIs
<1>4. left \in Seq(Recorded) /\ Len(left) = Len(t) + 1
      /\ left[Len(t) + 1] = x /\ \A i \in 1..Len(t) : left[i] = made[i]
  <2> HIDE DEF made
  <2> QED
    BY <1>1
<1> HIDE DEF made, said, left, right
<1>5. \A i \in 1..(Len(t) + 1) : left[i] = right[i]
  BY <1>1, <1>2, <1>3, <1>4
<1>6. left = right
  BY <1>1, <1>3, <1>4, <1>5
<1> QED
  BY <1>6 DEF left, right, made, said

-----------------------------------------------------------------------------
(* Compaction: the invariant                                               *)

\* Cuts by `cliff` alone leave what one elision of the session would.
CutOnce ==
  used \subseteq {"cliff"} =>
    \E C \in SUBSET CliffDrops(source, policy) : copy = Lowered(source, Elide(C))

CompactionShape ==
  /\ policy \in Policies
  /\ source \in Seq(Recorded) /\ copy \in Seq(Recorded)
  /\ usage \in [reports : BOOLEAN, copy : Int \cup {Nil}]

CompactionInv == CompactionShape /\ CutOnce /\ RepeatedCutIsOneCut /\ PlansAreSound

\* Tuning moves the trigger and the floor, and nothing else.
LEMMA TunedKeeps ==
  ASSUME NEW q \in Policies, NEW t, NEW reported, NEW p \in Tuned(q, t, reported)
  PROVE  /\ p.keep = q.keep /\ p.keepTurns = q.keepTurns /\ p.resultMax = q.resultMax
         /\ p.keep \in Int /\ p.keepTurns \in Int
<1>1. {"keep", "keepTurns", "resultMax"} \subseteq DOMAIN q /\ q.keep \in Int /\ q.keepTurns \in Int
  BY CompactionAssumption
<1>2. CASE p = q
  BY <1>1, <1>2
<1>3. ASSUME NEW window, NEW context, NEW elidable, NEW recent,
             p = Adapt(q, window, context, elidable, recent)
      PROVE  p.keep = q.keep /\ p.keepTurns = q.keepTurns /\ p.resultMax = q.resultMax
  <2>1. \E a, b : p = [q EXCEPT !.trigger = a, !.floor = b]
    BY <1>3, Zenon DEF Adapt
  <2> QED
    BY <1>1, <2>1
<1> QED
  BY <1>1, <1>2, <1>3 DEF Tuned

LEMMA ContextIs ==
  ASSUME CompactionShape
  PROVE  Context(copy, usage.copy) \in Int
<1>1. usage.copy \in Int \cup {Nil}
  BY DEF CompactionShape
<1> QED
  BY <1>1, EstimateIs DEF CompactionShape, Context

\* Another cut of a copy by `cliff` leaves what one cut of the session would.
LEMMA CliffCuts ==
  ASSUME NEW t \in Seq(Recorded), NEW q \in Policies, NEW C \in SUBSET CliffDrops(t, q),
         NEW made, made = Lowered(t, Elide(C)),
         NEW reported, NEW p \in Tuned(q, made, reported), NEW before,
         PlanCliff(made, p, before) # Nil
  PROVE  Rewritten(made, PlanCliff(made, p, before).edits) = Lowered(t, Elide(CliffDrops(t, q)))
<1> DEFINE drops == CliffDrops(made, p)
<1>1. /\ p.keep = q.keep /\ p.keepTurns = q.keepTurns /\ p.resultMax = q.resultMax
      /\ q.keep \in Int /\ q.keepTurns \in Int
  BY TunedKeeps
<1>2. CliffDrops(made, p) = CliffDrops(made, q)
  BY <1>1 DEF CliffDrops, Compactable, Protected
<1>3. drops = CliffDrops(t, q) \ C
  BY <1>1, <1>2, CliffElided
<1>4. PlanCliff(made, p, before).edits = <<Elide(drops)>>
  BY DEF PlanCliff, Cut, Plan
<1> HIDE DEF drops
<1>5. Rewritten(made, <<Elide(drops)>>) = Lowered(made, Elide(drops))
  BY OneEdit
<1>6. Lowered(made, Elide(drops)) = Lowered(t, Elide(C \cup drops))
  BY ElidedTwice
<1>7. C \cup drops = CliffDrops(t, q)
  BY <1>3
<1> QED
  BY <1>4, <1>5, <1>6, <1>7

LEMMA CompactionStarts ==
  CompactionInit => CompactionInv
<1> SUFFICES ASSUME CompactionInit PROVE CompactionInv
  OBVIOUS
<1>1. CompactionShape
  <2>1. usage \in [reports : BOOLEAN, copy : Int \cup {Nil}]
    BY DEF CompactionInit
  <2>2. source \in Seq(Recorded) /\ copy \in Seq(Recorded)
    BY DEF CompactionInit
  <2> QED
    BY <2>1, <2>2 DEF CompactionShape, CompactionInit
<1>2. CutOnce
  <2>1. source = <<>> /\ copy = <<>> /\ source \in Seq(Recorded) /\ {} \in SUBSET CliffDrops(source, policy)
    BY DEF CompactionInit
  <2>2. copy = Lowered(source, Elide({}))
    <3>1. Lowered(source, Elide({})) \in Seq(Recorded) /\ Len(Lowered(source, Elide({}))) = Len(source)
      BY <2>1, ElidedIs
    <3>2. Len(source) = 0
      BY <2>1
    <3>3. Lowered(source, Elide({})) = <<>>
      BY <3>1, <3>2
    <3> QED
      BY <2>1, <3>3
  <2> QED
    BY <2>1, <2>2 DEF CutOnce
<1>3. RepeatedCutIsOneCut /\ PlansAreSound
  BY DEF CompactionInit, RepeatedCutIsOneCut, PlansAreSound, BuiltinsAreAdmitted, SavingsAreReal
<1> QED
  BY <1>1, <1>2, <1>3 DEF CompactionInv

LEMMA SayKeeps ==
  ASSUME CompactionInv, NEW x \in Records, Say(x)
  PROVE  CompactionInv'
<1>1. CompactionShape /\ x \in Recorded
  BY DEF CompactionInv, Recorded
<1>2. source' = Append(source, x) /\ copy' = Append(copy, x) /\ policy' = policy /\ used' = used /\ outcome' = Nil
  BY DEF Say
<1>3. source' \in Seq(Recorded) /\ copy' \in Seq(Recorded) /\ policy' \in Policies
  BY <1>1, <1>2 DEF CompactionShape
<1>4. usage' \in [reports : BOOLEAN, copy : Int \cup {Nil}]
  <2>1. Estimate(copy') \in Int
    BY <1>3, EstimateIs
  <2>2. usage \in [reports : BOOLEAN, copy : Int \cup {Nil}]
    BY <1>1 DEF CompactionShape
  <2>3. usage' = usage \/ usage' = [usage EXCEPT !.copy = Estimate(copy')]
    BY DEF Say
  <2> QED
    BY <2>1, <2>2, <2>3
<1>5. CutOnce'
  <2> SUFFICES ASSUME used' \subseteq {"cliff"}
               PROVE  \E C \in SUBSET CliffDrops(source', policy') : copy' = Lowered(source', Elide(C))
    BY DEF CutOnce
  <2>1. PICK C \in SUBSET CliffDrops(source, policy) : copy = Lowered(source, Elide(C))
    BY <1>2 DEF CompactionInv, CutOnce
  <2>2. policy.keep \in Int /\ policy.keepTurns \in Int
    BY <1>1, CompactionAssumption DEF CompactionShape
  <2>3. CliffDrops(source, policy) \subseteq CliffDrops(source', policy')
    BY <1>1, <1>2, <2>2, CliffKept DEF CompactionShape
  <2>4. C \in SUBSET (1..Len(source))
    BY <1>1, <2>1, CliffPlaces DEF CompactionShape
  <2>5. copy' = Lowered(source', Elide(C))
    BY <1>1, <1>2, <2>1, <2>4, ElidedThenSaid DEF CompactionShape
  <2> QED
    BY <2>1, <2>3, <2>5
<1>6. RepeatedCutIsOneCut' /\ PlansAreSound'
  BY <1>2 DEF RepeatedCutIsOneCut, PlansAreSound, BuiltinsAreAdmitted, SavingsAreReal
<1> QED
  BY <1>3, <1>4, <1>5, <1>6 DEF CompactionInv, CompactionShape

\* A refusal, where one is possible, changes nothing.
LEMMA RefusalKeeps ==
  ASSUME CompactionInv, NEW by \in {"micro", "auto", "plugin"}, Refuse(by)
  PROVE  CompactionInv'
<1>1. outcome' = [by |-> by, verdict |-> "refused", claimed |-> 0, real |-> 0]
      /\ UNCHANGED <<policy, source, usage, copy, used>>
  BY DEF Refuse, Unpublished
<1>2. outcome'.by = by /\ outcome'.verdict = "refused" /\ outcome'.claimed = 0 /\ outcome'.real = 0
  BY <1>1
<1>3. CompactionShape' /\ CutOnce'
  BY <1>1 DEF CompactionInv, CompactionShape, CutOnce
<1>4. RepeatedCutIsOneCut' /\ PlansAreSound'
  BY <1>2 DEF RepeatedCutIsOneCut, PlansAreSound, BuiltinsAreAdmitted, SavingsAreReal
<1> QED
  BY <1>3, <1>4 DEF CompactionInv

\* A plan that pays may be applied, if it is cut once what is cut by `cliff`.
LEMMA ApplyingKeeps ==
  ASSUME CompactionInv, NEW by, NEW before, NEW plan, Apply(by, before, plan),
         Rewritten(copy, plan.edits) \in Seq(Recorded),
         before - plan.after <= Estimate(copy) - Estimate(Rewritten(copy, plan.edits)),
         used \cup {by} \subseteq {"cliff"} =>
           Rewritten(copy, plan.edits) = Lowered(source, Elide(CliffDrops(source, policy)))
  PROVE  CompactionInv'
<1> DEFINE made == Rewritten(copy, plan.edits)
<1>1. /\ copy' = made /\ used' = used \cup {by} /\ UNCHANGED <<policy, source, usage>>
      /\ outcome' = [by |-> by, verdict |-> "applied", claimed |-> before - plan.after,
                     real |-> Estimate(copy) - Estimate(made)]
  BY DEF Apply
<1> HIDE DEF made
<1>2. outcome'.verdict = "applied" /\ outcome'.claimed = before - plan.after
      /\ outcome'.real = Estimate(copy) - Estimate(made)
  BY <1>1
<1>3. CompactionShape'
  BY <1>1 DEF CompactionInv, CompactionShape, made
<1>4. PlansAreSound'
  BY <1>2 DEF PlansAreSound, BuiltinsAreAdmitted, SavingsAreReal, made
<1>5. used' \subseteq {"cliff"} => copy' = Lowered(source', Elide(CliffDrops(source', policy')))
  <2>1. used' \subseteq {"cliff"} => made = Lowered(source, Elide(CliffDrops(source, policy)))
    BY <1>1 DEF made
  <2> QED
    BY <1>1, <2>1
<1>6. CutOnce'
  BY <1>5 DEF CutOnce
<1>7. RepeatedCutIsOneCut'
  <2>1. Rewritten(source', <<Elide(CliffDrops(source', policy'))>>) = Lowered(source', Elide(CliffDrops(source', policy')))
    BY OneEdit
  <2> QED
    BY <1>5, <2>1 DEF RepeatedCutIsOneCut
<1> QED
  BY <1>3, <1>4, <1>6, <1>7 DEF CompactionInv

LEMMA CompactKeeps ==
  ASSUME CompactionInv, NEW name \in Strategies, NEW live \in BOOLEAN, Compact(name, live)
  PROVE  CompactionInv'
<1> DEFINE before == Context(copy, usage.copy)
<1>1. PICK p \in Tuned(policy, copy, usage.copy) :
        LET plan == PlanOf(name, copy, p, before, live) IN plan # Nil /\ Conclude(name, p, before, plan)
  BY DEF Compact
<1> DEFINE plan == PlanOf(name, copy, p, before, live)
<1>2. plan # Nil /\ Conclude(name, p, before, plan) /\ used \subseteq {name}
  BY <1>1 DEF Compact
<1>3. CompactionShape /\ copy \in Seq(Recorded) /\ source \in Seq(Recorded) /\ policy \in Policies
  BY DEF CompactionInv, CompactionShape
<1>4. before \in Int
  BY <1>3, ContextIs
<1>5. p.keep \in Int
  BY <1>3, TunedKeeps
<1> HIDE DEF before
<1>6. \/ ControlOf(copy, plan)
      \/ /\ CutsOf(copy, before, plan, Elidable(copy))
         /\ name \notin {"micro", "auto"} => CutsOf(copy, before, plan, Candidates(copy, p))
  BY <1>2, <1>3, <1>5, PlansAre
<1>7. name = "cliff" => plan = PlanCliff(copy, p, before)
  BY DEF PlanOf
<1> HIDE DEF plan
<1>8. CASE ~Valid(copy, p, plan.edits) /\ Refuse(name)
  <2>1. name \in {"micro", "auto"}
    BY <1>3, <1>6, <1>8, ControlsAreValid, CutsAreValid
  <2> QED
    BY <1>8, <2>1, RefusalKeeps
<1>9. CASE Valid(copy, p, plan.edits) /\ ~Controls(plan) /\ Apply(name, before, plan)
  <2>1. CutsOf(copy, before, plan, Elidable(copy))
    BY <1>3, <1>6, <1>9, ControlsAreValid
  <2>2. /\ Rewritten(copy, plan.edits) \in Seq(Recorded)
        /\ before - plan.after <= Estimate(copy) - Estimate(Rewritten(copy, plan.edits))
    BY <1>3, <1>4, <2>1, CutsPay
  <2>3. ASSUME used \cup {name} \subseteq {"cliff"}
        PROVE  Rewritten(copy, plan.edits) = Lowered(source, Elide(CliffDrops(source, policy)))
    <3>1. name = "cliff" /\ used \subseteq {"cliff"}
      BY <2>3
    <3>2. PICK C \in SUBSET CliffDrops(source, policy) : copy = Lowered(source, Elide(C))
      BY <3>1 DEF CompactionInv, CutOnce
    <3>3. plan = PlanCliff(copy, p, before)
      BY <1>7, <3>1
    <3> QED
      BY <1>2, <1>3, <3>2, <3>3, CliffCuts
  <2> QED
    BY <1>9, <2>2, <2>3, ApplyingKeeps
<1> QED
  BY <1>2, <1>8, <1>9 DEF Conclude

LEMMA ExternalKeeps ==
  ASSUME CompactionInv, NEW edits \in Proposals(copy), CompactExternally(edits)
  PROVE  CompactionInv'
<1> DEFINE before == Context(copy, usage.copy)
           plan == Plan(edits, ExternalAfter(copy, before, edits))
<1>1. PICK p \in Tuned(policy, copy, usage.copy) :
        edits # <<>> /\ IF Controls(plan) THEN Refuse("plugin") ELSE Conclude("plugin", p, before, plan)
  BY DEF CompactExternally
<1>2. CompactionShape /\ copy \in Seq(Recorded)
  BY DEF CompactionInv, CompactionShape
<1>3. before \in Int
  BY <1>2, ContextIs
<1> HIDE DEF before
<1>4. plan.edits = edits /\ plan.after = ExternalAfter(copy, before, edits)
  BY DEF Plan
<1> HIDE DEF plan
<1>5. CASE Refuse("plugin")
  BY <1>5, RefusalKeeps
<1>6. CASE Valid(copy, p, edits) /\ ~Controls(plan) /\ Apply("plugin", before, plan)
  <2>1. ~\E n \in DOMAIN edits : IsControl(edits[n])
    BY <1>4, <1>6 DEF Controls
  <2>2. /\ Rewritten(copy, edits) \in Seq(Recorded)
        /\ before - ExternalAfter(copy, before, edits) <= Estimate(copy) - Estimate(Rewritten(copy, edits))
    BY <1>1, <1>2, <1>3, <1>6, <2>1, ExternalsPay
  <2>3. ~(used \cup {"plugin"} \subseteq {"cliff"})
    OBVIOUS
  <2> QED
    BY <1>4, <1>6, <2>2, <2>3, ApplyingKeeps
<1> QED
  BY <1>1, <1>4, <1>5, <1>6 DEF Conclude

LEMMA CompactionKeeps ==
  ASSUME CompactionInv, [CompactionNext]_compactionVars
  PROVE  CompactionInv'
<1>1. CASE \E x \in Records : Say(x)
  BY <1>1, SayKeeps
<1>2. CASE \E name \in Strategies, live \in BOOLEAN : Compact(name, live)
  BY <1>2, CompactKeeps
<1>3. CASE \E edits \in Proposals(copy) : CompactExternally(edits)
  BY <1>3, ExternalKeeps
<1>4. CASE UNCHANGED compactionVars
  BY <1>4 DEF compactionVars, CompactionInv, CompactionShape, CutOnce, RepeatedCutIsOneCut,
              PlansAreSound, BuiltinsAreAdmitted, SavingsAreReal
<1> QED
  BY <1>1, <1>2, <1>3, <1>4 DEF CompactionNext

\* Whatever is said, decided and proposed, the copy is made of what was said, its
\* stubs and cards, and was cut once if `cliff` cut it.
THEOREM CompactionHolds == CompactionSpec => []CompactionInv
  BY CompactionStarts, CompactionKeeps, PTL DEF CompactionSpec

\* What the built-in strategies plan is admitted (`micro`, and `auto` in its place,
\* apart), and no compaction claims more than it takes from the file.
THEOREM PlansStaySound == CompactionSpec => []PlansAreSound
<1>1. CompactionInv => PlansAreSound
  BY DEF CompactionInv
<1> QED
  BY <1>1, CompactionHolds, PTL

\* A copy that `cliff` alone has cut, whenever and however often, is what one cut
\* of the session makes of it.
THEOREM CutsStayOne == CompactionSpec => []RepeatedCutIsOneCut
<1>1. CompactionInv => RepeatedCutIsOneCut
  BY DEF CompactionInv
<1> QED
  BY <1>1, CompactionHolds, PTL
=============================================================================
