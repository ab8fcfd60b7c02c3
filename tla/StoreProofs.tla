---------------------------- MODULE StoreProofs -----------------------------
(***************************************************************************)
(* Theorems about Store, for any processes, recorded batches, logs,        *)
(* transcripts and pages, and any number of lock conflicts and losses.     *)
(*                                                                         *)
(* Added, Matching and Through are folds over a sequence. Each is shown to *)
(* be the last of a sequence of values that its body gives step by step    *)
(* (AddedIs, MatchingIs, ThroughIs: else the first number for which there  *)
(* is none would have one). What a fold keeps then follows from the first  *)
(* number for which it would not be kept.                                  *)
(*                                                                         *)
(* The invariant says how the parts of the file, and what the processes    *)
(* hold, agree. Who has a namespace has that of the database, which is     *)
(* made once (SpacesAgree). What is about to be appended is under it, and  *)
(* of a rank that the log has (BatchesFit). The rows are what told and     *)
(* counted say (RowsFit), each once, and one owner for each attempt. What  *)
(* an archive holds is of rows that are still there (ArchiveFits), and     *)
(* what was read page by page is what there was to read up to the last     *)
(* number (PagesFit).                                                      *)
(***************************************************************************)
EXTENDS Store, FiniteSetTheorems, SequenceTheorems, WellFoundedInduction, TLAPS

-----------------------------------------------------------------------------
(* Store: its recursive functions have the values that their bodies give    *)

\* A set of naturals has a least element.
LEMMA LeastOf ==
  ASSUME NEW T, T \subseteq Nat, T # {}
  PROVE  \E x \in T : \A y \in T : x <= y
<1>1. PICK x \in T : \A y \in T : ~(<<y, x>> \in OpToRel(<, Nat))
  BY NatLessThanWellFounded, WFMin
<1>2. \A y \in T : ~(y < x)
  BY <1>1 DEF OpToRel
<1> QED
  BY <1>2

\* Of a batch taken event by event, ...
LEMMA AddedIs ==
  ASSUME NEW rows, NEW batch, Len(batch) \in Nat
  PROVE  \E f : /\ f[0] = [rows |-> rows, refused |-> FALSE]
                /\ \A i \in 1..Len(batch) : f[i] = Taken(f[i - 1], batch[i])
                /\ Added(rows, batch) = f[Len(batch)]
<1> DEFINE Step(p, i) == Taken(p, batch[i])
           Fits(f, n) == f = [i \in 0..n |-> IF i = 0 THEN [rows |-> rows, refused |-> FALSE] ELSE Step(f[i - 1], i)]
           Bad == {n \in Nat : ~\E f : Fits(f, n)}
<1>0. \A f, n : Fits(f, n) => \A i \in 0..n : f[i] = IF i = 0 THEN [rows |-> rows, refused |-> FALSE] ELSE Step(f[i - 1], i)
  <2> HIDE DEF Step
  <2> QED
    OBVIOUS
<1>1. Bad = {}
  <2> HIDE DEF Step
  <2>1. SUFFICES ASSUME Bad # {} PROVE FALSE
    OBVIOUS
  <2>a. Bad \subseteq Nat /\ \A n \in Bad : TRUE
    OBVIOUS
  <2>2. PICK n \in Bad : \A m \in Bad : n <= m
    BY <2>1, <2>a, LeastOf
  <2>3. CASE n = 0
    <3> DEFINE f == [i \in 0..n |-> [rows |-> rows, refused |-> FALSE]]
    <3>1. \A i \in 0..n : i = 0
      BY <2>3
    <3>2. Fits(f, n)
      BY <3>1
    <3> QED
      BY <2>2, <3>2
  <2>4. CASE n # 0
    <3>0. n \in Nat /\ n - 1 \in Nat /\ ~(n <= n - 1)
      <4> HIDE DEF Bad
      <4> QED
        BY <2>2, <2>4, <2>a
    <3>1. n - 1 \notin Bad
      <4> HIDE DEF Bad
      <4> QED
        BY <2>2, <3>0
    <3>2. PICK f : Fits(f, n - 1)
      <4> HIDE DEF Fits
      <4> QED
        BY <3>0, <3>1
    <3> DEFINE g == [i \in 0..n |-> IF i = n THEN Step(f[n - 1], n) ELSE f[i]]
    <3>3. \A i \in 0..n - 1 : f[i] = IF i = 0 THEN [rows |-> rows, refused |-> FALSE] ELSE Step(f[i - 1], i)
      BY <3>2
    <3>4. \A i \in 0..n - 1 : i \in 0..n /\ i # n /\ g[i] = f[i]
      BY <3>0
    <3>5. n \in 0..n /\ n - 1 \in 0..n - 1
      BY <2>4, <3>0
    <3>6. g[n] = Step(g[n - 1], n)
      BY <3>4, <3>5
    <3>7. \A i \in 0..n : g[i] = IF i = 0 THEN [rows |-> rows, refused |-> FALSE] ELSE Step(g[i - 1], i)
      <4> SUFFICES ASSUME NEW i \in 0..n
                   PROVE  g[i] = IF i = 0 THEN [rows |-> rows, refused |-> FALSE] ELSE Step(g[i - 1], i)
        OBVIOUS
      <4>1. CASE i = n
        BY <2>4, <3>6, <4>1
      <4>2. CASE i # n
        <5>1. i \in 0..n - 1 /\ (i # 0 => i - 1 \in 0..n - 1)
          BY <3>0, <4>2
        <5> HIDE DEF g
        <5> QED
          BY <3>3, <3>4, <5>1
      <4> QED
        BY <4>1, <4>2
    <3>8. Fits(g, n)
      <4> DEFINE r == [i \in 0..n |-> IF i = 0 THEN [rows |-> rows, refused |-> FALSE] ELSE Step(g[i - 1], i)]
      <4>1. \A i \in 0..n : g[i] = r[i]
        BY <3>7
      <4>2. g = r
        BY <4>1
      <4> QED
        BY <4>2
    <3> QED
      BY <2>2, <3>8
  <2> QED
    BY <2>3, <2>4
<1>2. \E f : Fits(f, Len(batch))
  <2> HIDE DEF Fits
  <2> QED
    BY <1>1
<1> DEFINE upto == CHOOSE f : Fits(f, Len(batch))
<1>3. Fits(upto, Len(batch))
  <2> HIDE DEF Fits
  <2> QED
    BY <1>2
<1>4. Added(rows, batch) = upto[Len(batch)]
  BY DEF Added
<1> HIDE DEF upto, Fits
<1>5. \A i \in 0..Len(batch) : upto[i] = IF i = 0 THEN [rows |-> rows, refused |-> FALSE] ELSE Step(upto[i - 1], i)
  BY <1>0, <1>3
<1>6. upto[0] = [rows |-> rows, refused |-> FALSE] /\ \A i \in 1..Len(batch) : upto[i] = Step(upto[i - 1], i)
  <2> HIDE DEF Step
  <2>1. 0 \in 0..Len(batch) /\ \A i \in 1..Len(batch) : i \in 0..Len(batch) /\ i # 0
    OBVIOUS
  <2> QED
    BY <1>5, <2>1
<1> QED
  BY <1>4, <1>6

\* ... of the rows shown, ...
LEMMA MatchingIs ==
  ASSUME NEW rows, NEW from \in Nat, NEW to \in Nat, from <= to
  PROVE  \E f : /\ f[from] = <<>>
                /\ \A i \in from + 1..to : f[i] = IF rows[i].source \in Shown THEN Append(f[i - 1], i) ELSE f[i - 1]
                /\ Matching(rows, from, to) = f[to]
<1> DEFINE Step(p, i) == IF rows[i].source \in Shown THEN Append(p, i) ELSE p
           Fits(f, n) == f = [i \in from..n |-> IF i = from THEN <<>> ELSE Step(f[i - 1], i)]
           Bad == {n \in Nat : n >= from /\ ~\E f : Fits(f, n)}
<1>0. \A f, n : Fits(f, n) => \A i \in from..n : f[i] = IF i = from THEN <<>> ELSE Step(f[i - 1], i)
  <2> HIDE DEF Step
  <2> QED
    OBVIOUS
<1>1. Bad = {}
  <2> HIDE DEF Step
  <2>1. SUFFICES ASSUME Bad # {} PROVE FALSE
    OBVIOUS
  <2>a. Bad \subseteq Nat /\ \A n \in Bad : n >= from
    OBVIOUS
  <2>2. PICK n \in Bad : \A m \in Bad : n <= m
    BY <2>1, <2>a, LeastOf
  <2>3. CASE n = from
    <3> DEFINE f == [i \in from..n |-> <<>>]
    <3>1. \A i \in from..n : i = from
      BY <2>3
    <3>2. Fits(f, n)
      BY <3>1
    <3> QED
      BY <2>2, <3>2
  <2>4. CASE n # from
    <3>0. n \in Nat /\ n >= from /\ n - 1 \in Nat /\ ~(n <= n - 1) /\ n - 1 >= from
      <4> HIDE DEF Bad
      <4> QED
        BY <2>2, <2>4, <2>a
    <3>1. n - 1 \notin Bad
      <4> HIDE DEF Bad
      <4> QED
        BY <2>2, <3>0
    <3>2. PICK f : Fits(f, n - 1)
      <4> HIDE DEF Fits
      <4> QED
        BY <3>0, <3>1
    <3> DEFINE g == [i \in from..n |-> IF i = n THEN Step(f[n - 1], n) ELSE f[i]]
    <3>3. \A i \in from..n - 1 : f[i] = IF i = from THEN <<>> ELSE Step(f[i - 1], i)
      BY <3>2
    <3>4. \A i \in from..n - 1 : i \in from..n /\ i # n /\ g[i] = f[i]
      BY <3>0
    <3>5. n \in from..n /\ n - 1 \in from..n - 1
      BY <2>4, <3>0
    <3>6. g[n] = Step(g[n - 1], n)
      BY <3>4, <3>5
    <3>7. \A i \in from..n : g[i] = IF i = from THEN <<>> ELSE Step(g[i - 1], i)
      <4> SUFFICES ASSUME NEW i \in from..n
                   PROVE  g[i] = IF i = from THEN <<>> ELSE Step(g[i - 1], i)
        OBVIOUS
      <4>1. CASE i = n
        BY <2>4, <3>6, <4>1
      <4>2. CASE i # n
        <5>1. i \in from..n - 1 /\ (i # from => i - 1 \in from..n - 1)
          BY <3>0, <4>2
        <5> HIDE DEF g
        <5> QED
          BY <3>3, <3>4, <5>1
      <4> QED
        BY <4>1, <4>2
    <3>8. Fits(g, n)
      <4> DEFINE r == [i \in from..n |-> IF i = from THEN <<>> ELSE Step(g[i - 1], i)]
      <4>1. \A i \in from..n : g[i] = r[i]
        BY <3>7
      <4>2. g = r
        BY <4>1
      <4> QED
        BY <4>2
    <3> QED
      BY <2>2, <3>8
  <2> QED
    BY <2>3, <2>4
<1>2. \E f : Fits(f, to)
  <2> HIDE DEF Fits
  <2> QED
    BY <1>1
<1> DEFINE upto == CHOOSE f : Fits(f, to)
<1>3. Fits(upto, to)
  <2> HIDE DEF Fits
  <2> QED
    BY <1>2
<1>4. Matching(rows, from, to) = upto[to]
  BY DEF Matching
<1> HIDE DEF upto, Fits
<1>5. \A i \in from..to : upto[i] = IF i = from THEN <<>> ELSE Step(upto[i - 1], i)
  BY <1>0, <1>3
<1>6. upto[from] = <<>> /\ \A i \in from + 1..to : upto[i] = Step(upto[i - 1], i)
  <2> HIDE DEF Step
  <2>1. from \in from..to /\ \A i \in from + 1..to : i \in from..to /\ i # from
    OBVIOUS
  <2> QED
    BY <1>5, <2>1
<1> QED
  BY <1>4, <1>6

\* ... and of a pass over the events of a request.
LEMMA ThroughIs ==
  ASSUME NEW rows, NEW key, NEW kind, NEW seen, Len(rows) \in Nat
  PROVE  \E f : /\ f[0] = seen
                /\ \A i \in 1..Len(rows) :
                    f[i] = IF i \in Of(rows, key) /\ rows[i].kind = kind
                             THEN Observed(rows[i], i, f[i - 1]) ELSE f[i - 1]
                /\ Through(rows, key, kind, seen) = f[Len(rows)]
<1> DEFINE Step(p, i) == IF i \in Of(rows, key) /\ rows[i].kind = kind THEN Observed(rows[i], i, p) ELSE p
           Fits(f, n) == f = [i \in 0..n |-> IF i = 0 THEN seen ELSE Step(f[i - 1], i)]
           Bad == {n \in Nat : ~\E f : Fits(f, n)}
<1>0. \A f, n : Fits(f, n) => \A i \in 0..n : f[i] = IF i = 0 THEN seen ELSE Step(f[i - 1], i)
  <2> HIDE DEF Step
  <2> QED
    OBVIOUS
<1>1. Bad = {}
  <2> HIDE DEF Step
  <2>1. SUFFICES ASSUME Bad # {} PROVE FALSE
    OBVIOUS
  <2>a. Bad \subseteq Nat /\ \A n \in Bad : TRUE
    OBVIOUS
  <2>2. PICK n \in Bad : \A m \in Bad : n <= m
    BY <2>1, <2>a, LeastOf
  <2>3. CASE n = 0
    <3> DEFINE f == [i \in 0..n |-> seen]
    <3>1. \A i \in 0..n : i = 0
      BY <2>3
    <3>2. Fits(f, n)
      BY <3>1
    <3> QED
      BY <2>2, <3>2
  <2>4. CASE n # 0
    <3>0. n \in Nat /\ n - 1 \in Nat /\ ~(n <= n - 1)
      <4> HIDE DEF Bad
      <4> QED
        BY <2>2, <2>4, <2>a
    <3>1. n - 1 \notin Bad
      <4> HIDE DEF Bad
      <4> QED
        BY <2>2, <3>0
    <3>2. PICK f : Fits(f, n - 1)
      <4> HIDE DEF Fits
      <4> QED
        BY <3>0, <3>1
    <3> DEFINE g == [i \in 0..n |-> IF i = n THEN Step(f[n - 1], n) ELSE f[i]]
    <3>3. \A i \in 0..n - 1 : f[i] = IF i = 0 THEN seen ELSE Step(f[i - 1], i)
      BY <3>2
    <3>4. \A i \in 0..n - 1 : i \in 0..n /\ i # n /\ g[i] = f[i]
      BY <3>0
    <3>5. n \in 0..n /\ n - 1 \in 0..n - 1
      BY <2>4, <3>0
    <3>6. g[n] = Step(g[n - 1], n)
      BY <3>4, <3>5
    <3>7. \A i \in 0..n : g[i] = IF i = 0 THEN seen ELSE Step(g[i - 1], i)
      <4> SUFFICES ASSUME NEW i \in 0..n
                   PROVE  g[i] = IF i = 0 THEN seen ELSE Step(g[i - 1], i)
        OBVIOUS
      <4>1. CASE i = n
        BY <2>4, <3>6, <4>1
      <4>2. CASE i # n
        <5>1. i \in 0..n - 1 /\ (i # 0 => i - 1 \in 0..n - 1)
          BY <3>0, <4>2
        <5> HIDE DEF g
        <5> QED
          BY <3>3, <3>4, <5>1
      <4> QED
        BY <4>1, <4>2
    <3>8. Fits(g, n)
      <4> DEFINE r == [i \in 0..n |-> IF i = 0 THEN seen ELSE Step(g[i - 1], i)]
      <4>1. \A i \in 0..n : g[i] = r[i]
        BY <3>7
      <4>2. g = r
        BY <4>1
      <4> QED
        BY <4>2
    <3> QED
      BY <2>2, <3>8
  <2> QED
    BY <2>3, <2>4
<1>2. \E f : Fits(f, Len(rows))
  <2> HIDE DEF Fits
  <2> QED
    BY <1>1
<1> DEFINE upto == CHOOSE f : Fits(f, Len(rows))
<1>3. Fits(upto, Len(rows))
  <2> HIDE DEF Fits
  <2> QED
    BY <1>2
<1>4. Through(rows, key, kind, seen) = upto[Len(rows)]
  BY DEF Through
<1> HIDE DEF upto, Fits
<1>5. \A i \in 0..Len(rows) : upto[i] = IF i = 0 THEN seen ELSE Step(upto[i - 1], i)
  BY <1>0, <1>3
<1>6. upto[0] = seen /\ \A i \in 1..Len(rows) : upto[i] = Step(upto[i - 1], i)
  <2> HIDE DEF Step
  <2>1. 0 \in 0..Len(rows) /\ \A i \in 1..Len(rows) : i \in 0..Len(rows) /\ i # 0
    OBVIOUS
  <2> QED
    BY <1>5, <2>1
<1> QED
  BY <1>4, <1>6

-----------------------------------------------------------------------------
(* Store: lines of a log                                                   *)

LEMMA TimesIs ==
  ASSUME NEW line, NEW n \in Nat
  PROVE  /\ Times(line, n) \in Nat
         /\ Times(line, 0) = 0
         /\ Times(line, n + 1) = Times(line, n) + (IF Log[n + 1] = line THEN 1 ELSE 0)
<1> DEFINE Of1(k) == {i \in 1..k : Log[i] = line}
<1>1. IsFiniteSet(Of1(n)) /\ Cardinality(Of1(n)) \in Nat
  <2>1. IsFiniteSet(1..n) /\ Of1(n) \subseteq 1..n
    BY FS_Interval, 1 \in Int, n \in Int
  <2> HIDE DEF Of1
  <2> QED
    BY <2>1, FS_Subset, FS_CardinalityType
<1>2. Of1(0) = {}
  OBVIOUS
<1>3. n + 1 \notin Of1(n) /\ Of1(n + 1) = IF Log[n + 1] = line THEN Of1(n) \cup {n + 1} ELSE Of1(n)
  OBVIOUS
<1>4. Cardinality(Of1(n + 1)) = Cardinality(Of1(n)) + (IF Log[n + 1] = line THEN 1 ELSE 0)
  BY <1>1, <1>3, FS_AddElement
<1> QED
  BY <1>1, <1>2, <1>4, FS_EmptySet DEF Times

\* A longer log shows a line as often at least.
LEMMA TimesGrow ==
  ASSUME NEW line, NEW m \in Nat, NEW n \in Nat, m <= n
  PROVE  Times(line, m) <= Times(line, n)
<1> DEFINE Bad == {k \in Nat : m <= k /\ ~(Times(line, m) <= Times(line, k))}
<1>1. SUFFICES ASSUME Bad # {} PROVE FALSE
  OBVIOUS
<1>2. PICK k \in Bad : \A j \in Bad : k <= j
  BY <1>1, LeastOf
<1>3. k # m /\ k - 1 \in Nat /\ m <= k - 1 /\ k - 1 + 1 = k
  BY <1>2, TimesIs
<1>4. k - 1 \notin Bad
  BY <1>2, <1>3
<1>5. Times(line, m) <= Times(line, k - 1)
  BY <1>3, <1>4
<1>6. Times(line, k) = Times(line, k - 1) + (IF Log[k] = line THEN 1 ELSE 0)
  BY <1>3, TimesIs
<1> HIDE DEF Bad
<1>7. Times(line, m) <= Times(line, k)
  BY <1>3, <1>5, <1>6, TimesIs
<1> QED
  BY <1>2, <1>7 DEF Bad

\* Every rank up to the number of times is that of a line.
LEMMA RanksAreTaken ==
  ASSUME NEW line, NEW n \in Nat, NEW r \in 1..Times(line, n)
  PROVE  \E i \in 1..n : Log[i] = line /\ Times(line, i) = r
<1> DEFINE Good == {k \in Nat : r <= Times(line, k)}
<1>1. n \in Good /\ Good \subseteq Nat
  BY TimesIs
<1>2. PICK k \in Good : \A j \in Good : k <= j
  BY <1>1, LeastOf
<1>3. k # 0 /\ k - 1 \in Nat /\ k - 1 + 1 = k /\ k \in 1..n
  <2>1. k # 0
    BY <1>2, TimesIs
  <2>2. k <= n
    BY <1>1, <1>2
  <2> QED
    BY <1>1, <1>2, <2>1, <2>2
<1>4. k - 1 \notin Good
  BY <1>2, <1>3
<1>5. Times(line, k - 1) < r /\ r <= Times(line, k)
  BY <1>2, <1>3, <1>4, TimesIs
<1>6. Times(line, k) = Times(line, k - 1) + (IF Log[k] = line THEN 1 ELSE 0)
  BY <1>3, TimesIs
<1>7. Times(line, k) \in Nat /\ Times(line, k - 1) \in Nat /\ r \in Nat
  BY <1>3, TimesIs
<1>8. Log[k] = line /\ Times(line, k) = r
  BY <1>5, <1>6, <1>7
<1> QED
  BY <1>3, <1>8

\* A line's own rank is one of them.
LEMMA RankIs ==
  ASSUME NEW n \in Nat, NEW i \in 1..n
  PROVE  Times(Log[i], i) \in 1..Times(Log[i], n)
<1>1. i - 1 \in Nat /\ i \in Nat /\ i - 1 + 1 = i /\ i <= n
  OBVIOUS
<1>2. Times(Log[i], i) = Times(Log[i], i - 1) + 1
  BY <1>1, TimesIs
<1> QED
  BY <1>1, <1>2, TimesIs, TimesGrow

-----------------------------------------------------------------------------
(* Store: the rows shown                                                   *)

LEMMA MatchingSteps ==
  ASSUME NEW rows, NEW from \in Nat
  PROVE  /\ Matching(rows, from, from) = <<>>
         /\ \A to \in Nat : from < to =>
              Matching(rows, from, to) =
                IF rows[to].source \in Shown THEN Append(Matching(rows, from, to - 1), to)
                ELSE Matching(rows, from, to - 1)
<1>1. Matching(rows, from, from) = <<>>
  <2>1. from <= from
    OBVIOUS
  <2>2. PICK f : /\ f[from] = <<>>
                 /\ \A i \in from + 1..from :
                      f[i] = IF rows[i].source \in Shown THEN Append(f[i - 1], i) ELSE f[i - 1]
                 /\ Matching(rows, from, from) = f[from]
    BY <2>1, MatchingIs
  <2> QED
    BY <2>2
<1>2. ASSUME NEW to \in Nat, from < to
      PROVE  Matching(rows, from, to) =
               IF rows[to].source \in Shown THEN Append(Matching(rows, from, to - 1), to)
               ELSE Matching(rows, from, to - 1)
  <2> DEFINE Next1(p, i) == IF rows[i].source \in Shown THEN Append(p, i) ELSE p
  <2>1. to - 1 \in Nat /\ from <= to - 1 /\ from <= to
    BY <1>2
  <2>2. PICK f : /\ f[from] = <<>>
                 /\ \A i \in from + 1..to : f[i] = Next1(f[i - 1], i)
                 /\ Matching(rows, from, to) = f[to]
    BY <2>1, MatchingIs, ZenonT(60)
  <2>3. PICK g : /\ g[from] = <<>>
                 /\ \A i \in from + 1..to - 1 : g[i] = Next1(g[i - 1], i)
                 /\ Matching(rows, from, to - 1) = g[to - 1]
    BY <2>1, MatchingIs, ZenonT(60)
  <2> HIDE DEF Next1
  <2> DEFINE Bad == {i \in Nat : from <= i /\ i <= to - 1 /\ f[i] # g[i]}
  <2>4. Bad = {}
    <3>1. SUFFICES ASSUME Bad # {} PROVE FALSE
      OBVIOUS
    <3>2. PICK i \in Bad : \A j \in Bad : i <= j
      BY <3>1, LeastOf
    <3>3. i # from /\ i \in from + 1..to - 1 /\ i \in from + 1..to /\ i - 1 \in Nat /\ from <= i - 1 /\ i - 1 <= to - 1
      BY <2>2, <2>3, <2>1, <3>2
    <3>4. i - 1 \notin Bad
      BY <3>2, <3>3
    <3>5. f[i - 1] = g[i - 1]
      BY <3>3, <3>4
    <3> QED
      BY <2>2, <2>3, <3>2, <3>3, <3>5
  <2>5. f[to - 1] = g[to - 1]
    BY <2>1, <2>4
  <2>6. to \in from + 1..to
    BY <1>2
  <2>7. Matching(rows, from, to) = Next1(Matching(rows, from, to - 1), to)
    BY <2>2, <2>3, <2>5, <2>6
  <2> QED
    BY <2>7 DEF Next1
<1> QED
  BY <1>1, <1>2

\* They are numbers of rows in between.
LEMMA MatchingTyped ==
  ASSUME NEW rows, NEW from \in Nat, NEW to \in Nat, from <= to
  PROVE  /\ Matching(rows, from, to) \in Seq(Nat)
         /\ \A i \in 1..Len(Matching(rows, from, to)) :
              from < Matching(rows, from, to)[i] /\ Matching(rows, from, to)[i] <= to
<1> DEFINE M(k) == Matching(rows, from, k)
           Fine(k) == M(k) \in Seq(Nat) /\ \A i \in 1..Len(M(k)) : from < M(k)[i] /\ M(k)[i] <= k
           Bad == {k \in Nat : from <= k /\ ~Fine(k)}
<1>1. SUFFICES ASSUME Bad # {} PROVE FALSE
  OBVIOUS
<1>2. PICK k \in Bad : \A j \in Bad : k <= j
  BY <1>1, LeastOf
<1>3. k # from
  <2>1. M(from) = <<>>
    BY MatchingSteps
  <2>2. Fine(from)
    <3> HIDE DEF M
    <3> QED
      BY <2>1
  <2> QED
    BY <1>2, <2>2
<1>4. k \in Nat /\ from < k /\ k - 1 \in Nat /\ from <= k - 1
  BY <1>2, <1>3
<1>5. Fine(k - 1)
  BY <1>2, <1>4
<1>6. M(k) = IF rows[k].source \in Shown THEN Append(M(k - 1), k) ELSE M(k - 1)
  BY <1>4, MatchingSteps
<1>7. Fine(k)
  <2> HIDE DEF M
  <2> QED
    BY <1>4, <1>5, <1>6, SMTT(60)
<1> QED
  BY <1>2, <1>7

\* They depend on the rows up to the last.
LEMMA MatchingKept ==
  ASSUME NEW rows, NEW more, NEW from \in Nat, NEW to \in Nat, from <= to,
         \A i \in 1..to : rows[i] = more[i]
  PROVE  Matching(rows, from, to) = Matching(more, from, to)
<1> DEFINE Bad == {k \in Nat : from <= k /\ k <= to /\ Matching(rows, from, k) # Matching(more, from, k)}
<1>1. SUFFICES ASSUME Bad # {} PROVE FALSE
  OBVIOUS
<1>2. PICK k \in Bad : \A j \in Bad : k <= j
  BY <1>1, LeastOf
<1>3. k # from
  BY <1>2, MatchingSteps
<1>4. k \in Nat /\ from < k /\ k \in 1..to /\ k - 1 \in Nat /\ from <= k - 1 /\ k - 1 <= to
  BY <1>2, <1>3
<1>5. Matching(rows, from, k - 1) = Matching(more, from, k - 1)
  BY <1>2, <1>4
<1>6. Matching(rows, from, k) = Matching(more, from, k)
  <2>1. rows[k] = more[k]
    BY <1>4
  <2>2. /\ Matching(rows, from, k) =
             IF rows[k].source \in Shown THEN Append(Matching(rows, from, k - 1), k)
             ELSE Matching(rows, from, k - 1)
        /\ Matching(more, from, k) =
             IF more[k].source \in Shown THEN Append(Matching(more, from, k - 1), k)
             ELSE Matching(more, from, k - 1)
    BY <1>4, MatchingSteps
  <2> QED
    BY <1>5, <2>1, <2>2
<1> QED
  BY <1>2, <1>6

\* What a first part shows and what the rest shows is what both show.
LEMMA MatchingJoins ==
  ASSUME NEW rows, NEW from \in Nat, NEW mid \in Nat, NEW to \in Nat, from <= mid, mid <= to
  PROVE  Matching(rows, from, mid) \o Matching(rows, mid, to) = Matching(rows, from, to)
<1> DEFINE A == Matching(rows, from, mid)
           Bad == {k \in Nat : mid <= k /\ A \o Matching(rows, mid, k) # Matching(rows, from, k)}
<1>0. A \in Seq(Nat)
  BY MatchingTyped
<1>1. SUFFICES ASSUME Bad # {} PROVE FALSE
  OBVIOUS
<1>2. PICK k \in Bad : \A j \in Bad : k <= j
  BY <1>1, LeastOf
<1>3. k # mid
  <2>1. A \o <<>> = A
    BY <1>0
  <2>2. Matching(rows, mid, mid) = <<>>
    BY MatchingSteps
  <2>3. A \o Matching(rows, mid, k) # Matching(rows, from, k)
    BY <1>2
  <2> QED
    BY <2>1, <2>2, <2>3
<1>4. k \in Nat /\ mid < k /\ from < k /\ k - 1 \in Nat /\ mid <= k - 1
  BY <1>2, <1>3
<1>5. A \o Matching(rows, mid, k - 1) = Matching(rows, from, k - 1)
  BY <1>2, <1>4, SMTT(60)
<1>6. Matching(rows, mid, k - 1) \in Seq(Nat)
  BY <1>4, MatchingTyped
<1>7. \A s \in Seq(Nat) : A \o Append(s, k) = Append(A \o s, k)
  <2> HIDE DEF A
  <2> QED
    BY <1>0, <1>4, SMTT(60)
<1>8. A \o Matching(rows, mid, k) = Matching(rows, from, k)
  <2>1. CASE rows[k].source \in Shown
    <3>1. /\ Matching(rows, mid, k) = Append(Matching(rows, mid, k - 1), k)
          /\ Matching(rows, from, k) = Append(Matching(rows, from, k - 1), k)
      BY <1>4, <2>1, MatchingSteps
    <3> HIDE DEF A
    <3> QED
      BY <1>5, <1>6, <1>7, <3>1
  <2>2. CASE rows[k].source \notin Shown
    BY <1>4, <1>5, <2>2, MatchingSteps
  <2> QED
    BY <2>1, <2>2
<1> QED
  BY <1>2, <1>8

\* A page ends with the number of the last row that it shows.
LEMMA PageEnds ==
  ASSUME NEW rows, NEW from \in Nat, NEW to \in Nat, from <= to,
         NEW n \in Nat \ {0}, n <= Len(Matching(rows, from, to))
  PROVE  LET last == Matching(rows, from, to)[n]
         IN /\ last \in Nat /\ from < last /\ last <= to
            /\ Matching(rows, from, last) = SubSeq(Matching(rows, from, to), 1, n)
<1> DEFINE M(k) == Matching(rows, from, k)
           Fine(k) == n <= Len(M(k)) => M(M(k)[n]) = SubSeq(M(k), 1, n)
           Bad == {k \in Nat : from <= k /\ ~Fine(k)}
<1>a. Bad = {}
  <2>1. SUFFICES ASSUME Bad # {} PROVE FALSE
    OBVIOUS
  <2>2. PICK k \in Bad : \A j \in Bad : k <= j
    BY <2>1, LeastOf
  <2>3. k # from
    <3>1. M(from) = <<>> /\ Len(M(from)) = 0
      BY MatchingSteps
    <3> QED
      BY <2>2, <3>1
  <2>4. k \in Nat /\ from < k /\ k - 1 \in Nat /\ from <= k - 1
    BY <2>2, <2>3
  <2>5. Fine(k - 1)
    BY <2>2, <2>4
  <2>6. M(k) = IF rows[k].source \in Shown THEN Append(M(k - 1), k) ELSE M(k - 1)
    BY <2>4, MatchingSteps
  <2>7. M(k - 1) \in Seq(Nat) /\ M(k) \in Seq(Nat)
    BY <2>4, MatchingTyped
  <2>8. Fine(k)
    <3> HIDE DEF M
    <3>1. CASE M(k) = M(k - 1)
      BY <2>5, <3>1
    <3>2. CASE M(k) = Append(M(k - 1), k) /\ n <= Len(M(k - 1))
      <4>1. M(k)[n] = M(k - 1)[n] /\ SubSeq(M(k), 1, n) = SubSeq(M(k - 1), 1, n)
        BY <2>4, <2>7, <3>2
      <4> QED
        BY <2>5, <3>2, <4>1
    <3>3. CASE M(k) = Append(M(k - 1), k) /\ n = Len(M(k - 1)) + 1
      <4>1. M(k)[n] = k /\ Len(M(k)) = n
        BY <2>4, <2>7, <3>3
      <4>2. SubSeq(M(k), 1, n) = M(k)
        BY <2>7, <4>1
      <4> QED
        BY <4>1, <4>2
    <3>4. CASE M(k) = Append(M(k - 1), k) /\ n > Len(M(k - 1)) + 1
      <4>1. Len(M(k)) = Len(M(k - 1)) + 1 /\ Len(M(k - 1)) \in Nat
        BY <2>4, <2>7, <3>4
      <4> QED
        BY <3>4, <4>1
    <3>5. Len(M(k - 1)) \in Nat
      BY <2>7
    <3>6. M(k) = M(k - 1) \/ M(k) = Append(M(k - 1), k)
      BY <2>6
    <3>7. n <= Len(M(k - 1)) \/ n = Len(M(k - 1)) + 1 \/ n > Len(M(k - 1)) + 1
      BY <3>5
    <3> QED
      BY <3>1, <3>2, <3>3, <3>4, <3>6, <3>7
  <2> QED
    BY <2>2, <2>8
<1>b. Fine(to)
  BY <1>a
<1>c. M(to) \in Seq(Nat) /\ \A i \in 1..Len(M(to)) : from < M(to)[i] /\ M(to)[i] <= to
  BY MatchingTyped
<1>d. n \in 1..Len(M(to))
  <2> HIDE DEF M
  <2>1. Len(M(to)) \in Nat
    BY <1>c
  <2> QED
    BY <2>1 DEF M
<1>e. M(to)[n] \in Nat /\ from < M(to)[n] /\ M(to)[n] <= to
  <2> HIDE DEF M
  <2> QED
    BY <1>c, <1>d
<1> QED
  BY <1>b, <1>e

-----------------------------------------------------------------------------
(* Store: events                                                           *)

Spaces == Nat \cup {NoSpace}
Recorded == UNION {Rows(b) : b \in Live}
Logged == {Ranked(line, rank) : line \in Rows(Log), rank \in Nat}
Natural == Recorded \cup Logged \cup Native(Len(Transcript))
Opaque == {Under(space, e) : space \in Spaces, e \in Natural}
Fields == {"id", "source", "kind", "attempt", "owner", "tool", "time"}

LEMMA SeenIs ==
  ASSUME NEW line, NEW e \in Seen(line)
  PROVE  /\ DOMAIN e = Fields /\ e.source = "transcript"
         /\ IsRequest(e) => e.attempt # ""
<1>1. CASE \E r \in {line.answer} \ {""} :
             e = [id |-> <<"answer", line.answer>>, source |-> "transcript", kind |-> "finished",
                  attempt |-> line.answer, owner |-> "session", tool |-> "", time |-> line.time]
  <2>1. line.answer # ""
    BY <1>1
  <2>2. e = [id |-> <<"answer", line.answer>>, source |-> "transcript", kind |-> "finished",
             attempt |-> line.answer, owner |-> "session", tool |-> "", time |-> line.time]
    BY <1>1
  <2>3. DOMAIN e = Fields /\ e.source = "transcript" /\ e.attempt = line.answer
    BY <2>2 DEF Fields
  <2> QED
    BY <2>1, <2>3
<1>2. CASE \E t \in line.tools :
             e = [id |-> <<"tool", t>>, source |-> "transcript", kind |-> "tool", attempt |-> "",
                  owner |-> "session", tool |-> t, time |-> line.time]
  <2>1. PICK t \in line.tools :
             e = [id |-> <<"tool", t>>, source |-> "transcript", kind |-> "tool", attempt |-> "",
                  owner |-> "session", tool |-> t, time |-> line.time]
    BY <1>2
  <2>2. DOMAIN e = Fields /\ e.source = "transcript" /\ e.kind = "tool"
    BY <2>1 DEF Fields
  <2> QED
    BY <2>2 DEF IsRequest
<1> QED
  BY <1>1, <1>2 DEF Seen

LEMMA NaturalIs ==
  ASSUME NEW e \in Natural
  PROVE  /\ DOMAIN e = Fields
         /\ IsRequest(e) => e.attempt # ""
         /\ e.source = "log" => \E line \in Rows(Log), rank \in Nat : e = Ranked(line, rank)
<1>1. CASE e \in Recorded
  <2>1. PICK b \in Live : \E i \in DOMAIN b : e = b[i]
    BY <1>1 DEF Recorded, Rows
  <2> QED
    BY <2>1, LiveAssumption DEF IsRequest, Fields
<1>2. CASE e \in Logged
  <2>1. PICK line \in Rows(Log), rank \in Nat : e = Ranked(line, rank)
    BY <1>2 DEF Logged
  <2>2. DOMAIN e = Fields /\ e.kind = "legacy"
    BY <2>1 DEF Ranked, Fields
  <2> QED
    BY <2>1, <2>2 DEF IsRequest
<1>3. CASE e \in Native(Len(Transcript))
  <2>1. PICK line : e \in Seen(line)
    BY <1>3 DEF Native
  <2> QED
    BY <2>1, SeenIs
<1> QED
  BY <1>1, <1>2, <1>3 DEF Natural

LEMMA UnderIs ==
  ASSUME NEW space, NEW e \in Natural
  PROVE  /\ Under(space, e).id = <<space, e.id>>
         /\ Under(space, e).source = e.source /\ Under(space, e).kind = e.kind
         /\ Under(space, e).attempt = e.attempt
BY NaturalIs DEF Under, Fields

LEMMA OpaqueIs ==
  ASSUME NEW e \in Opaque
  PROVE  /\ e.id = <<e.id[1], e.id[2]>>
         /\ IsRequest(e) => e.attempt # ""
         /\ e.source = "log" =>
              \E line \in Rows(Log), rank \in Nat : e = Under(e.id[1], Ranked(line, rank))
<1>1. PICK space \in Spaces, n \in Natural : e = Under(space, n)
  BY DEF Opaque
<1>2. e.id = <<space, n.id>> /\ e.source = n.source /\ e.kind = n.kind /\ e.attempt = n.attempt
  BY <1>1, UnderIs
<1>3. e.id[1] = space /\ e.id[2] = n.id
  BY <1>2
<1> QED
  BY <1>1, <1>2, <1>3, NaturalIs DEF IsRequest

\* What an import of the transcript appends are events it shows, in some order.
LEMMA SeenIsFinite ==
  ASSUME NEW line, IsFiniteSet(line.tools)
  PROVE  IsFiniteSet(Seen(line))
<1> DEFINE answers == {line.answer} \ {""}
           answer(r) == [id |-> <<"answer", line.answer>>, source |-> "transcript", kind |-> "finished",
                         attempt |-> line.answer, owner |-> "session", tool |-> "", time |-> line.time]
           tool(t) == [id |-> <<"tool", t>>, source |-> "transcript", kind |-> "tool", attempt |-> "",
                       owner |-> "session", tool |-> t, time |-> line.time]
           A == {answer(r) : r \in answers}
           B == {tool(t) : t \in line.tools}
<1>1. IsFiniteSet(answers)
  BY FS_Singleton, FS_Subset
<1>2. [r \in answers |-> answer(r)] \in Surjection(answers, A)
  <2> HIDE DEF answers, answer
  <2> QED
    BY DEF Surjection
<1>3. [t \in line.tools |-> tool(t)] \in Surjection(line.tools, B)
  <2> HIDE DEF tool
  <2> QED
    BY DEF Surjection
<1>4. IsFiniteSet(A)
  <2> HIDE DEF A, answers, answer
  <2> QED
    BY <1>1, <1>2, FS_Surjection
<1>6. IsFiniteSet(B)
  <2> HIDE DEF B, tool
  <2> QED
    BY <1>3, FS_Surjection
<1>5. Seen(line) = A \cup B
  BY DEF Seen
<1> HIDE DEF A, B
<1> QED
  BY <1>4, <1>5, <1>6, FS_Union

LEMMA NativeIsFinite ==
  ASSUME NEW n \in 0..Len(Transcript)
  PROVE  IsFiniteSet(Native(n)) /\ Native(n) \subseteq Native(Len(Transcript))
<1> DEFINE S == {Seen(Transcript[i]) : i \in 1..n}
<1>0. Len(Transcript) \in Nat /\ n \in Nat /\ n <= Len(Transcript)
  BY StoreAssumption
<1>1. IsFiniteSet(1..n)
  BY <1>0, FS_Interval, 1 \in Int, n \in Int
<1>2. [i \in 1..n |-> Seen(Transcript[i])] \in Surjection(1..n, S)
  BY DEF Surjection
<1>3. IsFiniteSet(S)
  BY <1>1, <1>2, FS_Surjection
<1>4. \A T \in S : IsFiniteSet(T)
  BY <1>0, SeenIsFinite, StoreAssumption
<1>5. IsFiniteSet(UNION S)
  <2> HIDE DEF S
  <2> QED
    BY <1>3, <1>4, FS_UNION
<1>6. 1..n \subseteq 1..Len(Transcript)
  BY <1>0
<1> QED
  BY <1>5, <1>6 DEF Native

LEMMA InOrderIs ==
  ASSUME NEW events, IsFiniteSet(events)
  PROVE  /\ Len(InOrder(events)) \in Nat /\ DOMAIN InOrder(events) = 1..Len(InOrder(events))
         /\ \A i \in DOMAIN InOrder(events) : InOrder(events)[i] \in events
<1> DEFINE n == Cardinality(events)
           Orders == {b \in [1..n -> events] : {b[i] : i \in 1..n} = events}
<1>1. n \in Nat /\ ExistsBijection(1..n, events)
  BY FS_CardinalityType
<1> HIDE DEF n
<1>2. PICK b : b \in Bijection(1..n, events)
  BY <1>1 DEF ExistsBijection
<1>3. b \in [1..n -> events] /\ {b[i] : i \in 1..n} = events
  <2>1. b \in [1..n -> events] /\ \A e \in events : \E i \in 1..n : b[i] = e
    BY <1>2 DEF Bijection, Surjection
  <2> QED
    BY <2>1
<1>4. InOrder(events) \in [1..n -> events]
  BY <1>3 DEF InOrder, n
<1>5. InOrder(events) \in Seq(events) /\ Len(InOrder(events)) = n
  BY <1>1, <1>4
<1> QED
  BY <1>1, <1>4, <1>5

\* A batch that a process reads is a sequence of such events, under the namespace
\* the process knows.
Bound(space, b) == [i \in DOMAIN b |-> Under(space, b[i])]
Batches(log, transcript) ==
  Live \cup {Legacy(log)} \cup {InOrder(s) : s \in {t \in {Native(transcript)} : Unchanged(t)}}

LEMMA BatchIs ==
  ASSUME NEW log \in 0..Len(Log), NEW transcript \in 0..Len(Transcript),
         NEW b \in Batches(log, transcript), NEW space \in Spaces
  PROVE  /\ Bound(space, b) \in Seq(Opaque)
         /\ \A e \in Rows(Bound(space, b)) :
              /\ e.id[1] = space
              /\ e.source = "log" =>
                   \E line \in Rows(Log) : \E rank \in 1..Times(line, log) :
                     e = Under(space, Ranked(line, rank))
         /\ b = Legacy(log) =>
              \A i \in 1..log : Under(space, Ranked(Log[i], Times(Log[i], i))) \in Rows(Bound(space, b))
<1>0. Len(Log) \in Nat /\ Len(Transcript) \in Nat /\ log \in Nat /\ log <= Len(Log)
  BY StoreAssumption
<1>a. /\ DOMAIN Legacy(log) = 1..log /\ Len(Legacy(log)) = log
      /\ \A i \in 1..log : Legacy(log)[i] = Ranked(Log[i], Times(Log[i], i))
  BY <1>0 DEF Legacy
<1>1. /\ Len(b) \in Nat /\ DOMAIN b = 1..Len(b)
      /\ \A i \in DOMAIN b :
           /\ b[i] \in Natural
           /\ b[i].source = "log" =>
                \E line \in Rows(Log) : \E rank \in 1..Times(line, log) : b[i] = Ranked(line, rank)
  <2>1. CASE b \in Live
    <3>1. \A i \in DOMAIN b : b[i] \in Recorded
      BY <2>1 DEF Recorded, Rows
    <3> QED
      BY <2>1, <3>1, LiveAssumption DEF Natural
  <2>2. CASE b = Legacy(log)
    <3>1. \A i \in 1..log : Log[i] \in Rows(Log) /\ Times(Log[i], i) \in 1..Times(Log[i], log) /\ Times(Log[i], i) \in Nat
      <4> SUFFICES ASSUME NEW i \in 1..log
                   PROVE  Log[i] \in Rows(Log) /\ Times(Log[i], i) \in 1..Times(Log[i], log) /\ Times(Log[i], i) \in Nat
        OBVIOUS
      <4>1. i \in DOMAIN Log
        BY <1>0, StoreAssumption
      <4>2. i \in Nat /\ Log[i] \in Rows(Log)
        BY <4>1 DEF Rows
      <4>3. Times(Log[i], i) \in Nat
        BY <4>2, TimesIs
      <4>4. Times(Log[i], i) \in 1..Times(Log[i], log)
        BY <1>0, RankIs
      <4> QED
        BY <4>2, <4>3, <4>4
    <3>2. \A i \in 1..log : Legacy(log)[i] \in Logged
      <4> SUFFICES ASSUME NEW i \in 1..log PROVE Legacy(log)[i] \in Logged
        OBVIOUS
      <4>1. Legacy(log)[i] = Ranked(Log[i], Times(Log[i], i))
        BY <1>a
      <4>2. Log[i] \in Rows(Log) /\ Times(Log[i], i) \in Nat
        BY <3>1
      <4> QED
        BY <4>1, <4>2 DEF Logged
    <3>3. Len(b) = log /\ DOMAIN b = 1..log
      BY <1>a, <2>2
    <3>4. ASSUME NEW i \in 1..log
          PROVE  /\ b[i] \in Natural
                 /\ \E line \in Rows(Log) : \E rank \in 1..Times(line, log) : b[i] = Ranked(line, rank)
      <4>1. b[i] = Ranked(Log[i], Times(Log[i], i))
        BY <1>a, <2>2
      <4>2. b[i] \in Natural
        BY <2>2, <3>2 DEF Natural
      <4> QED
        BY <3>1, <4>1, <4>2
    <3> QED
      BY <1>0, <3>3, <3>4
  <2>3. CASE b = InOrder(Native(transcript))
    <3>1. \A i \in DOMAIN b : b[i] \in Native(transcript) /\ Len(b) \in Nat /\ DOMAIN b = 1..Len(b)
      BY <2>3, NativeIsFinite, InOrderIs
    <3>2. Len(b) \in Nat /\ DOMAIN b = 1..Len(b)
      BY <2>3, NativeIsFinite, InOrderIs
    <3>3. \A e \in Native(transcript) : e \in Natural /\ e.source # "log"
      <4> SUFFICES ASSUME NEW e \in Native(transcript) PROVE e \in Natural /\ e.source # "log"
        OBVIOUS
      <4>1. PICK line : e \in Seen(line)
        BY DEF Native
      <4>2. e.source = "transcript"
        BY <4>1, SeenIs
      <4> QED
        BY <4>2, NativeIsFinite DEF Natural
    <3> QED
      BY <3>1, <3>2, <3>3
  <2> QED
    BY <2>1, <2>2, <2>3 DEF Batches
<1>2. \A i \in DOMAIN b : Under(space, b[i]) \in Opaque
  BY <1>1 DEF Opaque
<1>3. Bound(space, b) \in Seq(Opaque) /\ DOMAIN Bound(space, b) = DOMAIN b
  BY <1>1, <1>2 DEF Bound
<1>4. ASSUME NEW e \in Rows(Bound(space, b))
      PROVE  /\ e.id[1] = space
             /\ e.source = "log" =>
                  \E line \in Rows(Log) : \E rank \in 1..Times(line, log) : e = Under(space, Ranked(line, rank))
  <2>1. PICK i \in DOMAIN b : e = Under(space, b[i])
    BY <1>3, <1>4 DEF Rows, Bound
  <2> QED
    BY <1>1, <2>1, UnderIs
<1>5. ASSUME b = Legacy(log), NEW i \in 1..log
      PROVE  Under(space, Ranked(Log[i], Times(Log[i], i))) \in Rows(Bound(space, b))
  <2>1. i \in DOMAIN b /\ b[i] = Ranked(Log[i], Times(Log[i], i))
    BY <1>a, <1>5
  <2>2. Bound(space, b)[i] = Under(space, Ranked(Log[i], Times(Log[i], i)))
    BY <2>1 DEF Bound
  <2> QED
    BY <1>3, <2>1, <2>2 DEF Rows
<1> QED
  BY <1>3, <1>4, <1>5

-----------------------------------------------------------------------------
(* Store: what adding a batch keeps                                        *)

Once(rows) ==
  \A i, j \in DOMAIN rows : i # j =>
    rows[i].id # rows[j].id /\ (Key(rows[i]) # Key(rows[j]) \/ Key(rows[i]) = <<>>)
OneOwner(rows) ==
  \A i, j \in DOMAIN rows : SameAttempt(rows[i], rows[j]) => rows[i].owner = rows[j].owner
\* The rows are still there, at the same places.
Extends(more, rows) == Len(rows) <= Len(more) /\ \A i \in 1..Len(rows) : more[i] = rows[i]

Sound(so, rows) ==
  /\ so \in [rows : Seq(Opaque), refused : BOOLEAN]
  /\ Once(so.rows) /\ OneOwner(so.rows) /\ Extends(so.rows, rows)

\* One event of a batch.
LEMMA TakenIsSound ==
  ASSUME NEW rows \in Seq(Opaque), NEW so, Sound(so, rows), NEW e \in Opaque
  PROVE  /\ Sound(Taken(so, e), rows)
         /\ Rows(so.rows) \subseteq Rows(Taken(so, e).rows)
         /\ Rows(Taken(so, e).rows) \subseteq Rows(so.rows) \cup {e}
         /\ ~Taken(so, e).refused => ~so.refused /\ e \in Rows(Taken(so, e).rows)
<1>0. /\ so \in [rows : Seq(Opaque), refused : BOOLEAN] /\ so.rows \in Seq(Opaque)
      /\ Once(so.rows) /\ OneOwner(so.rows) /\ Extends(so.rows, rows)
  BY DEF Sound
<1>1. CASE so.refused \/ Duplicate(so.rows, e)
  BY <1>1 DEF Taken, Duplicate
<1>2. CASE ~so.refused /\ ~Duplicate(so.rows, e) /\ Conflict(so.rows, e)
  <2>1. Taken(so, e) = [so EXCEPT !.refused = TRUE]
    BY <1>2 DEF Taken
  <2>2. Taken(so, e) \in [rows : Seq(Opaque), refused : BOOLEAN] /\ Taken(so, e).rows = so.rows /\ Taken(so, e).refused
    BY <1>0, <2>1
  <2> QED
    BY <1>0, <2>2 DEF Sound
<1>3. CASE ~so.refused /\ ~Duplicate(so.rows, e) /\ ~Conflict(so.rows, e)
  <2> DEFINE old == so.rows
             new == Append(so.rows, e)
             n == Len(so.rows) + 1
  <2>1. Taken(so, e) = [so EXCEPT !.rows = Append(@, e)]
    BY <1>3 DEF Taken
  <2>2. /\ Taken(so, e) \in [rows : Seq(Opaque), refused : BOOLEAN]
        /\ Taken(so, e).rows = new /\ ~Taken(so, e).refused
    <3>1. Append(so.rows, e) \in Seq(Opaque)
      BY <1>0
    <3> HIDE DEF Opaque
    <3> QED
      BY <1>0, <1>3, <2>1, <3>1
  <2>3. /\ Len(old) \in Nat /\ DOMAIN old = 1..Len(old) /\ DOMAIN new = 1..n /\ new[n] = e /\ Len(new) = n
        /\ \A i \in 1..n : i # n => i \in DOMAIN old /\ new[i] = old[i]
    BY <1>0
  <2>4. \A i \in DOMAIN old : old[i] \in Rows(old) /\ old[i] # e
    BY <1>3 DEF Rows, Duplicate
  <2>5. \A i \in DOMAIN old :
          /\ old[i].id # e.id /\ (Key(old[i]) # Key(e) \/ Key(e) = <<>>)
          /\ SameAttempt(e, old[i]) => e.owner = old[i].owner
    BY <1>3, <2>4 DEF Conflict
  <2> HIDE DEF old, new, n
  <2>6. Once(new)
    <3> SUFFICES ASSUME NEW i \in 1..n, NEW j \in 1..n, i # j
                 PROVE  new[i].id # new[j].id /\ (Key(new[i]) # Key(new[j]) \/ Key(new[i]) = <<>>)
      BY <2>3 DEF Once
    <3>1. CASE i # n /\ j # n
      BY <1>0, <2>3, <3>1 DEF Once, old
    <3>2. CASE i = n
      BY <2>3, <2>5, <3>2
    <3>3. CASE j = n
      BY <2>3, <2>5, <3>3
    <3> QED
      BY <3>1, <3>2, <3>3
  <2>7. OneOwner(new)
    <3> SUFFICES ASSUME NEW i \in 1..n, NEW j \in 1..n, SameAttempt(new[i], new[j])
                 PROVE  new[i].owner = new[j].owner
      BY <2>3 DEF OneOwner
    <3>0. SameAttempt(new[j], new[i])
      BY DEF SameAttempt
    <3>1. CASE i # n /\ j # n
      BY <1>0, <2>3, <3>1, ZenonT(60) DEF OneOwner, old
    <3>2. CASE i = n
      BY <2>3, <2>5, <3>2
    <3>3. CASE j = n
      BY <2>3, <2>5, <3>0, <3>3
    <3> QED
      BY <3>1, <3>2, <3>3
  <2>8. Extends(new, rows)
    <3>1. \A i \in 1..Len(rows) : i \in 1..n /\ i # n
      BY <1>0, <2>3 DEF Extends, old, n
    <3> QED
      BY <1>0, <2>3, <3>1 DEF Extends, old, n
  <2>9. Rows(new) = Rows(old) \cup {e}
    <3>1. Rows(new) \subseteq Rows(old) \cup {e}
      BY <2>3 DEF Rows
    <3>2. Rows(old) \subseteq Rows(new)
      <4>1. \A i \in DOMAIN old : i \in 1..n /\ i # n
        BY <2>3 DEF n, old
      <4> QED
        BY <2>3, <4>1 DEF Rows
    <3>3. n \in DOMAIN new
      BY <2>3 DEF n, old
    <3>4. e \in Rows(new)
      BY <2>3, <3>3 DEF Rows
    <3> QED
      BY <3>1, <3>2, <3>4
  <2> QED
    BY <2>2, <2>6, <2>7, <2>8, <2>9, <1>3 DEF Sound, old
<1> QED
  BY <1>1, <1>2, <1>3

\* A whole batch: the rows that were there stay, and all of it is there or it was refused.
LEMMA AddedIsSound ==
  ASSUME NEW rows \in Seq(Opaque), Once(rows), OneOwner(rows), NEW batch \in Seq(Opaque)
  PROVE  /\ Sound(Added(rows, batch), rows)
         /\ Rows(Added(rows, batch).rows) \subseteq Rows(rows) \cup Rows(batch)
         /\ ~Added(rows, batch).refused => Rows(batch) \subseteq Rows(Added(rows, batch).rows)
<1>0. Len(batch) \in Nat /\ DOMAIN batch = 1..Len(batch) /\ \A i \in 1..Len(batch) : batch[i] \in Opaque
  OBVIOUS
<1>1. PICK f : /\ f[0] = [rows |-> rows, refused |-> FALSE]
               /\ \A i \in 1..Len(batch) : f[i] = Taken(f[i - 1], batch[i])
               /\ Added(rows, batch) = f[Len(batch)]
  BY <1>0, AddedIs
<1> DEFINE Fine(n) == /\ Sound(f[n], rows)
                      /\ Rows(f[n].rows) \subseteq Rows(rows) \cup Rows(batch)
                      /\ ~f[n].refused => \A i \in 1..n : batch[i] \in Rows(f[n].rows)
           Bad == {n \in Nat : n <= Len(batch) /\ ~Fine(n)}
<1>2. Fine(0)
  <2>1. f[0] \in [rows : Seq(Opaque), refused : BOOLEAN] /\ f[0].rows = rows
    BY <1>1
  <2>2. Extends(rows, rows)
    BY DEF Extends
  <2>3. \A i \in 1..0 : FALSE
    OBVIOUS
  <2> QED
    BY <2>1, <2>2, <2>3 DEF Sound
<1>3. ASSUME NEW n \in Nat, n # 0, n <= Len(batch), Fine(n - 1)
      PROVE  Fine(n)
  <2>1. n \in 1..Len(batch) /\ f[n] = Taken(f[n - 1], batch[n]) /\ batch[n] \in Opaque /\ batch[n] \in Rows(batch)
    BY <1>0, <1>1, <1>3 DEF Rows
  <2>2. /\ Sound(f[n], rows)
        /\ Rows(f[n - 1].rows) \subseteq Rows(f[n].rows)
        /\ Rows(f[n].rows) \subseteq Rows(f[n - 1].rows) \cup {batch[n]}
        /\ ~f[n].refused => ~f[n - 1].refused /\ batch[n] \in Rows(f[n].rows)
    <3>1. Sound(f[n - 1], rows)
      BY <1>3
    <3> DEFINE so == f[n - 1]
               e == batch[n]
    <3>2. /\ Sound(Taken(so, e), rows)
          /\ Rows(so.rows) \subseteq Rows(Taken(so, e).rows)
          /\ Rows(Taken(so, e).rows) \subseteq Rows(so.rows) \cup {e}
          /\ ~Taken(so, e).refused => ~so.refused /\ e \in Rows(Taken(so, e).rows)
      <4> HIDE DEF so, e, Fine
      <4>1. Sound(so, rows) /\ e \in Opaque
        BY <2>1, <3>1 DEF so, e
      <4> QED
        BY <4>1, TakenIsSound
    <3> QED
      BY <2>1, <3>2
  <2>3. \A i \in 1..n : i # n => i \in 1..n - 1
    BY <1>3
  <2> QED
    BY <1>3, <2>1, <2>2, <2>3
<1> HIDE DEF Fine
<1>4. Bad = {}
  <2>1. SUFFICES ASSUME Bad # {} PROVE FALSE
    OBVIOUS
  <2>2. PICK n \in Bad : \A m \in Bad : n <= m
    BY <2>1, LeastOf
  <2>3. n \in Nat /\ n # 0 /\ n <= Len(batch) /\ n - 1 \in Nat /\ n - 1 <= Len(batch) /\ n - 1 \notin Bad
    BY <1>0, <1>2, <2>2
  <2> QED
    BY <1>3, <2>2, <2>3
<1>5. Fine(Len(batch))
  BY <1>0, <1>4
<1>6. ASSUME NEW e \in Rows(batch) PROVE \E i \in 1..Len(batch) : e = batch[i]
  BY <1>0, <1>6 DEF Rows
<1> QED
  BY <1>1, <1>5, <1>6 DEF Fine

-----------------------------------------------------------------------------
(* Store: the invariant                                                    *)

StoreSteps ==
  {"idle", "create", "look", "initialise", "migrate", "identify", "open", "append", "paging", "paged"}
ArchiveSteps == {"none", "writing", "checked", "marked", "reported", "left"}
Databases ==
  [exists : BOOLEAN, version : 0..2, space : Spaces, rows : Seq(Opaque), revision : Nat]
Processes ==
  [step : StoreSteps, tries : Nat, space : Spaces, batch : Seq(Opaque), lines : Nat, after : Nat,
   through : Nat, got : Seq(Nat)]
Archives ==
  [step : ArchiveSteps, bare : BOOLEAN, through : Nat, segments : SUBSET Nat, manifest : BOOLEAN,
   marker : 0..2, synced : 0..2]
Troubles == [busy : Nat, losses : Nat, spaces : Nat, batches : Nat, reports : Nat]
StoreShape ==
  /\ db \in Databases
  /\ client \in [Client -> Processes]
  /\ grown \in [log : 0..Len(Log), transcript : 0..Len(Transcript)]
  /\ counted \in 0..Len(Log)
  /\ archive \in Archives
  /\ IsFiniteSet(archive.segments)
  /\ trouble \in Troubles

\* A process knows no namespace until it has read it, which it does only when one
\* has been made; and one that appends or reads on knows the one of the database.
Unidentified == {"idle", "create", "look", "initialise", "migrate", "identify"}
Initialising == {"idle", "create", "look", "initialise"}
Agrees(p, d) ==
  /\ p.step = "idle" => p = Idle
  /\ p.step \in Unidentified => p.space = NoSpace /\ p.got = <<>> /\ p.after = 0
  /\ p.step \notin Unidentified => p.space = d.space
  /\ p.step \notin Initialising => d.version # 0
SpacesAgree ==
  /\ \A c \in Client : Agrees(client[c], db)
  /\ db.version = 0 => db.rows = <<>>
  /\ \A e \in Rows(db.rows) : e.id[1] = db.space

\* A row of a log, and one on its way to be one, is of a rank that the log has.
LogShows(e, space, n) ==
  e.source = "log" =>
    \E line \in Rows(Log) : \E rank \in 1..Times(line, n) : e = Under(space, Ranked(line, rank))
LineAt(space, i) == Under(space, Ranked(Log[i], Times(Log[i], i)))
Fits(p, space, n) ==
  p.step = "append" =>
    /\ \A e \in Rows(p.batch) : e.id[1] = space /\ LogShows(e, space, n)
    /\ p.lines # 0 => p.lines <= n /\ \A i \in 1..p.lines : LineAt(space, i) \in Rows(p.batch)
BatchesFit == \A c \in Client : Fits(client[c], db.space, grown.log)
RowsFit ==
  /\ Once(db.rows) /\ OneOwner(db.rows)
  /\ \A e \in Rows(db.rows) : LogShows(e, db.space, grown.log)
  /\ counted <= grown.log
  /\ \A i \in 1..counted : LineAt(db.space, i) \in Rows(db.rows)
  /\ ToldIsStored

\* The parts of an archive are those of rows that are still there, and a reported one
\* has them as long as a sync has reached its name.
ArchiveFits ==
  /\ archive.step # "none" => archive.through <= Len(db.rows)
  /\ archive.step = "marked" => PartsPass /\ archive.marker = 2
  /\ archive.step = "reported" =>
       /\ archive.synced = Syncs(archive)
       /\ (PartsPass /\ archive.marker = 2) \/ (archive.bare /\ ArchiveGone)

\* What was read so far is what there was to read up to the last number.
Follows(p, rows) ==
  /\ p.step = "paging" =>
       /\ p.got = Matching(rows, 0, p.after)
       /\ \/ p.got = <<>> /\ p.after = 0
          \/ p.after <= p.through /\ p.through <= Len(rows)
  /\ p.step = "paged" => p.through <= Len(rows) /\ p.got = Matching(rows, 0, p.through)
PagesFit == \A c \in Client : Follows(client[c], db.rows)

StoreInv ==
  /\ StoreShape /\ SpacesAgree /\ BatchesFit /\ RowsFit /\ ArchiveFits /\ PagesFit

\* It holds of no database.
LEMMA StoreBegins == StoreInit => StoreInv
<1> SUFFICES ASSUME StoreInit PROVE StoreInv
  OBVIOUS
<1> USE DEF StoreInit
<1>0. Len(Log) \in Nat /\ Len(Transcript) \in Nat
  BY StoreAssumption
<1>a. /\ <<>> \in Seq(Opaque) /\ <<>> \in Seq(Nat) /\ Rows(<<>>) = {} /\ DOMAIN <<>> = {}
      /\ 0 \in 0..Len(Log) /\ 0 \in 0..Len(Transcript) /\ {} \in SUBSET Nat /\ IsFiniteSet({})
  BY <1>0, FS_EmptySet DEF Rows
<1>1. StoreShape
  BY <1>0, <1>a DEF StoreShape, Idle, NoArchive, StoreSteps, ArchiveSteps, Spaces, Databases, Processes,
     Archives, Troubles
<1>2. SpacesAgree
  BY <1>a DEF SpacesAgree, Agrees, Idle, Unidentified, Initialising
<1>3. BatchesFit
  BY DEF BatchesFit, Fits, Idle
<1>4. RowsFit
  BY <1>a DEF RowsFit, Once, OneOwner, ToldIsStored
<1>5. ArchiveFits
  BY DEF ArchiveFits, NoArchive
<1>6. PagesFit
  BY DEF PagesFit, Follows, Idle
<1> QED
  BY <1>1, <1>2, <1>3, <1>4, <1>5, <1>6 DEF StoreInv

\* What an update of one part leaves of its shape.
LEMMA TroublesGrow ==
  ASSUME NEW t \in Troubles
  PROVE  /\ [t EXCEPT !.busy = @ + 1] \in Troubles /\ [t EXCEPT !.losses = @ + 1] \in Troubles
         /\ [t EXCEPT !.spaces = @ + 1] \in Troubles /\ [t EXCEPT !.batches = @ + 1] \in Troubles
         /\ [t EXCEPT !.reports = @ + 1] \in Troubles
<1>1. [t EXCEPT !.busy = @ + 1] \in Troubles
  BY DEF Troubles
<1>2. [t EXCEPT !.losses = @ + 1] \in Troubles
  BY DEF Troubles
<1>3. [t EXCEPT !.spaces = @ + 1] \in Troubles
  BY DEF Troubles
<1>4. [t EXCEPT !.batches = @ + 1] \in Troubles
  BY DEF Troubles
<1>5. [t EXCEPT !.reports = @ + 1] \in Troubles
  BY DEF Troubles
<1> QED
  BY <1>1, <1>2, <1>3, <1>4, <1>5

Stepped(p, step) == [p EXCEPT !.step = step]
Learned(p, step, space) == [p EXCEPT !.step = step, !.space = space]
Retried(p, step, tries) == [p EXCEPT !.step = step, !.tries = tries]
Loaded(p, step, batch, lines) == [p EXCEPT !.step = step, !.batch = batch, !.lines = lines]
Paged(p, step, after, through, got) ==
  [p EXCEPT !.through = through, !.after = after, !.got = got, !.step = step]

LEMMA ProcessSteps ==
  ASSUME NEW p \in Processes, NEW step \in StoreSteps
  PROVE  LET q == Stepped(p, step)
         IN /\ q \in Processes
            /\ q.step = step /\ q.space = p.space /\ q.batch = p.batch /\ q.lines = p.lines
            /\ q.after = p.after /\ q.through = p.through /\ q.got = p.got
<1> DEFINE S == Seq(Opaque)
           T == Seq(Nat)
<1>1. Processes = [step : StoreSteps, tries : Nat, space : Spaces, batch : S, lines : Nat, after : Nat,
                   through : Nat, got : T]
  BY DEF Processes
<1> HIDE DEF S, T
<1> QED
  BY <1>1 DEF Stepped

LEMMA ProcessLearns ==
  ASSUME NEW p \in Processes, NEW step \in StoreSteps, NEW space \in Spaces
  PROVE  LET q == Learned(p, step, space)
         IN /\ q \in Processes
            /\ q.step = step /\ q.space = space
            /\ q.after = p.after /\ q.through = p.through /\ q.got = p.got
<1> DEFINE S == Seq(Opaque)
           T == Seq(Nat)
<1>1. Processes = [step : StoreSteps, tries : Nat, space : Spaces, batch : S, lines : Nat, after : Nat,
                   through : Nat, got : T]
  BY DEF Processes
<1> HIDE DEF S, T
<1> QED
  BY <1>1 DEF Learned

LEMMA ProcessRetries ==
  ASSUME NEW p \in Processes, NEW step \in StoreSteps, NEW tries \in Nat
  PROVE  LET q == Retried(p, step, tries)
         IN /\ q \in Processes
            /\ q.step = step /\ q.space = p.space
            /\ q.after = p.after /\ q.through = p.through /\ q.got = p.got
<1> DEFINE S == Seq(Opaque)
           T == Seq(Nat)
<1>1. Processes = [step : StoreSteps, tries : Nat, space : Spaces, batch : S, lines : Nat, after : Nat,
                   through : Nat, got : T]
  BY DEF Processes
<1> HIDE DEF S, T
<1> QED
  BY <1>1 DEF Retried

LEMMA ProcessReads ==
  ASSUME NEW p \in Processes, NEW step \in StoreSteps, NEW batch \in Seq(Opaque), NEW lines \in Nat
  PROVE  LET q == Loaded(p, step, batch, lines)
         IN /\ q \in Processes
            /\ q.step = step /\ q.space = p.space /\ q.batch = batch /\ q.lines = lines
<1> DEFINE S == Seq(Opaque)
           T == Seq(Nat)
<1>1. Processes = [step : StoreSteps, tries : Nat, space : Spaces, batch : S, lines : Nat, after : Nat,
                   through : Nat, got : T]
  BY DEF Processes
<1>2. batch \in S
  OBVIOUS
<1> HIDE DEF S, T
<1> QED
  BY <1>1, <1>2 DEF Loaded

LEMMA ProcessPages ==
  ASSUME NEW p \in Processes, NEW step \in StoreSteps, NEW after \in Nat, NEW through \in Nat,
         NEW got \in Seq(Nat)
  PROVE  LET q == Paged(p, step, after, through, got)
         IN /\ q \in Processes
            /\ q.step = step /\ q.space = p.space
            /\ q.after = after /\ q.through = through /\ q.got = got
<1> DEFINE S == Seq(Opaque)
           T == Seq(Nat)
<1>1. Processes = [step : StoreSteps, tries : Nat, space : Spaces, batch : S, lines : Nat, after : Nat,
                   through : Nat, got : T]
  BY DEF Processes
<1>2. got \in T
  OBVIOUS
<1> HIDE DEF S, T
<1> QED
  BY <1>1, <1>2 DEF Paged

LEMMA IdleIsOne == Idle \in Processes
<1>1. <<>> \in Seq(Opaque) /\ <<>> \in Seq(Nat) /\ NoSpace \in Spaces
  BY DEF Spaces
<1> QED
  BY <1>1 DEF Idle, StoreSteps, Processes

LEMMA DatabaseMoves ==
  ASSUME NEW d \in Databases, NEW space \in Spaces
  PROVE  /\ [d EXCEPT !.exists = TRUE] \in Databases
         /\ [d EXCEPT !.version = 1, !.space = space] \in Databases
         /\ [d EXCEPT !.version = 2] \in Databases
<1> DEFINE S == Seq(Opaque)
<1>0. Databases = [exists : BOOLEAN, version : 0..2, space : Spaces, rows : S, revision : Nat]
  BY DEF Databases
<1> HIDE DEF S
<1>1. [d EXCEPT !.exists = TRUE] \in Databases
  BY <1>0
<1>2. [d EXCEPT !.version = 1, !.space = space] \in Databases
  <2>1. 1 \in 0..2 /\ d.version \in 0..2 /\ d.space \in Spaces
    BY <1>0
  <2> DEFINE V == 0..2
  <2>2. 1 \in V /\ Databases = [exists : BOOLEAN, version : V, space : Spaces, rows : S, revision : Nat]
    BY <1>0, <2>1
  <2> HIDE DEF V
  <2> QED
    BY <2>2
<1>3. [d EXCEPT !.version = 2] \in Databases
  BY <1>0
<1> QED
  BY <1>1, <1>2, <1>3

LEMMA DatabaseGrows ==
  ASSUME NEW d \in Databases, NEW rows \in Seq(Opaque), NEW revision \in Nat
  PROVE  [d EXCEPT !.rows = rows, !.revision = revision] \in Databases
<1> DEFINE S == Seq(Opaque)
<1>1. Databases = [exists : BOOLEAN, version : 0..2, space : Spaces, rows : S, revision : Nat]
  BY DEF Databases
<1>2. rows \in S
  OBVIOUS
<1> HIDE DEF S
<1> QED
  BY <1>1, <1>2

\* A loss of power takes parts of an archive away, all or none of it after one sync,
\* and none after both.
LEMMA LeftIs ==
  ASSUME NEW a \in Archives, NEW left \in Left(a)
  PROVE  /\ left \in Archives /\ left.segments \subseteq a.segments /\ left.step = a.step
         /\ left.through = a.through
         /\ a.synced = 2 => left = a
         /\ a.synced = 1 => \/ left = a
                            \/ /\ left.segments = {} /\ ~left.manifest /\ left.marker = 0
                               /\ left.bare = a.bare /\ left.synced = a.synced
<1>0. a.synced \in 0..2 /\ a.segments \in SUBSET Nat /\ a.marker \in 0..2 /\ a.manifest \in BOOLEAN
  BY DEF Archives
<1>1. CASE left = a
  BY <1>1
<1>2. CASE a.synced = 0 /\ \E kept \in SUBSET Nat, manifest \in BOOLEAN, marker \in 0..2 :
             kept \subseteq a.segments /\ left = [a EXCEPT !.segments = kept, !.manifest = manifest, !.marker = marker]
  <2>1. PICK kept \in SUBSET Nat, manifest \in BOOLEAN, marker \in 0..2 :
             kept \subseteq a.segments /\ left = [a EXCEPT !.segments = kept, !.manifest = manifest, !.marker = marker]
    BY <1>2
  <2>2. left \in Archives
    BY <2>1 DEF Archives
  <2>3. left.segments = kept /\ left.step = a.step /\ left.through = a.through
    BY <2>1 DEF Archives
  <2> QED
    BY <1>2, <2>1, <2>2, <2>3
<1>3. CASE a.synced = 0
  <2>0. Left(a) = {With(a, found) : found \in Found(a)}
    BY <1>3 DEF Left
  <2>1. PICK f \in Found(a) : left = With(a, f)
    BY <2>0
  <2>2. f[1] \in SUBSET a.segments /\ f[2] \in {FALSE, a.manifest} /\ f[3] \in IF a.marker = 0 THEN {0} ELSE {0, 1, 2}
    BY <2>1 DEF Found
  <2>5. f[3] = 0 \/ f[3] = 1 \/ f[3] = 2
    BY <2>2
  <2>6. f[1] \subseteq a.segments /\ (f[2] = FALSE \/ f[2] = a.manifest)
    BY <2>2
  <2>3. f[1] \in SUBSET Nat /\ f[1] \subseteq a.segments /\ f[2] \in BOOLEAN /\ f[3] \in 0..2 /\ a.synced = 0
    <3>1. f[1] \in SUBSET Nat /\ f[1] \subseteq a.segments
      BY <1>0, <2>6
    <3>2. f[2] \in BOOLEAN
      <4>1. CASE f[2] = FALSE
        BY <4>1
      <4>2. CASE f[2] = a.manifest
        BY <1>0, <4>2
      <4> QED
        BY <2>6, <4>1, <4>2
    <3>3. f[3] \in 0..2 /\ a.synced = 0
      BY <1>3, <2>5
    <3> QED
      BY <3>1, <3>2, <3>3
  <2>4. left = [a EXCEPT !.segments = f[1], !.manifest = f[2], !.marker = f[3]]
    BY <2>1 DEF With
  <2> QED
    BY <1>2, <2>3, <2>4
<1>4. CASE a.synced = 1
  <2>1. left = a \/ left = [a EXCEPT !.segments = {}, !.manifest = FALSE, !.marker = 0]
    BY <1>4 DEF Left, With
  <2>2. CASE left = [a EXCEPT !.segments = {}, !.manifest = FALSE, !.marker = 0]
    <3>1. left \in Archives
      <4>1. {} \in SUBSET Nat /\ FALSE \in BOOLEAN /\ 0 \in 0..2
        OBVIOUS
      <4> QED
        BY <2>2, <4>1 DEF Archives
    <3>2. /\ left.segments = {} /\ left.manifest = FALSE /\ left.marker = 0 /\ left.step = a.step
          /\ left.through = a.through /\ left.bare = a.bare /\ left.synced = a.synced
      BY <2>2 DEF Archives
    <3> QED
      BY <1>4, <3>1, <3>2
  <2> QED
    BY <1>1, <2>1, <2>2
<1>5. CASE a.synced = 2
  BY <1>1, <1>5 DEF Left
<1> QED
  BY <1>0, <1>3, <1>4, <1>5

\* Appending: the database has more rows, all of them the batch's, or all of them.
LEMMA AppendIs ==
  ASSUME StoreInv, NEW c \in Client, AppendBatch(c)
  PROVE  /\ db' \in Databases
         /\ db'.version = db.version /\ db'.space = db.space
         /\ Once(db'.rows) /\ OneOwner(db'.rows) /\ Extends(db'.rows, db.rows)
         /\ Rows(db.rows) \subseteq Rows(db'.rows)
         /\ Rows(db'.rows) \subseteq Rows(db.rows) \cup Rows(client[c].batch)
         /\ \/ client' = [client EXCEPT ![c] = Idle] /\ UNCHANGED <<told, counted>>
            \/ /\ client' = [client EXCEPT ![c].step = "open"]
               /\ Rows(client[c].batch) \subseteq Rows(db'.rows)
               /\ told' = told \cup {e.id[2] : e \in Rows(client[c].batch)}
               /\ counted' = IF counted < client[c].lines THEN client[c].lines ELSE counted
         /\ trouble' \in Troubles
         /\ client[c].step = "append" /\ UNCHANGED <<grown, archive>>
<1> DEFINE batch == client[c].batch
           added == Added(db.rows, batch)
<1>1. /\ db \in Databases
      /\ db.rows \in Seq(Opaque) /\ batch \in Seq(Opaque) /\ Once(db.rows) /\ OneOwner(db.rows)
      /\ trouble \in Troubles
  BY DEF StoreInv, StoreShape, RowsFit, Databases, Processes
<1>2. /\ Sound(added, db.rows) /\ Rows(added.rows) \subseteq Rows(db.rows) \cup Rows(batch)
      /\ ~added.refused => Rows(batch) \subseteq Rows(added.rows)
  BY <1>1, AddedIsSound
<1>3. \/ db' = db
      \/ ~added.refused /\ db' = Committed(added)
  BY DEF AppendBatch
<1>4. /\ \/ client' = [client EXCEPT ![c] = Idle] /\ UNCHANGED <<told, counted>>
         \/ /\ client' = [client EXCEPT ![c].step = "open"]
            /\ ~added.refused /\ db' = Committed(added)
            /\ told' = told \cup {e.id[2] : e \in Rows(client[c].batch)}
            /\ counted' = IF counted < client[c].lines THEN client[c].lines ELSE counted
      /\ client[c].step = "append" /\ UNCHANGED <<grown, archive>>
      /\ trouble' = trouble \/ trouble' = [trouble EXCEPT !.losses = @ + 1]
  BY DEF AppendBatch, Closes, Go, Placed
<1> HIDE DEF added, batch
<1>5. Rows(db.rows) \subseteq Rows(added.rows) /\ Extends(db.rows, db.rows)
  <2>1. Extends(added.rows, db.rows) /\ added.rows \in Seq(Opaque)
    BY <1>2 DEF Sound
  <2>2. \A i \in DOMAIN db.rows : i \in DOMAIN added.rows /\ added.rows[i] = db.rows[i]
    BY <1>1, <2>1 DEF Extends
  <2> QED
    BY <1>1, <2>2 DEF Rows, Extends
<1>6. added.rows \in Seq(Opaque)
  BY <1>2 DEF Sound
<1>7. /\ Committed(added).rows = added.rows /\ Committed(added).version = db.version
      /\ Committed(added).space = db.space /\ Committed(added) \in Databases
  <2> DEFINE revision == IF added.rows = db.rows THEN db.revision ELSE db.revision + 1
  <2>1. Committed(added) = [db EXCEPT !.rows = added.rows, !.revision = revision]
    BY DEF Committed
  <2>2. revision \in Nat
    BY <1>1 DEF Databases
  <2> HIDE DEF revision
  <2>3. Committed(added) \in Databases
    <3> DEFINE rows == added.rows
    <3>1. db \in Databases /\ rows \in Seq(Opaque) /\ revision \in Nat
      BY <1>1, <1>6, <2>2
    <3> HIDE DEF rows
    <3>2. [db EXCEPT !.rows = rows, !.revision = revision] \in Databases
      BY <3>1, DatabaseGrows
    <3> QED
      BY <2>1, <3>2 DEF rows
  <2>4. {"rows", "version", "space"} \subseteq DOMAIN db
    <3> DEFINE S == Seq(Opaque)
    <3>1. Databases = [exists : BOOLEAN, version : 0..2, space : Spaces, rows : S, revision : Nat]
      BY DEF Databases
    <3> HIDE DEF S, Spaces
    <3> QED
      BY <1>1, <3>1
  <2>5. /\ Committed(added).rows = added.rows /\ Committed(added).version = db.version
        /\ Committed(added).space = db.space
    BY <2>1, <2>4
  <2> QED
    BY <2>3, <2>5
<1>8. /\ Once(added.rows) /\ OneOwner(added.rows) /\ Extends(added.rows, db.rows)
  BY <1>2 DEF Sound
<1>9. trouble' \in Troubles
  BY <1>1, <1>4, TroublesGrow
<1>10. CASE db' = db
  <2>1. \/ client' = [client EXCEPT ![c] = Idle] /\ UNCHANGED <<told, counted>>
        \/ /\ client' = [client EXCEPT ![c].step = "open"]
           /\ Rows(batch) \subseteq Rows(db'.rows)
           /\ told' = told \cup {e.id[2] : e \in Rows(client[c].batch)}
           /\ counted' = IF counted < client[c].lines THEN client[c].lines ELSE counted
    BY <1>2, <1>4, <1>7
  <2> QED
    BY <1>1, <1>4, <1>5, <1>9, <1>10, <2>1 DEF batch
<1>11. CASE ~added.refused /\ db' = Committed(added)
  <2>1. Rows(batch) \subseteq Rows(db'.rows)
    BY <1>2, <1>7, <1>11
  <2> QED
    BY <1>2, <1>4, <1>5, <1>7, <1>8, <1>9, <1>11, <2>1 DEF batch
<1> QED
  BY <1>3, <1>10, <1>11

\* What a step does to a process is done to that one.
LEMMA OneProcess ==
  ASSUME client \in [Client -> Processes], NEW c \in Client, NEW p, client' = [client EXCEPT ![c] = p]
  PROVE  client'[c] = p /\ \A d \in Client : d # c => client'[d] = client[d]
OBVIOUS

LEMMA StepIs ==
  ASSUME StoreInv, NEW c \in Client, NEW step \in StoreSteps, client' = [client EXCEPT ![c].step = step]
  PROVE  LET p == client[c]
             q == client'[c]
         IN /\ \A d \in Client : d # c => client'[d] = client[d]
            /\ q.step = step /\ q.space = p.space /\ q.batch = p.batch /\ q.lines = p.lines
            /\ q.after = p.after /\ q.through = p.through /\ q.got = p.got
<1>1. client \in [Client -> Processes] /\ client[c] \in Processes
  BY DEF StoreInv, StoreShape
<1>2. client' = [client EXCEPT ![c] = Stepped(client[c], step)]
  BY <1>1 DEF Stepped
<1>3. client'[c] = Stepped(client[c], step) /\ \A d \in Client : d # c => client'[d] = client[d]
  BY <1>1, <1>2
<1> QED
  BY <1>1, <1>3, ProcessSteps

LEMMA LearnIs ==
  ASSUME StoreInv, NEW c \in Client, NEW step \in StoreSteps,
         client' = [client EXCEPT ![c].step = step, ![c].space = db.space]
  PROVE  LET p == client[c]
             q == client'[c]
         IN /\ \A d \in Client : d # c => client'[d] = client[d]
            /\ q.step = step /\ q.space = db.space
            /\ q.after = p.after /\ q.through = p.through /\ q.got = p.got
<1>1. client \in [Client -> Processes] /\ client[c] \in Processes /\ db.space \in Spaces
  BY DEF StoreInv, StoreShape, Databases
<1>2. client' = [client EXCEPT ![c] = Learned(client[c], step, db.space)]
  BY <1>1 DEF Learned
<1>3. client'[c] = Learned(client[c], step, db.space) /\ \A d \in Client : d # c => client'[d] = client[d]
  BY <1>1, <1>2
<1> QED
  BY <1>1, <1>3, ProcessLearns

LEMMA LockedIs ==
  ASSUME StoreInv, NEW c \in Client, FoundLocked(c)
  PROVE  LET p == client[c]
             q == client'[c]
         IN /\ \A d \in Client : d # c => client'[d] = client[d]
            /\ \/ q = Idle
               \/ q.step = "look" /\ q.space = p.space /\ q.after = p.after /\ q.through = p.through /\ q.got = p.got
            /\ UNCHANGED <<db, grown, told, counted, archive>>
<1>1. client \in [Client -> Processes] /\ client[c] \in Processes /\ client[c].tries + 1 \in Nat
  BY DEF StoreInv, StoreShape, Processes
<1> DEFINE tries == client[c].tries + 1
           again == Retried(client[c], "look", tries)
           enough == client[c].tries + 1 < OpenAttempts
<1>2. client' = [client EXCEPT ![c] = IF enough THEN again ELSE Idle]
  BY DEF FoundLocked, Again, Retried
<1> HIDE DEF enough, again, tries
<1>3. /\ client'[c] = Idle \/ client'[c] = again
      /\ \A d \in Client : d # c => client'[d] = client[d]
  BY <1>1, <1>2
<1>4. tries \in Nat /\ "look" \in StoreSteps
  BY <1>1 DEF StoreSteps, tries
<1>5. again.step = "look" /\ again.space = client[c].space /\ again.after = client[c].after
      /\ again.through = client[c].through /\ again.got = client[c].got
  BY <1>1, <1>4, ProcessRetries DEF again
<1> QED
  BY <1>3, <1>5 DEF FoundLocked

LEMMA ReadIs ==
  ASSUME StoreInv, NEW c \in Client, Read(c)
  PROVE  LET p == client[c]
             q == client'[c]
         IN /\ \A d \in Client : d # c => client'[d] = client[d]
            /\ p.step = "open" /\ q.step = "append" /\ q.space = p.space
            /\ \A e \in Rows(q.batch) : e.id[1] = p.space /\ LogShows(e, p.space, grown.log)
            /\ q.lines # 0 => /\ q.lines <= grown.log
                              /\ \A i \in 1..q.lines : LineAt(p.space, i) \in Rows(q.batch)
            /\ UNCHANGED <<db, grown, told, counted, archive>>
<1>1. /\ client \in [Client -> Processes] /\ client[c] \in Processes /\ client[c].space \in Spaces
      /\ grown.log \in 0..Len(Log) /\ grown.transcript \in 0..Len(Transcript)
  BY DEF StoreInv, StoreShape, Processes
<1>2. grown.log \in Nat
  BY <1>1, StoreAssumption
<1>3. PICK b \in Batches(grown.log, grown.transcript) :
          client' = [client EXCEPT ![c].step = "append", ![c].batch = Bound(client[c].space, b),
                                   ![c].lines = IF b = Legacy(grown.log) THEN grown.log ELSE 0]
  BY DEF Read, Batches, Bound
<1> DEFINE lines == IF b = Legacy(grown.log) THEN grown.log ELSE 0
           bound == Bound(client[c].space, b)
<1>4. /\ bound \in Seq(Opaque)
      /\ \A e \in Rows(bound) : e.id[1] = client[c].space /\ LogShows(e, client[c].space, grown.log)
  BY <1>1, BatchIs DEF LogShows
<1>5. b = Legacy(grown.log) => \A i \in 1..grown.log : LineAt(client[c].space, i) \in Rows(bound)
  BY <1>1, BatchIs DEF LineAt
<1>6. lines \in Nat /\ lines <= grown.log /\ (lines # 0 => b = Legacy(grown.log) /\ lines = grown.log)
  BY <1>2
<1>7. client' = [client EXCEPT ![c].step = "append", ![c].batch = bound, ![c].lines = lines]
  BY <1>3
<1> HIDE DEF bound, lines
<1>8. client' = [client EXCEPT ![c] = Loaded(client[c], "append", bound, lines)]
  BY <1>1, <1>7 DEF Loaded
<1>9. client'[c] = Loaded(client[c], "append", bound, lines) /\ \A d \in Client : d # c => client'[d] = client[d]
  BY <1>1, <1>8
<1>10. "append" \in StoreSteps
  BY DEF StoreSteps
<1>11. LET q == client'[c] IN q.step = "append" /\ q.space = client[c].space /\ q.batch = bound /\ q.lines = lines
  BY <1>1, <1>4, <1>6, <1>9, <1>10, ProcessReads
<1>12. client[c].step = "open" /\ UNCHANGED <<db, grown, told, counted, archive>>
  BY DEF Read, Placed
<1> QED
  BY <1>4, <1>5, <1>6, <1>9, <1>11, <1>12

\* A page goes on where the last one ended, and shows what is there up to its end.
LEMMA PageIs ==
  ASSUME StoreInv, NEW c \in Client, Page(c)
  PROVE  LET p == client[c]
             q == client'[c]
         IN /\ client' \in [Client -> Processes]
            /\ \A d \in Client : d # c => client'[d] = client[d]
            /\ p.step = "paging" /\ q.step \in {"paging", "paged"} /\ q.space = p.space
            /\ Follows(q, db.rows)
            /\ UNCHANGED <<db, grown, told, counted, archive, trouble>>
<1> DEFINE p == client[c]
           q == client'[c]
<1>1. /\ client \in [Client -> Processes] /\ p \in Processes
      /\ p.after \in Nat /\ p.through \in Nat /\ p.got \in Seq(Nat) /\ Len(db.rows) \in Nat
      /\ PageLimit \in Nat \ {0}
  <2>1. client \in [Client -> Processes] /\ db \in Databases
    BY DEF StoreInv, StoreShape
  <2>2. p \in Processes
    BY <2>1
  <2>3. p.after \in Nat /\ p.through \in Nat /\ p.got \in Seq(Nat)
    BY <2>2 DEF Processes
  <2>4. Len(db.rows) \in Nat
    BY <2>1 DEF Databases
  <2> QED
    BY <2>1, <2>2, <2>3, <2>4, StoreAssumption
<1>2. p.step = "paging" /\ UNCHANGED <<db, grown, told, counted, archive, trouble>>
  BY DEF Page, Placed
<1>3. Follows(p, db.rows)
  BY DEF StoreInv, PagesFit
<1> DEFINE through == IF FirstPage(c) THEN Len(db.rows) ELSE p.through
           page == PageAfter(p.after, through)
           step == IF page.complete THEN "paged" ELSE "paging"
           got == p.got \o page.rows
           found == Matching(db.rows, p.after, through)
<1>4. /\ through \in Nat /\ p.after <= through /\ through <= Len(db.rows)
      /\ p.got = Matching(db.rows, 0, p.after)
  BY <1>1, <1>2, <1>3 DEF Follows, FirstPage
<1>5. found \in Seq(Nat) /\ Len(found) \in Nat
  BY <1>1, <1>4, MatchingTyped
<1>6. /\ page.rows = FirstOf(found, PageLimit)
      /\ page.complete = (Len(found) <= PageLimit)
      /\ page.next = IF Len(found) <= PageLimit THEN p.after
                     ELSE FirstOf(found, PageLimit)[Len(FirstOf(found, PageLimit))]
  BY DEF PageAfter
<1>7. client' = [client EXCEPT ![c].through = through, ![c].after = page.next, ![c].got = @ \o page.rows,
                               ![c].step = IF page.complete THEN "paged" ELSE "paging"]
  BY DEF Page
<1> DEFINE next == page.next
<1>8. client' = [client EXCEPT ![c] = Paged(p, step, next, through, got)]
  <2> HIDE DEF page, through
  <2> QED
    BY <1>1, <1>7 DEF Paged
<1> HIDE DEF through, page, found
<1>9. CASE Len(found) <= PageLimit
  <2>1. page.complete /\ next = p.after /\ step = "paged"
    BY <1>6, <1>9
  <2>2. FirstOf(found, PageLimit) = found
    <3>1. FirstOf(found, PageLimit) = SubSeq(found, 1, Len(found))
      BY <1>1, <1>5, <1>9 DEF FirstOf
    <3> QED
      BY <1>5, <3>1
  <2>3. got = Matching(db.rows, 0, through)
    <3>1. 0 <= p.after
      BY <1>1
    <3>2. Matching(db.rows, 0, p.after) \o Matching(db.rows, p.after, through) = Matching(db.rows, 0, through)
      <4> HIDE DEF p, found
      <4>1. p.after \in Nat /\ through \in Nat /\ p.after <= through /\ 0 \in Nat
        BY <1>1, <1>4
      <4> QED
        BY <3>1, <4>1, MatchingJoins
    <3>3. page.rows = Matching(db.rows, p.after, through)
      BY <1>6, <2>2 DEF found
    <3> HIDE DEF p
    <3> QED
      BY <1>4, <3>2, <3>3
  <2>4. got \in Seq(Nat)
    <3>1. 0 <= through
      BY <1>4
    <3> HIDE DEF got
    <3> QED
      BY <1>4, <2>3, <3>1, MatchingTyped
  <2> HIDE DEF next, got
  <2>5. "paged" \in StoreSteps
    BY DEF StoreSteps
  <2>6. client'[c] = Paged(p, step, next, through, got) /\ \A d \in Client : d # c => client'[d] = client[d]
    BY <1>1, <1>8
  <2>7. q \in Processes /\ q.step = "paged" /\ q.through = through /\ q.got = got /\ q.space = p.space
    <3>1. next \in Nat
      BY <1>1, <2>1
    <3>2. q = Paged(p, "paged", next, through, got)
      BY <2>1, <2>6
    <3> HIDE DEF p, q
    <3>3. p \in Processes /\ "paged" \in StoreSteps /\ next \in Nat /\ through \in Nat /\ got \in Seq(Nat)
      BY <1>1, <1>4, <2>4, <2>5, <3>1
    <3>4. LET r == Paged(p, "paged", next, through, got)
          IN /\ r \in Processes
             /\ r.step = "paged" /\ r.space = p.space
             /\ r.after = next /\ r.through = through /\ r.got = got
      BY <3>3, ProcessPages
    <3> QED
      BY <3>2, <3>4
  <2>8. client' \in [Client -> Processes]
    BY <1>1, <1>8, <2>6, <2>7
  <2>9. Follows(q, db.rows)
    BY <1>4, <2>3, <2>7 DEF Follows
  <2> QED
    BY <1>2, <2>6, <2>7, <2>8, <2>9
<1>10. CASE ~(Len(found) <= PageLimit)
  <2>1. step = "paging" /\ page.rows = SubSeq(found, 1, PageLimit) /\ next = found[PageLimit]
    <3>1. FirstOf(found, PageLimit) = SubSeq(found, 1, PageLimit)
      BY <1>1, <1>5, <1>10 DEF FirstOf
    <3>2. Len(SubSeq(found, 1, PageLimit)) = PageLimit /\ SubSeq(found, 1, PageLimit)[PageLimit] = found[PageLimit]
      BY <1>1, <1>5, <1>10
    <3> QED
      BY <1>6, <1>10, <3>1, <3>2
  <2>2. next \in Nat /\ p.after < next /\ next <= through /\ Matching(db.rows, p.after, next) = page.rows
    <3>1. PageLimit <= Len(found)
      BY <1>1, <1>5, <1>10
    <3> QED
      BY <1>1, <1>4, <2>1, <3>1, PageEnds DEF found
  <2>3. got = Matching(db.rows, 0, next)
    <3> HIDE DEF next
    <3>1. 0 <= p.after /\ p.after <= next
      BY <1>1, <2>2
    <3>2. Matching(db.rows, 0, p.after) \o Matching(db.rows, p.after, next) = Matching(db.rows, 0, next)
      <4> HIDE DEF p
      <4>1. p.after \in Nat /\ next \in Nat /\ 0 \in Nat
        BY <1>1, <2>2
      <4> QED
        BY <3>1, <4>1, MatchingJoins
    <3> HIDE DEF p
    <3> QED
      BY <1>4, <2>2, <3>2
  <2> HIDE DEF next
  <2>4. got \in Seq(Nat)
    BY <2>2, <2>3, MatchingTyped
  <2> HIDE DEF got
  <2>5. "paging" \in StoreSteps
    BY DEF StoreSteps
  <2>6. client'[c] = Paged(p, step, next, through, got) /\ \A d \in Client : d # c => client'[d] = client[d]
    BY <1>1, <1>8
  <2>7. q \in Processes /\ q.step = "paging" /\ q.through = through /\ q.after = next /\ q.got = got /\ q.space = p.space
    <3>2. q = Paged(p, "paging", next, through, got)
      BY <2>1, <2>6
    <3> HIDE DEF p, q
    <3>3. p \in Processes /\ "paging" \in StoreSteps /\ next \in Nat /\ through \in Nat /\ got \in Seq(Nat)
      BY <1>1, <1>4, <2>2, <2>4, <2>5
    <3>4. LET r == Paged(p, "paging", next, through, got)
          IN /\ r \in Processes
             /\ r.step = "paging" /\ r.space = p.space
             /\ r.after = next /\ r.through = through /\ r.got = got
      BY <3>3, ProcessPages
    <3> QED
      BY <3>2, <3>4
  <2>8. client' \in [Client -> Processes]
    BY <1>1, <1>8, <2>6, <2>7
  <2>9. Follows(q, db.rows)
    BY <1>4, <2>2, <2>3, <2>7 DEF Follows
  <2> QED
    BY <1>2, <2>6, <2>7, <2>8, <2>9
<1> QED
  BY <1>9, <1>10

\* Every part keeps its shape.
LEMMA ShapeKept == StoreInv /\ [StoreNext]_storeVars => StoreShape'
<1> SUFFICES ASSUME StoreInv, [StoreNext]_storeVars PROVE StoreShape'
  OBVIOUS
<1>0. StoreShape
  BY DEF StoreInv
<1>d. db \in Databases /\ db.space \in Spaces /\ Len(db.rows) \in Nat
  BY <1>0 DEF StoreShape, Databases
<1>c. client \in [Client -> Processes]
  BY <1>0 DEF StoreShape
<1>g. grown \in [log : 0..Len(Log), transcript : 0..Len(Transcript)] /\ counted \in 0..Len(Log)
  BY <1>0 DEF StoreShape
<1>a. archive \in Archives /\ IsFiniteSet(archive.segments)
  BY <1>0 DEF StoreShape
<1>r. trouble \in Troubles
  BY <1>0 DEF StoreShape
<1>l. Len(Log) \in Nat /\ Len(Transcript) \in Nat
  BY StoreAssumption
<1>p. \A c \in Client : /\ client[c] \in Processes /\ client[c].tries + 1 \in Nat /\ client[c].space \in Spaces
                        /\ client[c].after \in Nat /\ client[c].through \in Nat /\ client[c].got \in Seq(Nat)
                        /\ client[c].lines \in Nat
  BY <1>c DEF Processes
<1>u. \A c \in Client : \A p \in Processes : [client EXCEPT ![c] = p] \in [Client -> Processes]
  BY <1>c
<1>s. \A c \in Client : \A step \in StoreSteps : [client EXCEPT ![c].step = step] \in [Client -> Processes]
  <2> SUFFICES ASSUME NEW c \in Client, NEW step \in StoreSteps
               PROVE  [client EXCEPT ![c].step = step] \in [Client -> Processes]
    OBVIOUS
  <2>1. Stepped(client[c], step) \in Processes
    BY <1>p, ProcessSteps
  <2>2. [client EXCEPT ![c].step = step] = [client EXCEPT ![c] = Stepped(client[c], step)]
    BY <1>c DEF Stepped
  <2> QED
    BY <1>u, <2>1, <2>2
<1>b. StoreSteps = {"idle", "create", "look", "initialise", "migrate", "identify", "open", "append", "paging", "paged"}
  BY DEF StoreSteps
<1> DEFINE Rest == /\ db' \in Databases /\ client' \in [Client -> Processes]
                   /\ grown' \in [log : 0..Len(Log), transcript : 0..Len(Transcript)]
                   /\ counted' \in 0..Len(Log) /\ archive' \in Archives /\ IsFiniteSet(archive'.segments)
                   /\ trouble' \in Troubles
<1>z. Rest => StoreShape'
  BY DEF StoreShape
<1>1. CASE UNCHANGED storeVars
  BY <1>0, <1>1 DEF storeVars, StoreShape
<1>2. ASSUME NEW c \in Client, Open(c) \/ Create(c) \/ Look(c) \/ Migrate(c) PROVE Rest
  <2>1. client' \in [Client -> Processes] /\ UNCHANGED <<grown, counted, archive, trouble>>
    <3>1. \E step \in StoreSteps : client' = [client EXCEPT ![c].step = step]
      BY <1>2, <1>b DEF Open, Create, Look, Migrate, Go
    <3>2. UNCHANGED <<grown, counted, archive, trouble>>
      BY <1>2 DEF Open, Create, Look, Migrate
    <3> QED
      BY <1>s, <3>1, <3>2
  <2>2. db' = db \/ db' = [db EXCEPT !.exists = TRUE] \/ db' = [db EXCEPT !.version = 2]
    BY <1>2 DEF Open, Create, Look, Migrate
  <2>3. db' \in Databases
    BY <1>d, <2>2, DatabaseMoves
  <2> QED
    BY <1>g, <1>a, <1>r, <2>1, <2>3
<1>3. ASSUME NEW c \in Client, OpenForRead(c) \/ Identify(c) PROVE Rest
  <2>1. \E step \in StoreSteps : client' = [client EXCEPT ![c].step = step, ![c].space = db.space]
    BY <1>3, <1>b DEF OpenForRead, Identify
  <2>2. PICK step \in StoreSteps : client' = [client EXCEPT ![c] = Learned(client[c], step, db.space)]
    BY <1>c, <2>1 DEF Learned
  <2>3. Learned(client[c], step, db.space) \in Processes
    BY <1>d, <1>p, ProcessLearns
  <2>4. client' \in [Client -> Processes]
    BY <1>u, <2>2, <2>3
  <2>5. UNCHANGED <<db, grown, counted, archive>> /\ (trouble' = trouble \/ trouble' = [trouble EXCEPT !.reports = @ + 1])
    BY <1>3 DEF OpenForRead, Identify
  <2>6. trouble' \in Troubles
    BY <1>r, <2>5, TroublesGrow
  <2> QED
    BY <1>d, <1>g, <1>a, <2>4, <2>5, <2>6
<1>6. ASSUME NEW c \in Client, Initialise(c) PROVE Rest
  <2>1. client' \in [Client -> Processes] /\ UNCHANGED <<grown, counted, archive>>
    BY <1>6, <1>s, <1>b DEF Initialise, Go
  <2>2. trouble.spaces + 1 \in Spaces
    BY <1>r DEF Troubles, Spaces
  <2>3. db' = db \/ db' = [db EXCEPT !.version = 1, !.space = trouble.spaces + 1]
    BY <1>6 DEF Initialise, Initialised
  <2>4. db' \in Databases
    BY <1>d, <2>2, <2>3, DatabaseMoves
  <2>5. trouble' = [trouble EXCEPT !.spaces = @] \/ trouble' = [trouble EXCEPT !.spaces = @ + 1]
    BY <1>6 DEF Initialise
  <2>6. [trouble EXCEPT !.spaces = @] = trouble
    BY <1>r DEF Troubles
  <2>7. trouble' \in Troubles
    BY <1>r, <2>5, <2>6, TroublesGrow
  <2> QED
    BY <1>g, <1>a, <2>1, <2>4, <2>7
<1>9. ASSUME NEW c \in Client, FoundLocked(c) PROVE Rest
  <2> DEFINE tries == client[c].tries + 1
             again == Retried(client[c], "look", tries)
             enough == client[c].tries + 1 < OpenAttempts
  <2>1. client' = [client EXCEPT ![c] = IF enough THEN again ELSE Idle]
    BY <1>9 DEF FoundLocked, Again, Retried
  <2> HIDE DEF enough, tries
  <2>2. tries \in Nat /\ "look" \in StoreSteps
    BY <1>p, <1>b DEF tries
  <2>3. again \in Processes
    BY <1>p, <2>2, ProcessRetries
  <2> HIDE DEF again
  <2>4. client' = [client EXCEPT ![c] = again] \/ client' = [client EXCEPT ![c] = Idle]
    BY <2>1
  <2>5. client' \in [Client -> Processes]
    BY <1>u, <2>3, <2>4, IdleIsOne
  <2>6. UNCHANGED <<db, grown, counted, archive>> /\ trouble' \in Troubles
    BY <1>9, <1>r, TroublesGrow DEF FoundLocked
  <2> QED
    BY <1>d, <1>g, <1>a, <2>5, <2>6
<1>10. ASSUME NEW c \in Client, Read(c) PROVE Rest
  <2>1. PICK b \in Batches(grown.log, grown.transcript) :
          client' = [client EXCEPT ![c].step = "append", ![c].batch = Bound(client[c].space, b),
                                   ![c].lines = IF b = Legacy(grown.log) THEN grown.log ELSE 0]
    BY <1>10 DEF Read, Batches, Bound
  <2>2. grown.log \in 0..Len(Log) /\ grown.transcript \in 0..Len(Transcript) /\ grown.log \in Nat
    BY <1>g, <1>l
  <2> DEFINE lines == IF b = Legacy(grown.log) THEN grown.log ELSE 0
             bound == Bound(client[c].space, b)
  <2>3. bound \in Seq(Opaque) /\ lines \in Nat
    BY <1>p, <2>2, BatchIs
  <2>4. client' = [client EXCEPT ![c].step = "append", ![c].batch = bound, ![c].lines = lines]
    BY <2>1
  <2> HIDE DEF bound, lines
  <2>5. client' = [client EXCEPT ![c] = Loaded(client[c], "append", bound, lines)]
    BY <1>c, <2>4 DEF Loaded
  <2>6. Loaded(client[c], "append", bound, lines) \in Processes
    BY <1>p, <1>b, <2>3, ProcessReads
  <2>7. client' \in [Client -> Processes]
    BY <1>u, <2>5, <2>6
  <2>8. UNCHANGED <<db, grown, counted, archive>> /\ trouble' \in Troubles
    BY <1>10, <1>r, TroublesGrow DEF Read
  <2> QED
    BY <1>d, <1>g, <1>a, <2>7, <2>8
<1>11. ASSUME NEW c \in Client, AppendBatch(c) PROVE Rest
  <2>1. client' = [client EXCEPT ![c] = Idle] \/ client' = [client EXCEPT ![c].step = "open"]
    BY <1>11, AppendIs
  <2>2. client' \in [Client -> Processes]
    <3>1. "open" \in StoreSteps
      BY <1>b
    <3> QED
      BY <1>u, <1>s, <2>1, <3>1, IdleIsOne
  <2>3. client[c].lines \in Nat /\ client[c].lines <= Len(Log)
    <3>1. client[c].step = "append"
      BY <1>11, AppendIs
    <3>2. client[c].lines = 0 \/ client[c].lines <= grown.log
      BY <3>1 DEF StoreInv, BatchesFit, Fits
    <3> QED
      BY <1>l, <1>g, <1>p, <3>2
  <2>4. counted' = counted \/ counted' = client[c].lines
    BY <1>11, AppendIs
  <2>5. counted' \in 0..Len(Log)
    BY <1>l, <1>g, <2>3, <2>4
  <2>6. db' \in Databases /\ trouble' \in Troubles /\ UNCHANGED <<grown, archive>>
    BY <1>11, AppendIs
  <2> QED
    BY <1>g, <1>a, <2>2, <2>5, <2>6
<1>12. ASSUME NEW c \in Client, Page(c) PROVE Rest
  BY <1>d, <1>g, <1>a, <1>r, <1>12, PageIs
<1>13. ASSUME NEW c \in Client, Close(c) PROVE Rest
  <2>1. client' \in [Client -> Processes] /\ UNCHANGED <<db, grown, counted, archive, trouble>>
    BY <1>13, <1>u, IdleIsOne DEF Close, Closes
  <2> QED
    BY <1>d, <1>g, <1>a, <1>r, <2>1
<1>14. ASSUME NEW c \in Client, ArchiveBegins(c) PROVE Rest
  <2>1. archive' \in Archives /\ archive'.segments = {}
    <3>1. PICK bare \in BOOLEAN :
            archive' = [step |-> "writing", bare |-> bare, through |-> Len(db.rows), segments |-> {},
                        manifest |-> FALSE, marker |-> 0, synced |-> 0]
      BY <1>14 DEF ArchiveBegins, NoArchive
    <3>2. {} \in SUBSET Nat
      OBVIOUS
    <3> QED
      BY <1>d, <3>1, <3>2 DEF ArchiveSteps, Archives
  <2>2. UNCHANGED <<db, client, grown, counted, trouble>>
    BY <1>14 DEF ArchiveBegins
  <2> QED
    BY <1>d, <1>c, <1>g, <1>r, <2>1, <2>2, FS_EmptySet
<1>15. ASSUME Grow PROVE Rest
  <2>1. grown' \in [log : 0..Len(Log), transcript : 0..Len(Transcript)]
    <3>1. CASE grown.log < Len(Log) /\ grown' = [grown EXCEPT !.log = @ + 1]
      BY <1>g, <1>l, <3>1
    <3>2. CASE grown.transcript < Len(Transcript) /\ grown' = [grown EXCEPT !.transcript = @ + 1]
      BY <1>g, <1>l, <3>2
    <3> QED
      BY <1>15, <3>1, <3>2 DEF Grow
  <2>2. UNCHANGED <<db, client, counted, archive, trouble>>
    BY <1>15 DEF Grow
  <2> QED
    BY <1>d, <1>c, <1>g, <1>a, <1>r, <2>1, <2>2
<1>16. ASSUME ArchiveStep PROVE Rest
  <2>0. UNCHANGED <<db, client, grown, counted, trouble>>
    BY <1>16 DEF ArchiveStep
  <2>1. CASE Segment
    <3> DEFINE n == Cardinality(archive.segments) + 1
               S == archive.segments \cup {n}
    <3>1. n \in Nat /\ archive.segments \in SUBSET Nat
      BY <1>a, FS_CardinalityType DEF Archives
    <3>2. S \in SUBSET Nat /\ IsFiniteSet(S)
      BY <1>a, <3>1, FS_AddElement
    <3>3. archive' = [archive EXCEPT !.segments = S]
      BY <2>1 DEF Segment
    <3> HIDE DEF n, S
    <3>4. archive' \in Archives /\ archive'.segments = S
      BY <1>a, <3>2, <3>3 DEF Archives
    <3> QED
      BY <1>d, <1>c, <1>g, <1>r, <2>0, <3>2, <3>4
  <2>2. CASE ManifestSynced \/ Mark \/ NamesSynced \/ Reported \/ Leave
    <3>1. archive' \in Archives /\ archive'.segments = archive.segments
      <4>1. CASE ManifestSynced
        BY <1>a, <4>1 DEF Archives, ArchiveSteps, ManifestSynced
      <4>2. CASE Mark
        <5>1. archive' = [archive EXCEPT !.marker = 1] \/ archive' = [archive EXCEPT !.marker = 2, !.step = "marked"]
          BY <4>2 DEF Mark
        <5>2. CASE archive' = [archive EXCEPT !.marker = 1]
          BY <1>a, <5>2 DEF Archives
        <5>3. CASE archive' = [archive EXCEPT !.marker = 2, !.step = "marked"]
          <6> DEFINE V == 0..2
          <6>1. /\ 2 \in V /\ "marked" \in ArchiveSteps
                /\ Archives = [step : ArchiveSteps, bare : BOOLEAN, through : Nat, segments : SUBSET Nat,
                               manifest : BOOLEAN, marker : V, synced : V]
            BY DEF ArchiveSteps, Archives
          <6> HIDE DEF V
          <6> QED
            BY <1>a, <5>3, <6>1
        <5> QED
          BY <5>1, <5>2, <5>3
      <4>3. CASE NamesSynced
        BY <1>a, <4>3 DEF Archives, ArchiveSteps, NamesSynced, Syncs
      <4>4. CASE Reported
        BY <1>a, <4>4 DEF Archives, ArchiveSteps, Reported
      <4>5. CASE Leave
        BY <1>a, <4>5 DEF Archives, ArchiveSteps, Leave
      <4> QED
        BY <2>2, <4>1, <4>2, <4>3, <4>4, <4>5
    <3> QED
      BY <1>d, <1>c, <1>g, <1>a, <1>r, <2>0, <3>1
  <2> QED
    BY <1>16, <2>1, <2>2 DEF ArchiveStep
<1>17. ASSUME PowerLoss PROVE Rest
  <2>1. PICK left \in Left(archive) :
          archive' = [left EXCEPT !.step = IF @ \in {"none", "reported"} THEN @ ELSE "left"]
    BY <1>17 DEF PowerLoss
  <2>2. left \in Archives /\ left.segments \subseteq archive.segments
    BY <1>a, <2>1, LeftIs
  <2>3. IsFiniteSet(left.segments)
    BY <1>a, <2>2, FS_Subset
  <2>4. archive' \in Archives /\ archive'.segments = left.segments
    BY <2>1, <2>2 DEF ArchiveSteps, Archives
  <2>5. client' \in [Client -> Processes] /\ UNCHANGED <<db, grown, counted>>
    BY <1>17, IdleIsOne DEF PowerLoss
  <2>6. trouble' \in Troubles
    BY <1>17, <1>r, TroublesGrow DEF PowerLoss
  <2> QED
    BY <1>d, <1>g, <2>3, <2>4, <2>5, <2>6
<1> HIDE DEF Rest
<1> QED
  BY <1>z, <1>1, <1>2, <1>3, <1>6, <1>9, <1>10, <1>11, <1>12, <1>13, <1>14, <1>15, <1>16, <1>17 DEF StoreNext

\* The namespace is made once, before the first row, and rows stay where they are.
LEMMA DatabaseStays ==
  ASSUME StoreInv, [StoreNext]_storeVars
  PROVE  /\ db.version # 0 => db'.version # 0 /\ db'.space = db.space
         /\ db'.version = 0 => db'.rows = <<>>
         /\ Extends(db'.rows, db.rows) /\ Rows(db.rows) \subseteq Rows(db'.rows)
         /\ db'.rows = db.rows \/ \E c \in Client : AppendBatch(c)
<1>1. /\ db \in Databases /\ db.rows \in Seq(Opaque) /\ db.version \in 0..2
      /\ db.version = 0 => db.rows = <<>>
  BY DEF StoreInv, StoreShape, Databases, SpacesAgree
<1>2. Extends(db.rows, db.rows)
  BY <1>1 DEF Extends
<1>3. \A c \in Client : client[c].step \in {"append", "migrate"} => db.version # 0
  BY DEF StoreInv, SpacesAgree, Agrees, Initialising
<1>4. CASE UNCHANGED db
  BY <1>1, <1>2, <1>4
<1>5. CASE \E c \in Client : AppendBatch(c)
  <2>1. PICK c \in Client : AppendBatch(c)
    BY <1>5
  <2>2. client[c].step = "append"
    BY <2>1, AppendIs
  <2> QED
    BY <1>3, <2>1, <2>2, AppendIs
<1>6. CASE \E c \in Client : Create(c) \/ Initialise(c) \/ Migrate(c)
  <2>1. PICK c \in Client : Create(c) \/ Initialise(c) \/ Migrate(c)
    BY <1>6
  <2> DEFINE S == Seq(Opaque)
  <2>0. db \in [exists : BOOLEAN, version : 0..2, space : Spaces, rows : S, revision : Nat]
    BY <1>1 DEF Databases
  <2> HIDE DEF S
  <2>2. CASE Create(c)
    <3>1. db'.version = db.version /\ db'.space = db.space /\ db'.rows = db.rows
      BY <2>0, <2>2 DEF Create
    <3> QED
      BY <1>1, <1>2, <3>1
  <2>3. CASE Initialise(c)
    <3>1. \/ db' = db
          \/ db.version = 0 /\ db' = [db EXCEPT !.version = 1, !.space = trouble.spaces + 1]
      <4>1. db' = Initialised(db, trouble.spaces + 1)
        BY <2>3 DEF Initialise
      <4> QED
        BY <4>1, Zenon DEF Initialised
    <3>2. CASE db.version = 0 /\ db' = [db EXCEPT !.version = 1, !.space = trouble.spaces + 1]
      <4>1. db'.version = 1 /\ db'.rows = db.rows
        BY <2>0, <3>2
      <4> QED
        BY <1>1, <1>2, <3>2, <4>1
    <3> QED
      BY <1>1, <1>2, <3>1, <3>2
  <2>4. CASE Migrate(c)
    <3>1. client[c].step = "migrate"
      BY <2>4 DEF Migrate, Placed
    <3>2. db'.version = 2 /\ db'.space = db.space /\ db'.rows = db.rows
      BY <2>0, <2>4 DEF Migrate
    <3> QED
      BY <1>1, <1>2, <3>1, <3>2
  <2> QED
    BY <2>1, <2>2, <2>3, <2>4
<1>7. \/ UNCHANGED db \/ \E c \in Client : AppendBatch(c)
      \/ \E c \in Client : Create(c) \/ Initialise(c) \/ Migrate(c)
  BY ZenonT(60) DEF storeVars, StoreNext, Open, OpenForRead, Look, Identify, FoundLocked, Read, Page, Close,
     ArchiveBegins, Grow, ArchiveStep, PowerLoss
<1> QED
  BY <1>4, <1>5, <1>6, <1>7

\* Who appends goes on from an acknowledged batch, or starts over.
LEMMA AppenderIs ==
  ASSUME StoreInv, NEW c \in Client, AppendBatch(c)
  PROVE  LET p == client[c]
             q == client'[c]
         IN /\ \A d \in Client : d # c => client'[d] = client[d]
            /\ \/ q = Idle
               \/ q.step = "open" /\ q.space = p.space
<1>1. client \in [Client -> Processes]
  BY DEF StoreInv, StoreShape
<1>2. CASE client' = [client EXCEPT ![c] = Idle]
  BY <1>1, <1>2
<1>3. CASE client' = [client EXCEPT ![c].step = "open"]
  <2>1. "open" \in StoreSteps
    BY DEF StoreSteps
  <2> QED
    BY <1>3, <2>1, StepIs
<1> QED
  BY <1>2, <1>3, AppendIs

\* A process comes to know the namespace of the database, once there is one.
LEMMA SpacesKept ==
  ASSUME StoreInv, [StoreNext]_storeVars
  PROVE  SpacesAgree'
<1>1. \A d \in Client : Agrees(client[d], db)
  BY DEF StoreInv, SpacesAgree
<1>c. client \in [Client -> Processes]
  BY DEF StoreInv, StoreShape
<1>2. \A d \in Client : Agrees(client[d], db')
  BY <1>1, DatabaseStays DEF Agrees, Unidentified, Initialising
<1>i. Agrees(Idle, db')
  BY DEF Agrees, Idle, Unidentified, Initialising
<1> DEFINE Others(c) == \A d \in Client : d # c => client'[d] = client[d]
<1>3. ASSUME NEW c \in Client, Open(c) \/ Create(c) \/ Look(c) \/ Initialise(c) \/ Migrate(c)
      PROVE  Others(c) /\ Agrees(client'[c], db')
  <2>1. client[c].step \in {"idle", "create", "look", "initialise", "migrate"}
    BY <1>3 DEF Open, Create, Look, Initialise, Migrate, Placed
  <2>2. /\ client[c].space = NoSpace /\ client[c].got = <<>> /\ client[c].after = 0
        /\ client[c].step = "migrate" => db.version # 0
    BY <1>1, <2>1 DEF Agrees, Unidentified, Initialising
  <2>3. PICK step \in {"create", "look", "initialise", "migrate", "identify"} :
          /\ client' = [client EXCEPT ![c].step = step]
          /\ step \in {"migrate", "identify"} => ~Open(c) /\ ~Create(c)
    <3>1. CASE Open(c)
      BY <3>1 DEF Open, Go, Create, Placed
    <3>2. CASE Create(c)
      BY <3>2 DEF Create, Go
    <3>3. CASE Look(c)
      BY <3>3 DEF Look, Go, Open, Create, Placed
    <3>4. CASE Initialise(c)
      BY <3>4 DEF Initialise, Go, Open, Create, Placed
    <3>5. CASE Migrate(c)
      BY <3>5 DEF Migrate, Go, Open, Create, Placed
    <3> QED
      BY <1>3, <3>1, <3>2, <3>3, <3>4, <3>5
  <2>4. step \in StoreSteps
    BY DEF StoreSteps
  <2>5. /\ Others(c) /\ client'[c].step = step /\ client'[c].space = NoSpace
        /\ client'[c].after = 0 /\ client'[c].got = <<>>
    BY <2>2, <2>3, <2>4, StepIs
  <2>6. step \in {"migrate", "identify"} => db'.version # 0
    <3>1. CASE Look(c)
      <4>1. step = IF db.version < 2 THEN "initialise" ELSE "identify"
        <5>1. client' = [client EXCEPT ![c].step = IF db.version < 2 THEN "initialise" ELSE "identify"]
          BY <3>1 DEF Look, Go
        <5>2. (IF db.version < 2 THEN "initialise" ELSE "identify") \in StoreSteps
          BY DEF StoreSteps
        <5> QED
          BY <2>5, <5>1, <5>2, StepIs
      <4>2. db' = db
        BY <3>1 DEF Look
      <4> QED
        BY <4>1, <4>2
    <3>2. CASE Initialise(c)
      <4>1. db' = IF db.version = 0 THEN [db EXCEPT !.version = 1, !.space = trouble.spaces + 1] ELSE db
        BY <3>2 DEF Initialise, Initialised
      <4>2. DOMAIN db = {"exists", "version", "space", "rows", "revision"}
        BY DEF StoreInv, StoreShape, Databases
      <4> QED
        BY <4>1, <4>2
    <3>3. CASE Migrate(c)
      BY <2>2, <3>3, DatabaseStays DEF Migrate, Placed
    <3> QED
      BY <1>3, <2>3, <3>1, <3>2, <3>3
  <2> QED
    BY <2>5, <2>6 DEF Agrees, Unidentified, Initialising
<1>4. ASSUME NEW c \in Client, OpenForRead(c) \/ Identify(c)
      PROVE  Others(c) /\ Agrees(client'[c], db')
  <2>1. db' = db /\ db.version # 0
    <3>1. CASE OpenForRead(c)
      BY <3>1 DEF OpenForRead
    <3>2. CASE Identify(c)
      <4>1. client[c].step = "identify" /\ db' = db
        BY <3>2 DEF Identify, Placed
      <4> QED
        BY <1>1, <4>1 DEF Agrees, Initialising
    <3> QED
      BY <1>4, <3>1, <3>2
  <2>2. PICK step \in {"paging", "open"} : client' = [client EXCEPT ![c].step = step, ![c].space = db.space]
    BY <1>4 DEF OpenForRead, Identify
  <2>3. step \in StoreSteps
    BY DEF StoreSteps
  <2>4. Others(c) /\ client'[c].step = step /\ client'[c].space = db.space
    BY <2>2, <2>3, LearnIs
  <2> QED
    BY <2>1, <2>4 DEF Agrees, Unidentified, Initialising
<1>5. ASSUME NEW c \in Client, FoundLocked(c)
      PROVE  Others(c) /\ Agrees(client'[c], db')
  <2>1. client[c].step \in {"look", "initialise", "migrate", "identify"}
    BY <1>5 DEF FoundLocked
  <2>2. client[c].space = NoSpace /\ client[c].got = <<>> /\ client[c].after = 0
    BY <1>1, <2>1 DEF Agrees, Unidentified
  <2>3. CASE client'[c] = Idle
    BY <1>5, <1>i, <2>3, LockedIs
  <2>4. CASE client'[c] # Idle
    <3>1. Others(c) /\ client'[c].step = "look" /\ client'[c].space = NoSpace /\ client'[c].got = <<>> /\ client'[c].after = 0
      BY <1>5, <2>2, <2>4, LockedIs
    <3> QED
      BY <3>1 DEF Agrees, Unidentified, Initialising
  <2> QED
    BY <2>3, <2>4
<1>6. ASSUME NEW c \in Client, Read(c) \/ Page(c)
      PROVE  Others(c) /\ Agrees(client'[c], db')
  <2>1. /\ client[c].step \in {"open", "paging"} /\ client'[c].step \in {"append", "paging", "paged"}
        /\ Others(c) /\ client'[c].space = client[c].space
    BY <1>6, ReadIs, PageIs
  <2> QED
    BY <1>2, <2>1 DEF Agrees, Unidentified, Initialising
<1>7. ASSUME NEW c \in Client, AppendBatch(c)
      PROVE  Others(c) /\ Agrees(client'[c], db')
  <2>1. client[c].step = "append"
    BY <1>7, AppendIs
  <2>2. CASE client'[c] = Idle
    BY <1>7, <1>i, <2>2, AppenderIs
  <2>3. CASE client'[c] # Idle
    <3>1. Others(c) /\ client'[c].step = "open" /\ client'[c].space = client[c].space
      BY <1>7, <2>3, AppenderIs
    <3> QED
      BY <1>2, <2>1, <3>1 DEF Agrees, Unidentified, Initialising
  <2> QED
    BY <2>2, <2>3
<1>8. ASSUME NEW c \in Client, Close(c)
      PROVE  Others(c) /\ Agrees(client'[c], db')
  BY <1>c, <1>i, <1>8 DEF Close, Closes
<1>9. \A d \in Client : Agrees(client'[d], db')
  <2>1. CASE UNCHANGED client
    BY <1>2, <2>1
  <2>2. CASE PowerLoss
    BY <1>i, <2>2 DEF PowerLoss
  <2>3. CASE \E c \in Client : Others(c) /\ Agrees(client'[c], db')
    BY <1>2, <2>3
  <2>4. \/ UNCHANGED client \/ PowerLoss
        \/ \E c \in Client : \/ Open(c) \/ OpenForRead(c) \/ Create(c) \/ Look(c) \/ Initialise(c) \/ Migrate(c)
                             \/ Identify(c) \/ FoundLocked(c) \/ Read(c) \/ AppendBatch(c) \/ Page(c) \/ Close(c)
    BY DEF storeVars, StoreNext, ArchiveBegins, Grow, ArchiveStep
  <2> HIDE DEF Others
  <2> QED
    BY <1>3, <1>4, <1>5, <1>6, <1>7, <1>8, <2>1, <2>2, <2>3, <2>4
<1>10. db'.version = 0 => db'.rows = <<>>
  BY DatabaseStays
<1>11. \A e \in Rows(db'.rows) : e.id[1] = db'.space
  <2>0. \A e \in Rows(db.rows) : e.id[1] = db.space
    BY DEF StoreInv, SpacesAgree
  <2>1. CASE \E c \in Client : AppendBatch(c)
    <3>1. PICK c \in Client : AppendBatch(c)
      BY <2>1
    <3>2. \A e \in Rows(client[c].batch) : e.id[1] = db.space
      BY <3>1, AppendIs DEF StoreInv, BatchesFit, Fits
    <3> QED
      BY <2>0, <3>1, <3>2, AppendIs
  <2>2. CASE db'.rows = db.rows
    <3>1. CASE db.version # 0
      BY <2>0, <2>2, <3>1, DatabaseStays
    <3>2. CASE db.version = 0
      <4>1. Rows(db'.rows) = {}
        BY <2>2, <3>2 DEF StoreInv, SpacesAgree, Rows
      <4> QED
        BY <4>1
    <3> QED
      BY <3>1, <3>2
  <2> QED
    BY <2>1, <2>2, DatabaseStays
<1> QED
  BY <1>9, <1>10, <1>11 DEF SpacesAgree

\* A log only grows, and what it shows it goes on showing.
LEMMA LogGrows ==
  ASSUME StoreInv, [StoreNext]_storeVars
  PROVE  /\ grown.log \in Nat /\ grown'.log \in Nat /\ grown.log <= grown'.log
         /\ \A e, space : LogShows(e, space, grown.log) => LogShows(e, space, grown'.log)
<1>1. grown \in [log : 0..Len(Log), transcript : 0..Len(Transcript)] /\ Len(Log) \in Nat
  BY StoreAssumption DEF StoreInv, StoreShape
<1>2. UNCHANGED grown \/ Grow
  BY ZenonT(60) DEF storeVars, StoreNext, Open, OpenForRead, Create, Look, Initialise, Migrate, Identify, FoundLocked,
     Read, AppendBatch, Page, Close, ArchiveBegins, ArchiveStep, PowerLoss
<1>3. UNCHANGED grown \/ grown' = [grown EXCEPT !.log = @ + 1] \/ grown' = [grown EXCEPT !.transcript = @ + 1]
  BY <1>2 DEF Grow
<1>4. grown.log \in Nat /\ grown'.log \in Nat /\ grown.log <= grown'.log
  BY <1>1, <1>3
<1>5. ASSUME NEW e, NEW space, LogShows(e, space, grown.log)
      PROVE  LogShows(e, space, grown'.log)
  <2>1. SUFFICES ASSUME e.source = "log"
                 PROVE  \E line \in Rows(Log) : \E rank \in 1..Times(line, grown'.log) : e = Under(space, Ranked(line, rank))
    BY DEF LogShows
  <2>2. PICK line \in Rows(Log) : \E rank \in 1..Times(line, grown.log) : e = Under(space, Ranked(line, rank))
    BY <1>5, <2>1 DEF LogShows
  <2>3. \A rank \in 1..Times(line, grown.log) : rank \in 1..Times(line, grown'.log)
    <3>1. /\ Times(line, grown.log) \in Nat /\ Times(line, grown'.log) \in Nat
          /\ Times(line, grown.log) <= Times(line, grown'.log)
      BY <1>4, TimesIs, TimesGrow
    <3> QED
      BY <3>1
  <2> QED
    BY <2>2, <2>3
<1> QED
  BY <1>4, <1>5

\* What a process may have become.
LEMMA ProcessIs ==
  ASSUME StoreInv, [StoreNext]_storeVars, NEW d \in Client
  PROVE  \/ client'[d] = client[d] \/ Read(d) \/ Page(d)
         \/ client'[d].step \in {"idle", "create", "look", "initialise", "migrate", "identify", "open"}
         \/ client'[d].step = "paging" /\ client'[d].got = <<>> /\ client'[d].after = 0
<1> DEFINE Early == {"idle", "create", "look", "initialise", "migrate", "identify", "open"}
<1>c. client \in [Client -> Processes] /\ Idle.step = "idle"
  BY DEF StoreInv, StoreShape, Idle
<1>1. ASSUME NEW c \in Client, Open(c) \/ Create(c) \/ Look(c) \/ Initialise(c) \/ Migrate(c)
      PROVE  client'[d] = client[d] \/ client'[d].step \in Early
  <2>1. PICK step \in {"create", "look", "initialise", "migrate", "identify"} :
          client' = [client EXCEPT ![c].step = step]
    BY <1>1 DEF Open, Create, Look, Initialise, Migrate, Go
  <2>2. step \in StoreSteps
    BY DEF StoreSteps
  <2> QED
    BY <2>1, <2>2, StepIs
<1>2. ASSUME NEW c \in Client, Identify(c)
      PROVE  client'[d] = client[d] \/ client'[d].step \in Early
  <2>1. client' = [client EXCEPT ![c].step = "open", ![c].space = db.space] /\ "open" \in StoreSteps
    BY <1>2 DEF Identify, StoreSteps
  <2> QED
    BY <2>1, LearnIs
<1>3. ASSUME NEW c \in Client, OpenForRead(c)
      PROVE  \/ client'[d] = client[d]
             \/ client'[d].step = "paging" /\ client'[d].got = <<>> /\ client'[d].after = 0
  <2>1. client' = [client EXCEPT ![c].step = "paging", ![c].space = db.space] /\ "paging" \in StoreSteps
    BY <1>3 DEF OpenForRead, StoreSteps
  <2>2. client[c].got = <<>> /\ client[c].after = 0
    <3>1. client[c].step = "idle"
      BY <1>3 DEF OpenForRead, Placed
    <3> QED
      BY <3>1 DEF StoreInv, SpacesAgree, Agrees, Unidentified
  <2> QED
    BY <2>1, <2>2, LearnIs, ZenonT(60)
<1>4. ASSUME NEW c \in Client, FoundLocked(c)
      PROVE  client'[d] = client[d] \/ client'[d].step \in Early
  BY <1>c, <1>4, LockedIs
<1>5. ASSUME NEW c \in Client, Read(c) \/ Page(c)
      PROVE  client'[d] = client[d] \/ Read(d) \/ Page(d)
  BY <1>5, ReadIs, PageIs
<1>6. ASSUME NEW c \in Client, AppendBatch(c)
      PROVE  client'[d] = client[d] \/ client'[d].step \in Early
  BY <1>c, <1>6, AppenderIs
<1>7. ASSUME NEW c \in Client, Close(c)
      PROVE  client'[d] = client[d] \/ client'[d].step \in Early
  BY <1>c, <1>7 DEF Close, Closes
<1>8. CASE PowerLoss
  <2>1. client'[d].step = "idle"
    BY <1>c, <1>8 DEF PowerLoss
  <2> QED
    BY <2>1
<1>9. CASE UNCHANGED client
  BY <1>9
<1>10. \/ UNCHANGED client \/ PowerLoss
       \/ \E c \in Client : \/ Open(c) \/ OpenForRead(c) \/ Create(c) \/ Look(c) \/ Initialise(c) \/ Migrate(c)
                            \/ Identify(c) \/ FoundLocked(c) \/ Read(c) \/ AppendBatch(c) \/ Page(c) \/ Close(c)
  BY DEF storeVars, StoreNext, ArchiveBegins, Grow, ArchiveStep
<1> QED
  BY <1>1, <1>2, <1>3, <1>4, <1>5, <1>6, <1>7, <1>8, <1>9, <1>10

\* A batch read is under the namespace of its reader, which is that of the database.
LEMMA BatchesKept ==
  ASSUME StoreInv, [StoreNext]_storeVars
  PROVE  BatchesFit'
<1> SUFFICES ASSUME NEW d \in Client, client'[d].step = "append"
             PROVE  Fits(client'[d], db'.space, grown'.log)
  BY DEF BatchesFit, Fits
<1>1. Agrees(client[d], db) /\ Fits(client[d], db.space, grown.log)
  BY DEF StoreInv, SpacesAgree, BatchesFit
<1>2. CASE client'[d] = client[d]
  <2>1. db'.space = db.space
    BY <1>1, <1>2, DatabaseStays DEF Agrees, Initialising
  <2>2. client[d].lines \in Nat
    BY DEF StoreInv, StoreShape, Processes
  <2>3. client[d].lines <= grown.log => client[d].lines <= grown'.log
    BY <2>2, LogGrows
  <2> QED
    BY <1>1, <1>2, <2>1, <2>3, LogGrows DEF Fits
<1>3. CASE Read(d)
  <2>1. db' = db /\ grown' = grown /\ client[d].space = db.space
    <3>1. client[d].step = "open" /\ db' = db /\ grown' = grown
      BY <1>3, ReadIs
    <3> QED
      BY <1>1, <3>1 DEF Agrees, Unidentified
  <2> QED
    BY <1>3, <2>1, ReadIs DEF Fits
<1>4. CASE Page(d)
  BY <1>4, PageIs
<1> QED
  BY <1>2, <1>3, <1>4, ProcessIs

\* Rows are added by appends only, and then all of a batch.
LEMMA RowsKept ==
  ASSUME StoreInv, [StoreNext]_storeVars
  PROVE  RowsFit'
<1>1. /\ Once(db.rows) /\ OneOwner(db.rows) /\ counted <= grown.log
      /\ \A e \in Rows(db.rows) : LogShows(e, db.space, grown.log)
      /\ \A i \in 1..counted : LineAt(db.space, i) \in Rows(db.rows)
      /\ told \subseteq {e.id[2] : e \in Rows(db.rows)}
      /\ counted \in 0..Len(Log) /\ Len(Log) \in Nat
  BY StoreAssumption DEF StoreInv, StoreShape, RowsFit, ToldIsStored
<1>2. counted \in Nat
  BY <1>1
<1>3. CASE \E c \in Client : AppendBatch(c)
  <2>1. PICK c \in Client : AppendBatch(c)
    BY <1>3
  <2> DEFINE batch == client[c].batch
             lines == client[c].lines
  <2>2. client[c].step = "append" /\ grown' = grown /\ db'.space = db.space
    BY <2>1, AppendIs
  <2>3. /\ \A e \in Rows(batch) : LogShows(e, db.space, grown.log)
        /\ lines # 0 => lines <= grown.log /\ \A i \in 1..lines : LineAt(db.space, i) \in Rows(batch)
        /\ lines \in Nat
    BY <2>2 DEF StoreInv, StoreShape, Processes, BatchesFit, Fits
  <2>4. /\ Once(db'.rows) /\ OneOwner(db'.rows) /\ Rows(db.rows) \subseteq Rows(db'.rows)
        /\ Rows(db'.rows) \subseteq Rows(db.rows) \cup Rows(batch)
        /\ \/ UNCHANGED <<told, counted>>
           \/ /\ Rows(batch) \subseteq Rows(db'.rows)
              /\ told' = told \cup {e.id[2] : e \in Rows(batch)}
              /\ counted' = IF counted < lines THEN lines ELSE counted
    BY <2>1, AppendIs
  <2> HIDE DEF batch, lines
  <2>5. \A e \in Rows(db'.rows) : LogShows(e, db'.space, grown'.log)
    BY <1>1, <2>2, <2>3, <2>4
  <2>6. counted' <= grown'.log /\ \A i \in 1..counted' : LineAt(db'.space, i) \in Rows(db'.rows)
    <3>1. CASE counted' = counted
      BY <1>1, <2>2, <2>4, <3>1
    <3>2. CASE counted' # counted
      <4>1. counted' = lines /\ lines # 0 /\ Rows(batch) \subseteq Rows(db'.rows)
        BY <1>2, <2>3, <2>4, <3>2
      <4> QED
        BY <2>2, <2>3, <4>1
    <3> QED
      BY <3>1, <3>2
  <2>7. told' \subseteq {e.id[2] : e \in Rows(db'.rows)}
    BY <1>1, <2>4
  <2> QED
    BY <2>4, <2>5, <2>6, <2>7 DEF RowsFit, ToldIsStored
<1>4. CASE ~\E c \in Client : AppendBatch(c)
  <2>1. db'.rows = db.rows
    BY <1>4, DatabaseStays
  <2>2. UNCHANGED <<told, counted>>
    BY <1>4, ZenonT(60) DEF storeVars, StoreNext, Open, OpenForRead, Create, Look, Initialise, Migrate, Identify, FoundLocked,
       Read, Page, Close, ArchiveBegins, ArchiveStep, PowerLoss, Grow
  <2>3. counted' <= grown'.log
    BY <1>1, <1>2, <2>2, LogGrows
  <2>4. CASE db.version # 0
    <3>1. db'.space = db.space
      BY <2>4, DatabaseStays
    <3> QED
      BY <1>1, <2>1, <2>2, <2>3, <3>1, LogGrows DEF RowsFit, ToldIsStored
  <2>5. CASE db.version = 0
    <3>1. Rows(db.rows) = {}
      BY <2>5 DEF StoreInv, SpacesAgree, Rows
    <3>2. (\A e \in Rows(db.rows) : FALSE) /\ \A i \in 1..counted : FALSE
      BY <1>1, <3>1
    <3> QED
      BY <1>1, <2>1, <2>2, <2>3, <3>2 DEF RowsFit, ToldIsStored
  <2> QED
    BY <2>4, <2>5
<1> QED
  BY <1>3, <1>4

\* Rows added after a page do not change what was read.
LEMMA PagesKept ==
  ASSUME StoreInv, [StoreNext]_storeVars
  PROVE  PagesFit'
<1> SUFFICES ASSUME NEW d \in Client
             PROVE  Follows(client'[d], db'.rows)
  BY DEF PagesFit
<1>0. /\ db.rows \in Seq(Opaque) /\ Len(db.rows) \in Nat /\ db'.rows \in Seq(Opaque) /\ Len(db'.rows) \in Nat
      /\ Follows(client[d], db.rows)
      /\ client[d].after \in Nat /\ client[d].through \in Nat
  <2>1. StoreShape'
    BY ShapeKept
  <2>2. db'.rows \in Seq(Opaque)
    BY <2>1 DEF StoreShape, Databases
  <2> QED
    BY <2>2, SMTT(60) DEF StoreInv, StoreShape, Databases, Processes, PagesFit
<1>1. Len(db.rows) <= Len(db'.rows) /\ \A i \in 1..Len(db.rows) : db.rows[i] = db'.rows[i]
  BY DatabaseStays DEF Extends
<1>2. \A n \in Nat : n <= Len(db.rows) => Matching(db.rows, 0, n) = Matching(db'.rows, 0, n)
  <2> SUFFICES ASSUME NEW n \in Nat, n <= Len(db.rows)
               PROVE  Matching(db.rows, 0, n) = Matching(db'.rows, 0, n)
    OBVIOUS
  <2>1. 0 <= n /\ \A i \in 1..n : db.rows[i] = db'.rows[i]
    BY <1>0, <1>1
  <2> DEFINE R == db.rows
             S == db'.rows
  <2>2. 0 \in Nat /\ n \in Nat /\ 0 <= n /\ \A i \in 1..n : R[i] = S[i]
    BY <2>1
  <2> HIDE DEF R, S
  <2>3. Matching(R, 0, n) = Matching(S, 0, n)
    BY <2>2, MatchingKept
  <2> QED
    BY <2>3, ZenonT(60) DEF R, S
<1>e. Matching(db'.rows, 0, 0) = <<>> /\ Matching(db.rows, 0, 0) = <<>>
  BY MatchingSteps
<1>3. CASE client'[d] = client[d]
  <2>1. CASE client[d].step = "paging"
    <3>1. client[d].after <= Len(db.rows)
      BY <1>0, <2>1 DEF Follows
    <3> QED
      BY <1>0, <1>1, <1>2, <1>3, <2>1, <3>1 DEF Follows
  <2>2. CASE client[d].step = "paged"
    BY <1>0, <1>1, <1>2, <1>3, <2>2 DEF Follows
  <2> QED
    BY <1>3, <2>1, <2>2 DEF Follows
<1>4. CASE Page(d)
  BY <1>4, PageIs
<1>5. CASE Read(d)
  BY <1>5, ReadIs DEF Follows
<1>6. CASE client'[d].step \in {"idle", "create", "look", "initialise", "migrate", "identify", "open"}
  BY <1>6 DEF Follows
<1>7. CASE client'[d].step = "paging" /\ client'[d].got = <<>> /\ client'[d].after = 0
  BY <1>e, <1>7 DEF Follows
<1> QED
  BY <1>3, <1>4, <1>5, <1>6, <1>7, ProcessIs

\* An archive that is marked stays whole, and once reported, whatever is lost.
LEMMA ArchiveKept ==
  ASSUME StoreInv, [StoreNext]_storeVars
  PROVE  ArchiveFits'
<1>0. /\ db.rows \in Seq(Opaque) /\ Len(db.rows) \in Nat /\ db'.rows \in Seq(Opaque) /\ Len(db'.rows) \in Nat
      /\ archive \in Archives /\ archive' \in Archives
  <2>1. StoreShape'
    BY ShapeKept
  <2>2. db'.rows \in Seq(Opaque) /\ archive' \in Archives
    BY <2>1 DEF StoreShape, Databases
  <2> QED
    BY <2>2 DEF StoreInv, StoreShape, Databases
<1>1. Len(db.rows) <= Len(db'.rows) /\ \A i \in 1..Len(db.rows) : db.rows[i] = db'.rows[i]
  BY DatabaseStays DEF Extends
<1>2. /\ archive.step # "none" => archive.through <= Len(db.rows)
      /\ archive.step = "marked" => PartsPass /\ archive.marker = 2
      /\ archive.step = "reported" =>
           /\ archive.synced = Syncs(archive)
           /\ (PartsPass /\ archive.marker = 2) \/ (archive.bare /\ ArchiveGone)
  BY DEF StoreInv, ArchiveFits
<1>3. ASSUME archive.step # "none", archive'.through = archive.through PROVE Archived' = Archived
  <2>1. archive.through \in Nat /\ 0 <= archive.through
    BY <1>0 DEF Archives
  <2>2. \A i \in 1..archive.through : db.rows[i] = db'.rows[i]
    BY <1>0, <1>1, <1>2, <1>3, <2>1
  <2>3. Matching(db.rows, 0, archive.through) = Matching(db'.rows, 0, archive.through)
    <3> DEFINE R == db.rows
               S == db'.rows
               n == archive.through
    <3>1. 0 \in Nat /\ n \in Nat /\ 0 <= n /\ \A i \in 1..n : R[i] = S[i]
      BY <2>1, <2>2
    <3> HIDE DEF R, S, n
    <3>2. Matching(R, 0, n) = Matching(S, 0, n)
      BY <3>1, MatchingKept
    <3> QED
      BY <3>2 DEF R, S, n
  <2> QED
    BY <1>3, <2>3 DEF Archived
<1>4. ASSUME archive.step # "none", PartsPass, archive'.through = archive.through,
             archive'.segments = archive.segments, archive'.manifest = archive.manifest
      PROVE  PartsPass'
  BY <1>3, <1>4 DEF PartsPass
<1>5. archive.through \in Nat
  BY <1>0 DEF Archives
<1>6. CASE UNCHANGED archive
  <2>1. archive'.step # "none" => archive'.through <= Len(db'.rows)
    BY <1>0, <1>1, <1>2, <1>5, <1>6
  <2>2. Syncs(archive') = Syncs(archive) /\ (ArchiveGone => ArchiveGone')
    BY <1>6 DEF Syncs, ArchiveGone
  <2> QED
    BY <1>2, <1>4, <1>6, <2>1, <2>2 DEF ArchiveFits
<1>7. CASE \E c \in Client : ArchiveBegins(c)
  <2>1. archive'.step = "writing" /\ archive'.through = Len(db.rows)
    BY <1>7 DEF ArchiveBegins, NoArchive
  <2> QED
    BY <1>0, <1>1, <2>1 DEF ArchiveFits
<1>8. CASE ArchiveStep
  <2>1. archive.step # "none" /\ archive'.through = archive.through
    BY <1>0, <1>8 DEF ArchiveStep, Segment, ManifestSynced, Mark, NamesSynced, Reported, Leave, Archives
  <2>2. archive'.through <= Len(db'.rows)
    BY <1>0, <1>1, <1>2, <1>5, <2>1
  <2>3. CASE Segment \/ ManifestSynced \/ Leave
    <3>1. archive'.step \notin {"marked", "reported"}
      BY <1>0, <2>3 DEF Segment, ManifestSynced, Leave, Archives
    <3> QED
      BY <2>2, <3>1 DEF ArchiveFits
  <2>4. CASE Mark
    <3>1. PartsPass /\ archive.step = "checked"
      BY <2>4 DEF Mark
    <3>2. archive'.segments = archive.segments /\ archive'.manifest = archive.manifest
      BY <1>0, <2>4 DEF Mark, Archives
    <3>3. \/ archive'.step = "checked"
          \/ archive'.step = "marked" /\ archive'.marker = 2
      BY <1>0, <2>4 DEF Mark, Archives
    <3>4. PartsPass'
      BY <1>3, <2>1, <3>1, <3>2 DEF PartsPass
    <3> QED
      BY <2>2, <3>3, <3>4 DEF ArchiveFits
  <2>5. CASE NamesSynced \/ Reported
    <3>1. /\ archive.step = "marked" /\ archive'.segments = archive.segments
          /\ archive'.manifest = archive.manifest /\ archive'.marker = archive.marker
      BY <1>0, <2>5 DEF NamesSynced, Reported, Archives
    <3>2. archive'.step = "reported" => archive'.synced = Syncs(archive')
      BY <1>0, <2>5 DEF NamesSynced, Reported, Archives, Syncs
    <3> QED
      BY <1>2, <1>4, <2>1, <2>2, <3>1, <3>2 DEF ArchiveFits
  <2> QED
    BY <1>8, <2>3, <2>4, <2>5 DEF ArchiveStep
<1>9. CASE PowerLoss
  <2>1. PICK left \in Left(archive) :
          archive' = [left EXCEPT !.step = IF @ \in {"none", "reported"} THEN @ ELSE "left"]
    BY <1>9, SMTT(60) DEF PowerLoss
  <2>2. /\ left \in Archives /\ left.step = archive.step /\ left.through = archive.through
        /\ archive.synced = 2 => left = archive
        /\ archive.synced = 1 => \/ left = archive
                                 \/ /\ left.segments = {} /\ ~left.manifest /\ left.marker = 0
                                    /\ left.bare = archive.bare /\ left.synced = archive.synced
    BY <1>0, <2>1, LeftIs
  <2>3. /\ archive'.through = archive.through
        /\ archive'.segments = left.segments /\ archive'.manifest = left.manifest
        /\ archive'.marker = left.marker /\ archive'.synced = left.synced
        /\ archive'.bare = left.bare
        /\ archive'.step = IF archive.step \in {"none", "reported"} THEN archive.step ELSE "left"
    BY <2>1, <2>2 DEF Archives
  <2>4. archive'.step # "none" => archive'.through <= Len(db'.rows)
    BY <1>0, <1>1, <1>2, <1>5, <2>3
  <2>5. archive'.step \in {"marked", "reported"} => archive.step = "reported" /\ archive'.step = "reported"
    BY <2>3
  <2>6. ASSUME archive.step = "reported"
        PROVE  /\ archive'.synced = Syncs(archive')
               /\ (PartsPass' /\ archive'.marker = 2) \/ (archive'.bare /\ ArchiveGone')
    <3>1. archive.synced = Syncs(archive) /\ archive.synced \in {1, 2}
          /\ (archive.synced = 1 <=> archive.bare)
      BY <1>0, <1>2, <2>6 DEF Syncs, Archives
    <3>2. CASE left = archive
      <4>1. Syncs(archive') = Syncs(archive) /\ (ArchiveGone => ArchiveGone')
        BY <2>3, <3>2 DEF Syncs, ArchiveGone
      <4>2. PartsPass => PartsPass'
        BY <1>4, <2>3, <2>6, <3>2
      <4> QED
        BY <1>2, <2>3, <2>6, <3>1, <3>2, <4>1, <4>2
    <3>3. CASE left # archive
      <4>1. /\ archive.synced = 1 /\ left.segments = {} /\ ~left.manifest /\ left.marker = 0
            /\ left.bare = archive.bare /\ left.synced = archive.synced
        BY <2>2, <3>1, <3>3
      <4>2. ArchiveGone' /\ archive'.bare /\ archive'.synced = 1
        BY <2>3, <3>1, <4>1 DEF ArchiveGone
      <4> QED
        BY <4>2 DEF Syncs
    <3> QED
      BY <3>2, <3>3
  <2> QED
    BY <2>4, <2>5, <2>6 DEF ArchiveFits
<1>10. UNCHANGED archive \/ (\E c \in Client : ArchiveBegins(c)) \/ ArchiveStep \/ PowerLoss
  BY ZenonT(60) DEF storeVars, StoreNext, Open, OpenForRead, Create, Look, Initialise, Migrate, Identify, FoundLocked,
     Read, AppendBatch, Page, Close, Grow
<1> QED
  BY <1>6, <1>7, <1>8, <1>9, <1>10

\* However the steps of openers, recorders, imports, readers and an archive are
\* interleaved, with lock conflicts and losses of power, the parts agree: the
\* invariant that the rest follows from.
THEOREM StoreInvariant == StoreSpec => []StoreInv
<1>1. StoreInv /\ [StoreNext]_storeVars => StoreInv'
  BY ShapeKept, SpacesKept, BatchesKept, RowsKept, ArchiveKept, PagesKept DEF StoreInv
<1> QED
  BY StoreBegins, <1>1, PTL DEF StoreSpec

-----------------------------------------------------------------------------
(* Store: what the invariant says of a database and of its readers          *)

\* A row of a line tells the line and its rank.
LEMMA RankedIsOne ==
  ASSUME NEW space, NEW line \in Rows(Log), NEW r \in Nat
  PROVE  /\ Under(space, Ranked(line, r)).id = <<space, <<line, r>>>>
         /\ Under(space, Ranked(line, r)).source = "log"
<1>1. Ranked(line, r) \in Natural /\ Ranked(line, r).id = <<line, r>> /\ Ranked(line, r).source = "log"
  <2>1. Ranked(line, r) \in Logged
    BY DEF Logged
  <2>2. Ranked(line, r).id = <<line, r>> /\ Ranked(line, r).source = "log"
    BY DEF Ranked
  <2> QED
    BY <2>1, <2>2 DEF Natural
<1> QED
  BY <1>1, UnderIs

LEMMA RowsAreFinite ==
  ASSUME NEW rows \in Seq(Opaque)
  PROVE  IsFiniteSet(Rows(rows))
<1>1. Len(rows) \in Nat /\ DOMAIN rows = 1..Len(rows) /\ \A i \in DOMAIN rows : rows[i] \in Rows(rows)
  BY DEF Rows
<1>2. IsFiniteSet(DOMAIN rows)
  BY <1>1, FS_Interval, 1 \in Int, Len(rows) \in Int
<1>3. rows \in Surjection(DOMAIN rows, Rows(rows))
  <2>1. rows \in [DOMAIN rows -> Rows(rows)]
    BY <1>1
  <2>2. \A e \in Rows(rows) : \E i \in DOMAIN rows : rows[i] = e
    BY DEF Rows
  <2> QED
    BY <2>1, <2>2 DEF Surjection
<1> QED
  BY <1>2, <1>3, FS_Surjection

\* Of a line there are as many rows as ranks, no fewer than an import counted and no
\* more than the log has: rows and ranks are in one-to-one correspondence.
LEMMA LinesAreCounted ==
  ASSUME StoreInv
  PROVE  CountedOnce
<1> SUFFICES ASSUME NEW line \in Rows(Log)
             PROVE  LET stored == Cardinality({e \in Rows(db.rows) : e.source = "log" /\ e.id[2][1] = line})
                    IN Times(line, counted) <= stored /\ stored <= Times(line, grown.log)
  BY DEF CountedOnce
<1> DEFINE Stored == {e \in Rows(db.rows) : e.source = "log" /\ e.id[2][1] = line}
           row(r) == Under(db.space, Ranked(line, r))
<1>1. /\ db.rows \in Seq(Opaque) /\ counted \in Nat /\ grown.log \in Nat
      /\ \A e \in Rows(db.rows) : LogShows(e, db.space, grown.log)
      /\ \A i \in 1..counted : LineAt(db.space, i) \in Rows(db.rows)
  <2>1. Len(Log) \in Nat
    BY StoreAssumption
  <2> QED
    BY <2>1 DEF StoreInv, StoreShape, Databases, RowsFit
<1>2. Times(line, counted) \in Nat /\ Times(line, grown.log) \in Nat
  BY <1>1, TimesIs
<1>3. \A r \in Nat : row(r).id = <<db.space, <<line, r>>>> /\ row(r).source = "log"
  BY RankedIsOne
<1>4. IsFiniteSet(Stored) /\ Cardinality(Stored) \in Nat
  <2>1. IsFiniteSet(Rows(db.rows))
    BY <1>1, RowsAreFinite
  <2> QED
    BY <2>1, FS_Subset, FS_CardinalityType
<1> HIDE DEF row
<1>5. \A r \in 1..Times(line, counted) : row(r) \in Stored
  <2> SUFFICES ASSUME NEW r \in 1..Times(line, counted) PROVE row(r) \in Stored
    OBVIOUS
  <2>1. PICK i \in 1..counted : Log[i] = line /\ Times(line, i) = r
    BY <1>1, RanksAreTaken
  <2>2. row(r) \in Rows(db.rows)
    BY <1>1, <2>1 DEF LineAt, row
  <2>3. r \in Nat
    BY <1>2
  <2> QED
    BY <1>3, <2>2, <2>3
<1>6. \A e \in Stored : \E r \in 1..Times(line, grown.log) : e = row(r)
  <2> SUFFICES ASSUME NEW e \in Stored PROVE \E r \in 1..Times(line, grown.log) : e = row(r)
    OBVIOUS
  <2>1. PICK other \in Rows(Log) : \E r \in 1..Times(other, grown.log) : e = Under(db.space, Ranked(other, r))
    BY <1>1 DEF LogShows
  <2>2. PICK r \in 1..Times(other, grown.log) : e = Under(db.space, Ranked(other, r))
    BY <2>1
  <2>3. r \in Nat
    BY <1>1, TimesIs
  <2>4. e.id[2][1] = other
    BY <2>2, <2>3, RankedIsOne
  <2> QED
    BY <2>2, <2>4 DEF row
<1> HIDE DEF Stored
<1>7. Times(line, counted) <= Cardinality(Stored)
  <2> DEFINE f == [r \in 1..Times(line, counted) |-> row(r)]
  <2>1. f \in Injection(1..Times(line, counted), Stored)
    <3>1. f \in [1..Times(line, counted) -> Stored]
      BY <1>5
    <3>2. \A r, s \in 1..Times(line, counted) : row(r) = row(s) => r = s
      <4> SUFFICES ASSUME NEW r \in 1..Times(line, counted), NEW s \in 1..Times(line, counted), row(r) = row(s)
                   PROVE  r = s
        OBVIOUS
      <4>1. r \in Nat /\ s \in Nat
        BY <1>2
      <4>2. <<db.space, <<line, r>>>> = <<db.space, <<line, s>>>>
        BY <1>3, <4>1
      <4> QED
        BY <4>2
    <3> QED
      BY <3>1, <3>2 DEF Injection, IsInjective
  <2>2. IsFiniteSet(1..Times(line, counted)) /\ Cardinality(1..Times(line, counted)) = Times(line, counted)
    BY <1>2, FS_Interval, 1 \in Int, Times(line, counted) \in Int
  <2> HIDE DEF f
  <2> QED
    BY <1>4, <2>1, <2>2, FS_Injection
<1>8. Cardinality(Stored) <= Times(line, grown.log)
  <2> DEFINE f == [r \in 1..Times(line, grown.log) |-> row(r)]
             All == {row(r) : r \in 1..Times(line, grown.log)}
  <2>1. IsFiniteSet(1..Times(line, grown.log)) /\ Cardinality(1..Times(line, grown.log)) = Times(line, grown.log)
    BY <1>2, FS_Interval, 1 \in Int, Times(line, grown.log) \in Int
  <2>2. f \in Surjection(1..Times(line, grown.log), All)
    BY DEF Surjection
  <2>3. Stored \subseteq All
    BY <1>6
  <2> HIDE DEF f, All
  <2>4. IsFiniteSet(All) /\ Cardinality(All) <= Times(line, grown.log)
    BY <2>1, <2>2, FS_Surjection
  <2>5. Cardinality(Stored) <= Cardinality(All) /\ Cardinality(All) \in Nat
    BY <2>3, <2>4, FS_Subset, FS_CardinalityType
  <2> QED
    BY <1>2, <1>4, <2>4, <2>5
<1> QED
  BY <1>7, <1>8 DEF Stored

\* A pass over the events of a request observes none of a kind, or the one there is.
LEMMA NoneObserved ==
  ASSUME NEW rows, Len(rows) \in Nat, NEW key, NEW kind, NEW seen,
         \A i \in Of(rows, key) : rows[i].kind # kind
  PROVE  Through(rows, key, kind, seen) = seen
<1>1. PICK f : /\ f[0] = seen
               /\ \A i \in 1..Len(rows) :
                    f[i] = IF i \in Of(rows, key) /\ rows[i].kind = kind
                             THEN Observed(rows[i], i, f[i - 1]) ELSE f[i - 1]
               /\ Through(rows, key, kind, seen) = f[Len(rows)]
  BY ThroughIs
<1>2. \A i \in 1..Len(rows) : f[i] = f[i - 1]
  BY <1>1
<1> DEFINE Bad == {n \in Nat : n <= Len(rows) /\ f[n] # seen}
<1>3. Bad = {}
  <2>1. SUFFICES ASSUME Bad # {} PROVE FALSE
    OBVIOUS
  <2>2. PICK n \in Bad : \A m \in Bad : n <= m
    BY <2>1, LeastOf
  <2>3. n # 0 /\ n - 1 \in Nat /\ n \in 1..Len(rows) /\ n - 1 <= Len(rows) /\ n - 1 \notin Bad
    BY <1>1, <2>2
  <2> QED
    BY <1>2, <2>2, <2>3
<1> QED
  BY <1>1, <1>3

LEMMA OneObserved ==
  ASSUME NEW rows, Len(rows) \in Nat, NEW key, NEW kind, NEW seen,
         NEW m \in 1..Len(rows), m \in Of(rows, key), rows[m].kind = kind,
         \A i \in Of(rows, key) : rows[i].kind = kind => i = m
  PROVE  Through(rows, key, kind, seen) = Observed(rows[m], m, seen)
<1>1. PICK f : /\ f[0] = seen
               /\ \A i \in 1..Len(rows) :
                    f[i] = IF i \in Of(rows, key) /\ rows[i].kind = kind
                             THEN Observed(rows[i], i, f[i - 1]) ELSE f[i - 1]
               /\ Through(rows, key, kind, seen) = f[Len(rows)]
  BY ThroughIs
<1>2. f[m] = Observed(rows[m], m, f[m - 1]) /\ \A i \in 1..Len(rows) : i # m => f[i] = f[i - 1]
  BY <1>1
<1> DEFINE Early == {n \in Nat : n < m /\ f[n] # seen}
           Late == {n \in Nat : m <= n /\ n <= Len(rows) /\ f[n] # f[m]}
<1>3. Early = {}
  <2>1. SUFFICES ASSUME Early # {} PROVE FALSE
    OBVIOUS
  <2>2. PICK n \in Early : \A k \in Early : n <= k
    BY <2>1, LeastOf
  <2>3. n # 0 /\ n - 1 \in Nat /\ n \in 1..Len(rows) /\ n # m /\ n - 1 < m /\ n - 1 \notin Early
    BY <1>1, <2>2
  <2> QED
    BY <1>2, <2>2, <2>3
<1>4. Late = {}
  <2>1. SUFFICES ASSUME Late # {} PROVE FALSE
    OBVIOUS
  <2>2. PICK n \in Late : \A k \in Late : n <= k
    BY <2>1, LeastOf
  <2>3. n # m /\ n - 1 \in Nat /\ n \in 1..Len(rows) /\ m <= n - 1 /\ n - 1 <= Len(rows) /\ n - 1 \notin Late
    BY <2>2
  <2> QED
    BY <1>2, <2>2, <2>3
<1>5. f[m - 1] = seen /\ f[Len(rows)] = f[m]
  BY <1>3, <1>4
<1> QED
  BY <1>1, <1>2, <1>5

\* Of a request there is one row of each kind at most, and one owner.
LEMMA RequestsAreOnce ==
  ASSUME NEW rows \in Seq(Opaque), Once(rows), OneOwner(rows), NEW key,
         NEW i \in Of(rows, key), NEW j \in Of(rows, key)
  PROVE  /\ i \in 1..Len(rows) /\ rows[i].kind \in {"started", "finished"}
         /\ rows[i].owner = rows[j].owner
         /\ rows[i].kind = rows[j].kind => i = j
<1>1. /\ i \in DOMAIN rows /\ j \in DOMAIN rows /\ IsRequest(rows[i]) /\ IsRequest(rows[j])
      /\ <<rows[i].source, rows[i].attempt>> = key /\ <<rows[j].source, rows[j].attempt>> = key
  BY DEF Of
<1>2. rows[i].source = rows[j].source /\ rows[i].attempt = rows[j].attempt
  BY <1>1
<1>3. rows[i] \in Opaque /\ i \in 1..Len(rows)
  BY <1>1
<1>4. rows[i].attempt # ""
  BY <1>1, <1>3, OpaqueIs
<1>5. rows[i].owner = rows[j].owner
  BY <1>1, <1>2, <1>4 DEF OneOwner, SameAttempt
<1>6. Key(rows[i]) = <<rows[i].source, rows[i].attempt, rows[i].kind>>
      /\ Key(rows[j]) = <<rows[j].source, rows[j].attempt, rows[j].kind>>
  BY <1>1 DEF Key, IsRequest
<1>7. Key(rows[i]) # <<>>
  BY <1>6
<1>8. rows[i].kind = rows[j].kind => i = j
  BY <1>1, <1>2, <1>6, <1>7 DEF Once
<1> QED
  BY <1>1, <1>3, <1>5, <1>8 DEF IsRequest

\* So the two passes over a request, finished rows first, find what the list finds.
LEMMA TotalsFit ==
  ASSUME StoreInv
  PROVE  TotalsAgree
<1> SUFFICES ASSUME NEW key \in Attempts(db.rows)
             PROVE  LET total == Streamed(db.rows, key)
                        one == Listed(db.rows, key)
                    IN /\ ~total.refused /\ total.tool = one.tool
                       /\ one.incomplete <=> "finished" \notin total.kinds
  BY DEF TotalsAgree
<1> DEFINE rows == db.rows
           events == Of(rows, key)
           total == Streamed(rows, key)
           one == Listed(rows, key)
           least == CHOOSE i \in events : \A j \in events : i <= j
           done == Through(rows, key, "finished", NothingYet)
<1>1. rows \in Seq(Opaque) /\ Len(rows) \in Nat /\ Once(rows) /\ OneOwner(rows)
  BY DEF StoreInv, StoreShape, Databases, RowsFit
<1>2. events # {} /\ events \subseteq Nat
  <2>1. PICK e \in Rows(rows) : IsRequest(e) /\ key = <<e.source, e.attempt>>
    BY DEF Attempts
  <2>2. PICK i \in DOMAIN rows : e = rows[i]
    BY <2>1 DEF Rows
  <2>3. i \in events
    BY <2>1, <2>2 DEF Of
  <2>4. DOMAIN rows = 1..Len(rows)
    BY <1>1
  <2> QED
    BY <2>3, <2>4 DEF Of
<1>3. \A i, j \in events :
        /\ i \in 1..Len(rows) /\ rows[i].kind \in {"started", "finished"}
        /\ rows[i].owner = rows[j].owner
        /\ rows[i].kind = rows[j].kind => i = j
  <2> HIDE DEF rows
  <2> QED
    BY <1>1, RequestsAreOnce
<1>4. least \in events /\ \A j \in events : least <= j
  <2> HIDE DEF events
  <2>1. \E i \in events : \A j \in events : i <= j
    BY <1>2, LeastOf
  <2> QED
    BY <2>1
<1>5. one.tool = rows[least].tool /\ (one.incomplete <=> \A i \in events : rows[i].kind # "finished")
  BY DEF Listed
<1>6. total = Through(rows, key, "started", done)
  BY DEF Streamed
<1> HIDE DEF rows, events, total, one, least, done
<1>7. CASE \A i \in events : rows[i].kind # "finished"
  <2>1. done = NothingYet
    BY <1>1, <1>7, NoneObserved DEF done, events
  <2>2. least \in 1..Len(rows) /\ rows[least].kind = "started" /\ \A i \in events : rows[i].kind = "started" => i = least
    BY <1>3, <1>4, <1>7
  <2>3. total = Observed(rows[least], least, NothingYet)
    BY <1>1, <1>4, <1>6, <2>1, <2>2, OneObserved, SMTT(60) DEF events
  <2>4. total.tool = rows[least].tool /\ total.kinds = {"started"} /\ ~total.refused
    BY <2>2, <2>3 DEF Observed, NothingYet
  <2> QED
    BY <1>5, <1>7, <2>4 DEF total, one, rows
<1>8. CASE ~\A i \in events : rows[i].kind # "finished"
  <2>1. PICK f \in events : rows[f].kind = "finished"
    BY <1>8
  <2>2. f \in 1..Len(rows) /\ \A i \in events : rows[i].kind = "finished" => i = f
    BY <1>3, <2>1
  <2>3. done = Observed(rows[f], f, NothingYet)
    BY <1>1, <2>1, <2>2, OneObserved, SMTT(60) DEF done, events
  <2>4. done = [first |-> f, tool |-> rows[f].tool, owner |-> rows[f].owner, kinds |-> {rows[f].kind}, refused |-> FALSE]
    BY <2>3 DEF Observed, NothingYet
  <2>5. CASE \A i \in events : rows[i].kind # "started"
    <3>1. total = done
      BY <1>1, <1>6, <2>5, NoneObserved DEF events
    <3>2. least = f
      BY <1>3, <1>4, <2>2, <2>5
    <3>3. total.tool = rows[least].tool /\ "finished" \in total.kinds /\ ~total.refused
      BY <2>1, <2>4, <3>1, <3>2
    <3> QED
      BY <1>5, <1>8, <3>3 DEF total, one, rows
  <2>6. CASE ~\A i \in events : rows[i].kind # "started"
    <3>1. PICK s \in events : rows[s].kind = "started"
      BY <2>6
    <3>2. s \in 1..Len(rows) /\ \A i \in events : rows[i].kind = "started" => i = s
      BY <1>3, <3>1
    <3>3. total = Observed(rows[s], s, done)
      BY <1>1, <1>6, <3>1, <3>2, OneObserved DEF events
    <3>4. done.first # 0 /\ done.owner = rows[s].owner /\ done.kinds = {"finished"} /\ done.refused = FALSE
          /\ done.first = f /\ done.tool = rows[f].tool
      BY <1>3, <2>1, <2>2, <2>4, <3>1
    <3>5. /\ total.tool = IF s < f THEN rows[s].tool ELSE rows[f].tool
          /\ total.kinds = {"finished"} \cup {rows[s].kind}
          /\ total.refused = (done.refused \/ rows[s].owner # done.owner \/ rows[s].kind \in done.kinds)
      BY <3>3, <3>4 DEF Observed
    <3>6. ~total.refused
      BY <3>1, <3>4, <3>5
    <3>7. least = IF s < f THEN s ELSE f
      <4>1. least = s \/ least = f
        BY <1>3, <1>4, <2>2, <3>2
      <4>2. least <= s /\ least <= f
        BY <1>4
      <4> QED
        BY <2>2, <3>2, <4>1, <4>2
    <3>8. total.tool = rows[least].tool /\ "finished" \in total.kinds
      BY <3>5, <3>7
    <3> QED
      BY <1>5, <1>8, <3>6, <3>8 DEF total, one, rows
  <2> QED
    BY <2>5, <2>6
<1> QED
  BY <1>7, <1>8

\* One namespace, nothing stored twice, what was told is stored, a line of a log as
\* often as it shows it, totals that are never refused and agree with the list of
\* requests, an archive that was reported passes unless a power loss took the whole of a
\* directory whose own name nobody synced, and a report read page by page shows each row
\* once: for every value of the constants.
THEOREM ObservationsStaySound == StoreSpec => []ObservationsAreSound
<1>1. ASSUME StoreInv PROVE ObservationsAreSound
  <2>1. OneNamespace
    <3>1. \A c \in Client : client[c].space \in {NoSpace, db.space}
      BY <1>1 DEF StoreInv, SpacesAgree, Agrees
    <3> QED
      BY <1>1, <3>1 DEF OneNamespace, StoreInv, SpacesAgree
  <2>2. NothingTwice
    <3> SUFFICES ASSUME NEW i \in DOMAIN db.rows, NEW j \in DOMAIN db.rows, i # j
                 PROVE  /\ db.rows[i].id[2] # db.rows[j].id[2]
                        /\ Key(db.rows[i]) # Key(db.rows[j]) \/ Key(db.rows[i]) = <<>>
      BY DEF NothingTwice
    <3>1. /\ db.rows[i].id # db.rows[j].id
          /\ Key(db.rows[i]) # Key(db.rows[j]) \/ Key(db.rows[i]) = <<>>
      BY <1>1 DEF StoreInv, RowsFit, Once
    <3>2. db.rows[i] \in Opaque /\ db.rows[j] \in Opaque
      BY <1>1 DEF StoreInv, StoreShape, Databases
    <3>3. db.rows[i].id[1] = db.space /\ db.rows[j].id[1] = db.space
      BY <1>1 DEF StoreInv, SpacesAgree, Rows
    <3>4. /\ db.rows[i].id = <<db.rows[i].id[1], db.rows[i].id[2]>>
          /\ db.rows[j].id = <<db.rows[j].id[1], db.rows[j].id[2]>>
      BY <3>2, OpaqueIs
    <3>5. db.rows[i].id[2] # db.rows[j].id[2]
      BY <3>1, <3>3, <3>4
    <3> QED
      BY <3>1, <3>5
  <2>3. ToldIsStored
    BY <1>1 DEF StoreInv, RowsFit
  <2>4. CountedOnce
    BY <1>1, LinesAreCounted
  <2>5. TotalsAgree
    BY <1>1, TotalsFit
  <2>6. ReportedArchivePasses
    BY <1>1 DEF StoreInv, ArchiveFits, ReportedArchivePasses, ArchivePasses
  <2>7. PagedOnce
    BY <1>1 DEF StoreInv, PagesFit, Follows, PagedOnce, Placed
  <2> QED
    BY <2>1, <2>2, <2>3, <2>4, <2>5, <2>6, <2>7 DEF ObservationsAreSound
<1> QED
  BY <1>1, StoreInvariant, PTL

=============================================================================
