--------------------------- MODULE DecodingProofs ---------------------------
(***************************************************************************)
(* Theorems about Decoding, for any vocabulary, calls and decoder.         *)
(***************************************************************************)
EXTENDS Decoding, BatchingProofs

-----------------------------------------------------------------------------
(* Rows of a batch. *)

\* The rows of an entry are rows of the batch, and of no other entry.
LEMMA FlatRange ==
  ASSUME NEW N \in Nat, NEW size \in Nat, NEW n \in 1..N, NEW k \in 1..size
  PROVE  Flat(n, k, size) \in 1..(N * size)
<1>1. (n - 1) * size \in Nat /\ n * size <= N * size /\ N * size \in Nat
  <2>1. n \in Nat /\ n <= N /\ n - 1 \in Nat
    OBVIOUS
  <2> QED BY <2>1, TimesLeq
<1>2. n * size = (n - 1) * size + size
  OBVIOUS
<1>3. Flat(n, k, size) = (n - 1) * size + k
  BY DEF Flat
<1> QED BY <1>1, <1>2, <1>3

LEMMA FlatBack ==
  ASSUME NEW size \in Nat, NEW n \in Nat \ {0}, NEW k \in 1..size
  PROVE  EntryOf(Flat(n, k, size), size) = n /\ RowOf(Flat(n, k, size), size) = k
<1> DEFINE p == (n - 1) * size + (k - 1)
           q == p \div size
           r == p % size
<1>1. (n - 1) * size \in Nat /\ p \in Nat /\ size > 0
  OBVIOUS
<1>2. p = size * q + r /\ r \in 0..(size - 1) /\ q \in Nat
  BY <1>1
<1> DEFINE m == n - 1
<1>3. m \in Nat /\ p = m * size + (k - 1) /\ k - 1 \in 0..(size - 1)
  OBVIOUS
<1>4. Flat(n, k, size) - 1 = p
  BY <1>1 DEF Flat
<1> HIDE DEF p, q, r, m
<1>5. q = m
  <2>1. CASE q < m
    <3>1. q + 1 <= m /\ q + 1 \in Nat
      BY <1>2, <1>3, <2>1
    <3>2. (q + 1) * size <= m * size /\ m * size \in Nat
      BY <1>3, <3>1, TimesLeq
    <3>3. (q + 1) * size = size * q + size
      BY <1>2
    <3>4. size * q \in Nat
      BY <1>2
    <3> QED BY <1>2, <1>3, <3>2, <3>3, <3>4
  <2>2. CASE m < q
    <3>1. m + 1 <= q /\ m + 1 \in Nat
      BY <1>2, <1>3, <2>2
    <3>2. (m + 1) * size <= q * size /\ q * size \in Nat
      BY <1>2, <3>1, TimesLeq
    <3>3. (m + 1) * size = m * size + size /\ q * size = size * q
      BY <1>2, <1>3
    <3>4. m * size \in Nat
      BY <1>3
    <3> QED BY <1>2, <1>3, <3>2, <3>3, <3>4
  <2> QED BY <1>2, <1>3, <2>1, <2>2
<1>6. r = k - 1
  <2>1. size * q = m * size /\ m * size \in Nat
    BY <1>3, <1>5
  <2> QED BY <1>2, <1>3, <2>1
<1>7. EntryOf(Flat(n, k, size), size) = q + 1 /\ RowOf(Flat(n, k, size), size) = r + 1
  BY <1>4 DEF EntryOf, RowOf, q, r
<1> QED BY <1>5, <1>6, <1>7 DEF m

\* Every row of a batch is one of an entry.
LEMMA FlatCover ==
  ASSUME NEW N \in Nat, NEW size \in Nat, NEW index \in 1..(N * size)
  PROVE  /\ EntryOf(index, size) \in 1..N /\ RowOf(index, size) \in 1..size
         /\ Flat(EntryOf(index, size), RowOf(index, size), size) = index
<1> DEFINE p == index - 1
           q == p \div size
           r == p % size
<1>1. N * size \in Nat /\ size > 0 /\ p \in Nat /\ p < N * size
  <2>1. CASE size = 0
    <3>1. N * size = 0
      BY <2>1
    <3> QED BY <3>1
  <2>2. CASE size # 0
    <3>1. N * size \in Nat
      OBVIOUS
    <3> QED BY <2>2, <3>1
  <2> QED BY <2>1, <2>2
<1>2. p = size * q + r /\ r \in 0..(size - 1) /\ q \in Nat
  BY <1>1
<1>3. EntryOf(index, size) = q + 1 /\ RowOf(index, size) = r + 1
  BY DEF EntryOf, RowOf
<1>4. Flat(q + 1, r + 1, size) = ((q + 1) - 1) * size + (r + 1)
  BY DEF Flat
<1>5. index = p + 1
  BY <1>1
<1> HIDE DEF p, q, r
<1>6. q < N
  <2>1. SUFFICES ASSUME N <= q PROVE FALSE
    BY <1>2
  <2>2. N * size <= q * size /\ q * size \in Nat
    BY <1>2, <2>1, TimesLeq
  <2>3. q * size = size * q
    BY <1>2
  <2> QED BY <1>1, <1>2, <2>2, <2>3
<1>7. Flat(q + 1, r + 1, size) = index
  <2>1. ((q + 1) - 1) * size = size * q /\ size * q \in Nat
    BY <1>2
  <2> QED BY <1>2, <1>4, <1>5, <2>1
<1> QED BY <1>2, <1>3, <1>6, <1>7

\* All the rows have row k of entry n at their flat index.
RowByRow(rows, parts, size) ==
  /\ Len(rows) = Len(parts) * size
  /\ \A n \in 1..Len(parts), k \in 1..size : rows[Flat(n, k, size)] = parts[n][k]

\* The concatenation of the rows of the entries.
LEMMA FlattenRows ==
  ASSUME NEW S, NEW size \in Nat, NEW parts \in Seq(Seq(S)),
         \A n \in 1..Len(parts) : Len(parts[n]) = size
  PROVE  FlattenSeq(parts) \in Seq(S) /\ RowByRow(FlattenSeq(parts), parts, size)
<1> DEFINE Rows(i, s) == /\ s \in Seq(S) /\ Len(s) = i * size
                         /\ \A n \in 1..i, k \in 1..size : s[Flat(n, k, size)] = parts[n][k]
<1>1. CASE parts = <<>>
  <2>1. FlattenSeq(parts) = <<>>
    BY <1>1 DEF FlattenSeq
  <2>2. Len(parts) = 0 /\ 0 * size = 0
    BY <1>1
  <2> QED BY <2>1, <2>2 DEF RowByRow
<1>2. CASE parts # <<>>
  <2>1. Len(parts) \in Nat \ {0}
    BY <1>2
  <2>2. PICK f : Flattens(parts, f) /\ FlattenSeq(parts) = f[Len(parts)]
    BY <2>1, FlattenLast
  <2>3. \A i \in 1..Len(parts) : f[i] = IF i = 1 THEN parts[i] ELSE f[i - 1] \o parts[i]
    BY <2>2 DEF Flattens
  <2> DEFINE Bad == {i \in 1..Len(parts) : ~Rows(i, f[i])}
  <2>4. Bad = {}
    <3>1. SUFFICES ASSUME Bad # {} PROVE FALSE
      OBVIOUS
    <3>2. Bad \in SUBSET Nat
      OBVIOUS
    <3>3. PICK i \in Bad : \A j \in Bad : i <= j
      <4> HIDE DEF Bad
      <4> QED BY <3>1, <3>2, LeastNatural
    <3>4. i \in 1..Len(parts) /\ ~Rows(i, f[i])
      BY <3>3
    <3>5. i # 1 => i - 1 \in 1..Len(parts) /\ Rows(i - 1, f[i - 1])
      <4>1. SUFFICES ASSUME i # 1 PROVE i - 1 \in 1..Len(parts) /\ Rows(i - 1, f[i - 1])
        OBVIOUS
      <4>2. i - 1 \in 1..Len(parts) /\ ~(i <= i - 1)
        BY <3>4, <4>1
      <4>3. i - 1 \notin Bad
        <5> HIDE DEF Bad
        <5> QED BY <3>3, <4>2
      <4> QED BY <4>2, <4>3
    <3>6. parts[i] \in Seq(S) /\ Len(parts[i]) = size
      BY <3>4
    <3>7. CASE i = 1
      <4>1. f[i] = parts[1]
        BY <2>3, <3>4, <3>7
      <4>2. 1 * size = size
        OBVIOUS
      <4>3. \A k \in 1..size : Flat(1, k, size) = k
        <5>1. (1 - 1) * size = 0
          OBVIOUS
        <5> QED BY <5>1 DEF Flat
      <4>4. \A n \in 1..1 : n = 1
        OBVIOUS
      <4>5. Rows(1, parts[1])
        BY <3>6, <3>7, <4>2, <4>3, <4>4
      <4> QED BY <3>4, <3>7, <4>1, <4>5
    <3>8. CASE i # 1
      <4> DEFINE s == f[i - 1]
                 m == i - 1
      <4>1. f[i] = s \o parts[i] /\ i = m + 1 /\ m \in Nat /\ m >= 1
        <5>1. i \in 1..Len(parts) /\ i # 1
          BY <3>4, <3>8
        <5>2. f[i] = f[i - 1] \o parts[i]
          BY <2>3, <5>1
        <5>3. i = m + 1 /\ m \in Nat /\ m >= 1
          BY <5>1
        <5> QED BY <5>2, <5>3
      <4>2. /\ s \in Seq(S) /\ Len(s) = m * size
            /\ \A n \in 1..m, k \in 1..size : s[Flat(n, k, size)] = parts[n][k]
        BY <3>5, <3>8
      <4> HIDE DEF s, m
      <4>3. m * size \in Nat /\ i * size = m * size + size
        BY <4>1
      <4>4. /\ f[i] \in Seq(S) /\ Len(f[i]) = Len(s) + size
            /\ \A r \in 1..Len(s) : f[i][r] = s[r]
            /\ \A k \in 1..size : f[i][Len(s) + k] = parts[i][k]
        <5>1. PICK t \in Seq(S) : t = parts[i] /\ Len(t) = size
          BY <3>6
        <5>2. /\ s \o t \in Seq(S) /\ Len(s \o t) = Len(s) + Len(t)
              /\ \A r \in 1..Len(s) : (s \o t)[r] = s[r]
              /\ \A k \in 1..Len(t) : (s \o t)[Len(s) + k] = t[k]
          <6>1. s \in Seq(S) /\ t \in Seq(S)
            BY <4>2
          <6> QED BY ONLY <6>1, JoinElements
        <5>3. f[i] = s \o t
          BY <4>1, <5>1
        <5> HIDE DEF Bad
        <5> QED BY ONLY <5>1, <5>2, <5>3
      <4>5. ASSUME NEW n \in 1..i, NEW k \in 1..size
            PROVE  f[i][Flat(n, k, size)] = parts[n][k]
        <5>1. CASE n = i
          <6>1. Flat(n, k, size) = Len(s) + k
            <7>1. (n - 1) * size = m * size
              BY <4>1, <5>1
            <7> QED BY <4>2, <7>1 DEF Flat
          <6> QED BY <4>4, <5>1, <6>1
        <5>2. CASE n # i
          <6>1. n \in 1..m
            BY <4>1, <5>2
          <6>2. Flat(n, k, size) \in 1..(m * size)
            BY <4>1, <6>1, FlatRange
          <6> QED BY <4>2, <4>4, <6>1, <6>2
        <5> QED BY <5>1, <5>2
      <4>6. Rows(i, f[i])
        BY <4>2, <4>3, <4>4, <4>5
      <4> QED BY <3>4, <4>6
    <3> QED BY <3>7, <3>8
  <2>5. Rows(Len(parts), f[Len(parts)])
    <3>1. Len(parts) \in 1..Len(parts) /\ Len(parts) \notin Bad
      BY <2>1, <2>4
    <3> QED BY <3>1
  <2> QED BY <2>2, <2>5 DEF RowByRow
<1> QED BY <1>1, <1>2

-----------------------------------------------------------------------------
(* Sorting by rank. *)

\* The rank of x in a set ordered by the pairs of less.
Rank(S, less, x) == Cardinality({y \in S : <<y, x>> \in less}) + 1

\* A strict total order on a set.
Orders(S, less) ==
  /\ \A x \in S : <<x, x>> \notin less
  /\ \A x, y, z \in S : <<x, y>> \in less /\ <<y, z>> \in less => <<x, z>> \in less
  /\ \A x, y \in S : x # y => <<x, y>> \in less \/ <<y, x>> \in less

\* One element has each rank.
LEMMA Ranked ==
  ASSUME NEW S, IsFiniteSet(S), NEW less, Orders(S, less)
  PROVE  /\ Cardinality(S) \in Nat
         /\ \A x \in S : Rank(S, less, x) \in 1..Cardinality(S)
         /\ \A x, y \in S : Rank(S, less, x) = Rank(S, less, y) => x = y
         /\ \A k \in 1..Cardinality(S) : \E x \in S : Rank(S, less, x) = k
<1> DEFINE below(x) == {y \in S : <<y, x>> \in less}
           N == Cardinality(S)
<1>1. N \in Nat
  BY FS_CardinalityType
<1>2. ASSUME NEW x \in S
      PROVE  IsFiniteSet(below(x)) /\ Cardinality(below(x)) \in Nat /\ Cardinality(below(x)) < N
  <2>1. below(x) \in SUBSET S /\ x \notin below(x)
    BY DEF Orders
  <2> HIDE DEF below
  <2>2. IsFiniteSet(below(x)) /\ Cardinality(below(x)) <= N /\ Cardinality(below(x)) # N
    BY <2>1, FS_Subset
  <2>3. Cardinality(below(x)) \in Nat
    BY <2>2, FS_CardinalityType
  <2> HIDE DEF N
  <2> QED BY <1>1, <2>2, <2>3
<1>3. ASSUME NEW x \in S, NEW y \in S, <<x, y>> \in less
      PROVE  Cardinality(below(x)) < Cardinality(below(y))
  <2>1. below(x) \in SUBSET below(y) /\ x \in below(y) /\ x \notin below(x)
    BY <1>3 DEF Orders
  <2>2. IsFiniteSet(below(y)) /\ Cardinality(below(x)) \in Nat /\ Cardinality(below(y)) \in Nat
    BY <1>2
  <2> HIDE DEF below
  <2>3. Cardinality(below(x)) <= Cardinality(below(y)) /\ Cardinality(below(x)) # Cardinality(below(y))
    BY <2>1, <2>2, FS_Subset
  <2> QED BY <2>2, <2>3
<1> DEFINE f == [x \in S |-> Cardinality(below(x)) + 1]
<1>4. \A x \in S : f[x] = Rank(S, less, x)
  BY DEF Rank
<1>5. f \in [S -> 1..N]
  <2> HIDE DEF below, N
  <2> QED BY <1>1, <1>2
<1>6. \A x, y \in S : f[x] = f[y] => x = y
  <2> SUFFICES ASSUME NEW x \in S, NEW y \in S, x # y
               PROVE  f[x] # f[y]
    OBVIOUS
  <2>1. <<x, y>> \in less \/ <<y, x>> \in less
    BY DEF Orders
  <2> HIDE DEF below
  <2> QED BY <1>2, <1>3, <2>1
<1> HIDE DEF f
<1>7. f \in Injection(S, 1..N)
  BY <1>5, <1>6 DEF Injection, IsInjective
<1>8. IsFiniteSet(1..N) /\ Cardinality(1..N) = N
  BY <1>1, FS_Interval
<1>9. f \in Surjection(S, 1..N)
  BY <1>7, <1>8, FS_Injection
<1>10. \A k \in 1..N : \E x \in S : f[x] = k
  BY <1>9 DEF Surjection
<1> QED BY <1>1, <1>4, <1>5, <1>6, <1>10

\* InOrder lists each position once.
LEMMA InOrderIs ==
  ASSUME NEW P \in SUBSET Nat, IsFiniteSet(P)
  PROVE  /\ InOrder(P) \in Seq(P) /\ DOMAIN InOrder(P) = 1..Len(InOrder(P))
         /\ Len(InOrder(P)) = Cardinality(P) /\ Cardinality(P) \in Nat
         /\ \A i, j \in 1..Len(InOrder(P)) : InOrder(P)[i] = InOrder(P)[j] => i = j
         /\ \A p \in P : \E i \in 1..Len(InOrder(P)) : InOrder(P)[i] = p
<1> DEFINE lower == {x \in P \X P : x[1] < x[2]}
           N == Cardinality(P)
           s == InOrder(P)
<1>1. \A p, q \in P : <<q, p>> \in lower <=> q < p
  OBVIOUS
<1>2. Orders(P, lower)
  <2> HIDE DEF lower
  <2> QED BY <1>1 DEF Orders
<1>3. \A p \in P : Rank(P, lower, p) = Cardinality({q \in P : q < p}) + 1
  <2> SUFFICES ASSUME NEW p \in P PROVE Rank(P, lower, p) = Cardinality({q \in P : q < p}) + 1
    OBVIOUS
  <2>1. {q \in P : <<q, p>> \in lower} = {q \in P : q < p}
    <3> HIDE DEF lower
    <3> QED BY <1>1
  <2> HIDE DEF lower
  <2> QED BY <2>1 DEF Rank
<1> HIDE DEF lower
<1>4. /\ N \in Nat
      /\ \A x \in P : Rank(P, lower, x) \in 1..N
      /\ \A x, y \in P : Rank(P, lower, x) = Rank(P, lower, y) => x = y
      /\ \A k \in 1..N : \E x \in P : Rank(P, lower, x) = k
  <2>1. N \in Nat
    BY <1>2, Ranked
  <2>2. \A x \in P : Rank(P, lower, x) \in 1..N
    BY <1>2, Ranked
  <2>3. \A x, y \in P : Rank(P, lower, x) = Rank(P, lower, y) => x = y
    BY <1>2, Ranked
  <2>4. \A k \in 1..N : \E x \in P : Rank(P, lower, x) = k
    <3>1. PICK T : T = P
      OBVIOUS
    <3>2. IsFiniteSet(T) /\ Orders(T, lower)
      BY <1>2, <3>1
    <3>3. \A k \in 1..Cardinality(T) : \E x \in T : Rank(T, lower, x) = k
      BY ONLY <3>2, Ranked
    <3> QED BY <3>1, <3>3
  <2> QED BY <2>1, <2>2, <2>3, <2>4
<1> HIDE DEF N
<1>5. s = [m \in 1..N |-> CHOOSE p \in P : Cardinality({q \in P : q < p}) + 1 = m]
  BY DEF InOrder, N
<1> HIDE DEF s
<1>6. ASSUME NEW m \in 1..N
      PROVE  s[m] \in P /\ Rank(P, lower, s[m]) = m
  <2>1. \E p \in P : Cardinality({q \in P : q < p}) + 1 = m
    BY <1>3, <1>4
  <2>2. s[m] \in P /\ Cardinality({q \in P : q < s[m]}) + 1 = m
    BY <1>5, <2>1
  <2> QED BY <1>3, <2>2
<1>7. s \in Seq(P) /\ Len(s) = N /\ DOMAIN s = 1..N
  <2> DEFINE choice(m) == CHOOSE p \in P : Cardinality({q \in P : q < p}) + 1 = m
  <2>1. s = [m \in 1..N |-> choice(m)]
    BY <1>5
  <2> HIDE DEF choice
  <2>2. \A m \in 1..N : choice(m) \in P
    BY <1>6, <2>1
  <2> QED BY <1>4, <2>1, <2>2
<1>8. \A i, j \in 1..N : s[i] = s[j] => i = j
  BY <1>6
<1>9. \A p \in P : \E i \in 1..N : s[i] = p
  <2> SUFFICES ASSUME NEW p \in P PROVE \E i \in 1..N : s[i] = p
    OBVIOUS
  <2>1. Rank(P, lower, p) \in 1..N
    BY <1>4
  <2>2. Rank(P, lower, s[Rank(P, lower, p)]) = Rank(P, lower, p) /\ s[Rank(P, lower, p)] \in P
    BY <1>6, <2>1
  <2> QED BY <1>4, <2>1, <2>2
<1> QED BY <1>4, <1>7, <1>8, <1>9 DEF s, N

\* The order of the candidates of an entry: the least cost first, and then the
\* position in the row of all the scores of the entry.
Before(c, d) ==
  \/ c.cost < d.cost
  \/ /\ c.cost = d.cost
     /\ IF call.ascending
        THEN c.origin * VocabularySize + c.word < d.origin * VocabularySize + d.word
        ELSE c.origin * VocabularySize + c.word > d.origin * VocabularySize + d.word
Better(S) == {x \in S \X S : Before(x[1], x[2])}

Candidate == [origin : Nat, word : Words, cost : Nat]

\* A row gives a word one cost.
OnePerWord(S) == \A c, d \in S : c.origin = d.origin /\ c.word = d.word => c = d

LEMMA BetterOrders ==
  ASSUME NEW S \in SUBSET Candidate, OnePerWord(S)
  PROVE  Orders(S, Better(S)) /\ \A c, d \in S : <<c, d>> \in Better(S) <=> Before(c, d)
<1> DEFINE id(c) == c.origin * VocabularySize + c.word
<1>1. \A c, d \in S : <<c, d>> \in Better(S) <=> Before(c, d)
  BY DEF Better
<1>2. \A c \in S : c.cost \in Nat /\ id(c) \in Nat /\ c.origin \in Nat /\ c.word \in Nat
  <2>1. VocabularySize \in Nat
    BY SearchAssumption
  <2> SUFFICES ASSUME NEW c \in S PROVE c.cost \in Nat /\ id(c) \in Nat /\ c.origin \in Nat /\ c.word \in Nat
    OBVIOUS
  <2>2. c.cost \in Nat /\ c.origin \in Nat /\ c.word \in Nat
    BY <2>1 DEF Candidate, Words
  <2>3. c.origin * VocabularySize \in Nat
    BY <2>1, <2>2
  <2> QED BY <2>2, <2>3
<1>3. \A c, d \in S : id(c) = id(d) => c = d
  <2> SUFFICES ASSUME NEW c \in S, NEW d \in S, id(c) = id(d) PROVE c = d
    OBVIOUS
  <2> DEFINE m == c.origin
             n == d.origin
             j == c.word
             k == d.word
  <2>1. /\ m \in Nat /\ n \in Nat /\ j \in 0..(VocabularySize - 1) /\ k \in 0..(VocabularySize - 1)
        /\ VocabularySize \in Nat
    BY SearchAssumption DEF Candidate, Words
  <2>2. m * VocabularySize + j = n * VocabularySize + k
    OBVIOUS
  <2> HIDE DEF m, n, j, k
  <2>3. m + 1 \in Nat \ {0} /\ n + 1 \in Nat \ {0} /\ j + 1 \in 1..VocabularySize /\ k + 1 \in 1..VocabularySize
    BY <2>1
  <2>4. Flat(m + 1, j + 1, VocabularySize) = Flat(n + 1, k + 1, VocabularySize)
    <3>1. (m + 1) - 1 = m /\ (n + 1) - 1 = n
      BY <2>1
    <3>2. m * VocabularySize \in Nat /\ n * VocabularySize \in Nat
      BY <2>1
    <3> QED BY <2>1, <2>2, <3>1, <3>2 DEF Flat
  <2>5. m + 1 = n + 1 /\ j + 1 = k + 1
    BY <2>1, <2>3, <2>4, FlatBack
  <2>6. m = n /\ j = k
    BY <2>1, <2>5
  <2> QED BY <2>6 DEF OnePerWord, m, n, j, k
<1>4. \A c, d \in S : Before(c, d) <=>
        \/ c.cost < d.cost
        \/ c.cost = d.cost /\ IF call.ascending THEN id(c) < id(d) ELSE id(c) > id(d)
  BY DEF Before
<1> HIDE DEF id
<1>5. \A c \in S : ~Before(c, c)
  BY <1>2, <1>4
<1>6. \A x, y, z \in S : Before(x, y) /\ Before(y, z) => Before(x, z)
  BY <1>2, <1>4
<1>7. \A x, y \in S : x # y => Before(x, y) \/ Before(y, x)
  BY <1>2, <1>3, <1>4
<1> QED BY <1>1, <1>5, <1>6, <1>7 DEF Orders

\* TopK gives the candidates by rank.
LEMMA TopKIs ==
  ASSUME NEW S \in SUBSET Candidate, OnePerWord(S), IsFiniteSet(S),
         NEW count \in Nat, count <= Cardinality(S)
  PROVE  /\ TopK(S, count) \in Seq(S) /\ Len(TopK(S, count)) = count
         /\ \A k \in 1..count : /\ TopK(S, count)[k] \in S
                                /\ Rank(S, Better(S), TopK(S, count)[k]) = k
<1> DEFINE rank(c) == Cardinality({d \in S : Before(d, c)}) + 1
           t == [k \in 1..count |-> CHOOSE c \in S : rank(c) = k]
<1>1. Orders(S, Better(S)) /\ \A c, d \in S : <<c, d>> \in Better(S) <=> Before(c, d)
  BY BetterOrders
<1>2. \A c \in S : Rank(S, Better(S), c) = rank(c)
  <2> SUFFICES ASSUME NEW c \in S PROVE Rank(S, Better(S), c) = rank(c)
    OBVIOUS
  <2>1. {d \in S : <<d, c>> \in Better(S)} = {d \in S : Before(d, c)}
    BY <1>1
  <2> QED BY <2>1 DEF Rank
<1>3. TopK(S, count) = SubSeq(t, 1, count)
  BY DEF TopK, Before
<1> HIDE DEF rank
<1>4. \A k \in 1..count : \E c \in S : rank(c) = k
  <2>1. /\ Cardinality(S) \in Nat
        /\ \A k \in 1..Cardinality(S) : \E x \in S : Rank(S, Better(S), x) = k
    BY <1>1, Ranked
  <2> QED BY <1>2, <2>1
<1>5. \A k \in 1..count : t[k] \in S /\ rank(t[k]) = k
  BY <1>4
<1>6. t = [k \in 1..count |-> t[k]]
  OBVIOUS
<1> HIDE DEF t
<1>7. t \in Seq(S) /\ Len(t) = count
  BY <1>5, <1>6
<1>8. SubSeq(t, 1, count) = t
  BY <1>6, <1>7
<1> QED BY <1>2, <1>3, <1>5, <1>7, <1>8

-----------------------------------------------------------------------------
(* The calls, and the state of a search. *)

\* The decoder returns a number for each word.
NaturalCosts ==
  \A memory \in Nat, read \in Seq(Words), word \in Words : Cost(memory, read, word) \in Nat

CallOK == call \in Calls /\ Valid(call)

LEMMA CallIs ==
  ASSUME CallOK
  PROVE  /\ Len(call.prompts) \in Nat \ {0} /\ Entries = 1..Len(call.prompts)
         /\ \A e \in Entries : /\ call.prompts[e] \in Seq(Words) /\ call.prompts[e] # <<>>
                               /\ call.memories[e] \in Nat
         /\ call.beamSize \in Nat \ {0} /\ call.maxCandidates \in Nat /\ call.numHypotheses \in Nat
         /\ call.maxLength \in Nat /\ call.minLength \in Nat
         /\ call.repetition \in Nat /\ call.noRepeatNgram \in Nat
         /\ call.endIds \subseteq Words /\ call.suppressed \subseteq Words
         /\ call.suppressedBegin \subseteq Words
         /\ call.bannedSequences \subseteq Seq(Words) \ {<<>>}
         /\ call.includePrompt \in BOOLEAN /\ call.cpu \in BOOLEAN
<1>1. /\ call.prompts \in Seq(Seq(Words) \ {<<>>}) /\ call.prompts # <<>>
      /\ DOMAIN call.memories = DOMAIN call.prompts
      /\ {call.memories[e] : e \in DOMAIN call.memories} \subseteq Nat
      /\ {call.beamSize, call.maxCandidates, call.numHypotheses, call.maxLength, call.minLength,
          call.repetition, call.noRepeatNgram} \subseteq Nat
      /\ call.endIds \cup call.suppressed \cup call.suppressedBegin \subseteq Words
      /\ {call.includePrompt, call.normalize, call.includeEos, call.cpu, call.ascending} \subseteq BOOLEAN
      /\ call.bannedSequences \subseteq Seq(Words) \ {<<>>}
  BY SearchAssumption DEF CallOK
<1>2. call.beamSize # 0
  BY <1>1 DEF CallOK, Valid
<1>3. Len(call.prompts) \in Nat \ {0} /\ Entries = 1..Len(call.prompts)
  BY <1>1 DEF Entries
<1>4. \A e \in Entries : call.prompts[e] \in Seq(Words) \ {<<>>} /\ call.memories[e] \in Nat
  BY SMTT(20), <1>1, <1>3 DEF Entries
<1> QED BY <1>1, <1>2, <1>3, <1>4

\* What is added to a penalty stays one.
LEMMA PlusIs ==
  ASSUME NEW a \in Nat, NEW b \in Nat
  PROVE  /\ Plus(a, b) \in Nat
         /\ Plus(a, b) < Penalised => a < Penalised /\ b < Penalised /\ Plus(a, b) = a + b
<1>1. /\ Min({a, b}) = IF a <= b THEN a ELSE b
      /\ Max({a, b}) = IF a <= b THEN b ELSE a
  BY MinOfTwo
<1>2. Plus(a, b) = IF Min({a, b}) >= 2000 THEN 3000
                   ELSE IF Max({a, b}) >= 1000 THEN Max({a, b}) ELSE a + b
  BY DEF Plus, Disabled, Infinite, Penalised
<1> QED BY <1>1, <1>2 DEF Penalised

\* Every prompt has the word the search starts with, and the rest is its prefix.
LEMMA PromptIs ==
  ASSUME CallOK, NEW e \in Entries
  PROVE  /\ ForwardLength \in Nat /\ ForwardLength + 1 \in 1..Len(call.prompts[e])
         /\ Len(call.prompts[e]) \in Nat
         /\ StartWord(e) \in Words /\ Prefix(e) \in Seq(Words)
         /\ Len(Prefix(e)) = Len(call.prompts[e]) - (ForwardLength + 1)
         /\ \A i \in 1..Len(Prefix(e)) : Prefix(e)[i] = call.prompts[e][ForwardLength + 1 + i]
<1> DEFINE lengths == {Len(call.prompts[f]) : f \in Entries}
<1>1. \A f \in Entries : call.prompts[f] \in Seq(Words) /\ Len(call.prompts[f]) \in Nat \ {0}
  BY CallIs
<1>2. lengths \in SUBSET Nat /\ Len(call.prompts[e]) \in lengths /\ \A n \in lengths : n >= 1
  BY <1>1
<1>3. Min(lengths) \in lengths /\ \A n \in lengths : Min(lengths) <= n
  <2> HIDE DEF lengths
  <2>1. \E x \in lengths : \A y \in lengths : x <= y
    BY <1>2, LeastNatural
  <2> QED BY <2>1 DEF Min
<1>4. ForwardLength = IF call.includePrompt THEN 0 ELSE Min(lengths) - 1
  BY DEF ForwardLength
<1> HIDE DEF lengths
<1>5. ForwardLength \in Nat /\ ForwardLength + 1 \in 1..Len(call.prompts[e])
  <2>1. PICK m : m = Min(lengths)
    OBVIOUS
  <2>2. PICK total : total = Len(call.prompts[e])
    OBVIOUS
  <2>3. m \in Nat /\ total \in Nat /\ 1 <= m /\ m <= total
    BY <1>2, <1>3, <2>1, <2>2
  <2>4. ForwardLength = 0 \/ ForwardLength = m - 1
    BY <1>4, <2>1
  <2> QED BY <2>2, <2>3, <2>4
<1>6. StartWord(e) \in Words
  BY <1>1, <1>5 DEF StartWord
<1>7. PICK p \in Seq(Words) : p = call.prompts[e]
  BY <1>1
<1>8. PICK f \in Nat : f = ForwardLength /\ f + 1 <= Len(p)
  BY <1>5, <1>7
<1>9. Prefix(e) = SubSeq(p, f + 2, Len(p))
  BY <1>7, <1>8 DEF Prefix
<1>10. /\ SubSeq(p, f + 2, Len(p)) \in Seq(Words)
       /\ Len(SubSeq(p, f + 2, Len(p))) = Len(p) - (f + 1)
       /\ \A i \in 1..(Len(p) - (f + 1)) : SubSeq(p, f + 2, Len(p))[i] = p[f + 1 + i]
  BY <1>8
<1> QED BY <1>5, <1>6, <1>7, <1>8, <1>9, <1>10

State(s) ==
  /\ s = [step |-> s.step, expanded |-> s.expanded, ids |-> s.ids, scores |-> s.scores,
          alive |-> s.alive, cache |-> s.cache, memory |-> s.memory, offset |-> s.offset,
          topDone |-> s.topDone, results |-> s.results]
  /\ s.step \in Nat /\ s.expanded \in BOOLEAN
  /\ s.ids \in Seq(Words) /\ s.scores \in Seq(Nat)
  /\ s.alive \in Seq(Seq(Words)) /\ s.cache \in Seq(Seq(Words))
  /\ s.memory \in Seq(Nat) /\ s.offset \in Seq(Entries) /\ s.topDone \in Seq(BOOLEAN)

Size(s) == Len(s.offset) * Width(s)

\* The parallel arrays have a row for each beam of each entry, or one for each entry.
Sized(s) ==
  /\ State(s)
  /\ Len(s.ids) = Size(s) /\ Len(s.scores) = Size(s)
  /\ Len(s.alive) = Size(s) /\ Len(s.cache) = Size(s)
  /\ Len(s.memory) = Len(s.offset) /\ Len(s.topDone) = Len(s.offset)
  /\ \A m, n \in 1..Len(s.offset) : s.offset[m] = s.offset[n] => m = n
  /\ s.expanded <=> ~IsGreedy /\ (s.step > 0 \/ ~ExpandAfterFirstStep)

\* Row r of entry e holds its own state.
RowOK(s, e, r) ==
  /\ Len(s.alive[r]) = s.step
  /\ Read(s, r) = History(e, s.alive[r])

Aligned(s) ==
  \A n \in 1..Len(s.offset) :
    /\ s.memory[n] = call.memories[s.offset[n]]
    /\ \A k \in 1..Width(s) : RowOK(s, s.offset[n], Flat(n, k, Width(s)))

\* The rows of an entry.
LEMMA RowsOf ==
  ASSUME CallOK, NEW s, Sized(s), NEW n \in 1..Len(s.offset), NEW k \in 1..Width(s)
  PROVE  /\ Width(s) \in Nat \ {0} /\ n \in Nat \ {0} /\ Len(s.offset) \in Nat
         /\ s.offset[n] \in Entries /\ s.step \in Nat /\ s.memory[n] \in Nat
         /\ Flat(n, k, Width(s)) \in 1..Size(s)
         /\ EntryOf(Flat(n, k, Width(s)), Width(s)) = n
         /\ s.ids[Flat(n, k, Width(s))] \in Words
         /\ s.scores[Flat(n, k, Width(s))] \in Nat
         /\ s.alive[Flat(n, k, Width(s))] \in Seq(Words)
         /\ s.cache[Flat(n, k, Width(s))] \in Seq(Words)
         /\ Read(s, Flat(n, k, Width(s))) \in Seq(Words)
<1>1. /\ s.step \in Nat /\ s.ids \in Seq(Words) /\ s.scores \in Seq(Nat) /\ s.alive \in Seq(Seq(Words))
      /\ s.cache \in Seq(Seq(Words)) /\ s.memory \in Seq(Nat) /\ s.offset \in Seq(Entries)
  BY DEF Sized, State
<1>2. Width(s) \in Nat \ {0}
  BY CallIs DEF Width
<1>3. n \in Nat \ {0} /\ Len(s.offset) \in Nat
  BY <1>1
<1>4. PICK r : r = Flat(n, k, Width(s))
  OBVIOUS
<1>5. r \in 1..Size(s)
  BY <1>2, <1>3, <1>4, FlatRange DEF Size
<1>6. EntryOf(r, Width(s)) = n
  BY <1>2, <1>3, <1>4, FlatBack
<1>7. /\ s.ids[r] \in Words /\ s.scores[r] \in Nat /\ s.alive[r] \in Seq(Words)
      /\ s.cache[r] \in Seq(Words)
  <2>1. /\ Len(s.ids) = Size(s) /\ Len(s.scores) = Size(s)
        /\ Len(s.alive) = Size(s) /\ Len(s.cache) = Size(s)
    BY DEF Sized
  <2>2. s.ids[r] \in Words
    BY <1>1, <1>5, <2>1
  <2>3. s.scores[r] \in Nat
    <3>1. s.scores \in Seq(Nat) /\ r \in 1..Len(s.scores)
      BY <1>1, <1>5, <2>1
    <3> QED BY ONLY <3>1
  <2>4. s.alive[r] \in Seq(Words)
    BY <1>1, <1>5, <2>1
  <2>5. s.cache[r] \in Seq(Words)
    BY <1>1, <1>5, <2>1
  <2> QED BY <2>2, <2>3, <2>4, <2>5
<1>8. s.offset[n] \in Entries /\ s.memory[n] \in Nat
  BY <1>1, <1>3 DEF Sized
<1>9. Read(s, r) \in Seq(Words)
  BY <1>7 DEF Read
<1> QED BY <1>1, <1>2, <1>3, <1>4, <1>5, <1>6, <1>7, <1>8, <1>9

LEMMA WordCostType ==
  ASSUME NaturalCosts, CallOK, NEW s, Sized(s), NEW n \in 1..Len(s.offset), NEW k \in 1..Width(s),
         NEW w \in Words
  PROVE  WordCost(s, Flat(n, k, Width(s)), w) \in Nat
<1>1. PICK r : r = Flat(n, k, Width(s))
  OBVIOUS
<1>2. EntryOf(r, Width(s)) = n /\ s.memory[n] \in Nat /\ Read(s, r) \in Seq(Words)
  BY <1>1, RowsOf
<1>3. Cost(s.memory[EntryOf(r, Width(s))], Read(s, r), w) \in Nat
  BY <1>2 DEF NaturalCosts
<1>4. call.repetition \in Nat
  BY CallIs
<1>5. WordCost(s, r, w) \in {Uniform, Disabled,
        Cost(s.memory[EntryOf(r, Width(s))], Read(s, r), w) + call.repetition,
        Cost(s.memory[EntryOf(r, Width(s))], Read(s, r), w) + 0}
  BY DEF WordCost
<1> QED BY <1>1, <1>3, <1>4, <1>5 DEF Uniform, Disabled

\* The candidates of entry n: each word in each of its rows.
Choice(s, r, w) == [origin |-> r, word |-> w, cost |-> Plus(s.scores[r], WordCost(s, r, w))]
RowChoices(s, n) == {Choice(s, r, w) : r \in ToSet(EntryRows(n, Width(s))), w \in Words}

\* There are as many as rows times words.
LEMMA RowChoicesAre ==
  ASSUME NaturalCosts, CallOK, NEW s, Sized(s), NEW n \in 1..Len(s.offset)
  PROVE  /\ RowChoices(s, n) \in SUBSET Candidate /\ OnePerWord(RowChoices(s, n))
         /\ IsFiniteSet(RowChoices(s, n))
         /\ Cardinality(RowChoices(s, n)) = Width(s) * VocabularySize
         /\ \A c : c \in RowChoices(s, n) <=>
              \E k \in 1..Width(s), w \in Words : c = Choice(s, Flat(n, k, Width(s)), w)
<1> DEFINE W == Width(s)
           V == VocabularySize
           S == RowChoices(s, n)
           pairs == (1..W) \X Words
           f == [p \in pairs |-> Choice(s, Flat(n, p[1], W), p[2])]
<1>1. W \in Nat \ {0} /\ V \in Nat /\ n \in Nat \ {0}
  <2>1. W \in Nat \ {0}
    BY CallIs DEF Width
  <2>2. s.offset \in Seq(Entries)
    BY DEF Sized, State
  <2> QED BY <2>1, <2>2, SearchAssumption
<1>2. \A c : c \in S <=> \E k \in 1..W, w \in Words : c = Choice(s, Flat(n, k, W), w)
  <2>1. ToSet(EntryRows(n, W)) = {Flat(n, k, W) : k \in 1..W}
    BY DEF ToSet, EntryRows
  <2> HIDE DEF W
  <2>2. S = {Choice(s, r, w) : r \in {Flat(n, k, W) : k \in 1..W}, w \in Words}
    BY <2>1 DEF RowChoices, W
  <2> HIDE DEF S
  <2> QED BY <2>2
<1>3. ASSUME NEW k \in 1..W, NEW w \in Words
      PROVE  Choice(s, Flat(n, k, W), w) \in Candidate
  <2>1. PICK r : r = Flat(n, k, W)
    OBVIOUS
  <2>2. r \in Nat
    <3>1. (n - 1) * W \in Nat /\ k \in Nat
      BY <1>1
    <3> QED BY <2>1, <3>1 DEF Flat
  <2>3. s.scores[r] \in Nat /\ WordCost(s, r, w) \in Nat
    BY <2>1, RowsOf, WordCostType
  <2>4. Plus(s.scores[r], WordCost(s, r, w)) \in Nat
    BY <2>3, PlusIs
  <2> QED BY <2>1, <2>2, <2>4 DEF Choice, Candidate
<1> HIDE DEF W, V, S
<1>4. S \in SUBSET Candidate
  BY <1>2, <1>3
<1>5. OnePerWord(S)
  <2> SUFFICES ASSUME NEW c \in S, NEW d \in S, c.origin = d.origin, c.word = d.word
               PROVE  c = d
    BY DEF OnePerWord
  <2>1. ASSUME NEW a \in S PROVE a = Choice(s, a.origin, a.word)
    <3>1. PICK k \in 1..W, w \in Words : a = Choice(s, Flat(n, k, W), w)
      BY <1>2
    <3>2. a.origin = Flat(n, k, W) /\ a.word = w
      BY <3>1 DEF Choice
    <3> QED BY <3>1, <3>2
  <2> QED BY <2>1
<1>6. f \in [pairs -> S]
  <2>1. \A p \in pairs : p[1] \in 1..W /\ p[2] \in Words
    OBVIOUS
  <2>2. \A p \in pairs : Choice(s, Flat(n, p[1], W), p[2]) \in S
    BY <1>2, <2>1
  <2> QED BY <2>2
<1>7. f \in Injection(pairs, S)
  <2> SUFFICES ASSUME NEW p \in pairs, NEW q \in pairs, f[p] = f[q]
               PROVE  p = q
    BY <1>6 DEF Injection, IsInjective
  <2>1. p[1] \in 1..W /\ p[2] \in Words /\ q[1] \in 1..W /\ q[2] \in Words
        /\ p = <<p[1], p[2]>> /\ q = <<q[1], q[2]>>
    OBVIOUS
  <2>2. Choice(s, Flat(n, p[1], W), p[2]) = Choice(s, Flat(n, q[1], W), q[2])
    OBVIOUS
  <2>3. Flat(n, p[1], W) = Flat(n, q[1], W) /\ p[2] = q[2]
    BY <2>2 DEF Choice
  <2>4. p[1] = q[1]
    BY <1>1, <2>1, <2>3, FlatBack
  <2> QED BY <2>1, <2>3, <2>4
<1>8. f \in Surjection(pairs, S)
  <2>1. ASSUME NEW c \in S PROVE \E p \in pairs : f[p] = c
    <3>1. PICK k \in 1..W, w \in Words : c = Choice(s, Flat(n, k, W), w)
      BY <1>2
    <3>2. <<k, w>> \in pairs
      OBVIOUS
    <3>3. f[<<k, w>>] = Choice(s, Flat(n, k, W), w)
      BY <3>2
    <3> QED BY <3>1, <3>2, <3>3
  <2> QED BY <1>6, <2>1 DEF Surjection
<1>9. IsFiniteSet(pairs) /\ Cardinality(pairs) = W * V
  <2>1. IsFiniteSet(1..W) /\ Cardinality(1..W) = W
    BY <1>1, FS_Interval
  <2>2. IsFiniteSet(0..(V - 1)) /\ Cardinality(0..(V - 1)) = V
    <3>1. 0 \in Int /\ V - 1 \in Int /\ V - 1 - 0 + 1 = V /\ (0 > V - 1 => V = 0)
      BY <1>1
    <3> QED BY <3>1, FS_Interval
  <2>3. Words = 0..(V - 1)
    BY DEF Words, V
  <2>4. IsFiniteSet(Words) /\ Cardinality(Words) = V
    BY <2>2, <2>3
  <2> QED BY <2>1, <2>4, FS_Product
<1> HIDE DEF f, pairs
<1>10. f \in Bijection(pairs, S)
  BY <1>7, <1>8 DEF Bijection
<1>11. ExistsBijection(pairs, S)
  BY <1>10 DEF ExistsBijection
<1>12. IsFiniteSet(S) /\ Cardinality(S) = W * V
  BY <1>9, <1>11, FS_Bijection
<1> QED BY <1>2, <1>4, <1>5, <1>12 DEF W, V, S

\* The best of the candidates of entry n.
Best(s, n) == TopK(RowChoices(s, n), NumCandidates)

\* There are enough candidates for twice the beam.
LEMMA EnoughChoices ==
  ASSUME NaturalCosts, CallOK, ~IsGreedy, NEW s, Sized(s), NEW n \in 1..Len(s.offset)
  PROVE  /\ NumCandidates \in Nat /\ NumCandidates = 2 * call.beamSize
         /\ NumCandidates <= Cardinality(RowChoices(s, n))
<1>1. call.beamSize \in Nat \ {0} /\ VocabularySize \in Nat /\ VocabularySize >= 2
  BY CallIs, SearchAssumption
<1>2. NumCandidates \in Nat /\ NumCandidates = 2 * call.beamSize
  BY <1>1 DEF NumCandidates
<1>3. /\ RowChoices(s, n) \in SUBSET Candidate /\ OnePerWord(RowChoices(s, n))
      /\ IsFiniteSet(RowChoices(s, n))
      /\ Cardinality(RowChoices(s, n)) = Width(s) * VocabularySize
  BY RowChoicesAre
<1>4. NumCandidates <= Width(s) * VocabularySize
  <2>1. CASE s.expanded
    <3>1. Width(s) = call.beamSize
      BY <2>1 DEF Width
    <3>2. 2 * call.beamSize <= VocabularySize * call.beamSize
      BY <1>1, TimesLeq
    <3>3. VocabularySize * call.beamSize = call.beamSize * VocabularySize
      BY <1>1
    <3> QED BY <1>2, <3>1, <3>2, <3>3
  <2>2. CASE ~s.expanded
    <3>1. ExpandAfterFirstStep
      BY <2>2 DEF Sized
    <3>2. NumCandidates <= VocabularySize /\ Width(s) = 1
      BY <2>2, <3>1 DEF ExpandAfterFirstStep, Width
    <3> QED BY <1>1, <3>2
  <2> QED BY <2>1, <2>2
<1>5. NumCandidates <= Cardinality(RowChoices(s, n))
  BY <1>3, <1>4
<1> QED BY <1>2, <1>5

LEMMA BestIs ==
  ASSUME NaturalCosts, CallOK, ~IsGreedy, NEW s, Sized(s), NEW n \in 1..Len(s.offset)
  PROVE  /\ NumCandidates \in Nat /\ NumCandidates = 2 * call.beamSize
         /\ Best(s, n) \in Seq(RowChoices(s, n)) /\ Len(Best(s, n)) = NumCandidates
         /\ \A k \in 1..NumCandidates :
              /\ Best(s, n)[k] \in RowChoices(s, n)
              /\ Rank(RowChoices(s, n), Better(RowChoices(s, n)), Best(s, n)[k]) = k
<1>1. /\ NumCandidates \in Nat /\ NumCandidates = 2 * call.beamSize
      /\ NumCandidates <= Cardinality(RowChoices(s, n))
  BY EnoughChoices
<1>2. /\ RowChoices(s, n) \in SUBSET Candidate /\ OnePerWord(RowChoices(s, n))
      /\ IsFiniteSet(RowChoices(s, n))
  BY RowChoicesAre
<1> QED BY <1>1, <1>2, TopKIs DEF Best

\* What update_sample_with_prefix makes of a candidate of a row of entry n.
Sample(s, n, k) == WithPrefix(s, n, k, Best(s, n)[k])

\* A candidate comes from a row of its entry, and costs either a penalty, or nothing
\* within the prefix, or what its row and its word cost together.
SampleOK(s, n, c) ==
  /\ c \in Candidate
  /\ \E j \in 1..Width(s) : c.origin = Flat(n, j, Width(s))
  /\ \/ c.cost >= Penalised
     \/ c.cost = 0 /\ s.step < Len(Prefix(s.offset[n]))
     \/ /\ s.step >= Len(Prefix(s.offset[n]))
        /\ c.cost = Plus(s.scores[c.origin], WordCost(s, c.origin, c.word))

\* Whatever the candidate was.
LEMMA WithPrefixOK ==
  ASSUME NaturalCosts, CallOK, NEW s, Sized(s), NEW n \in 1..Len(s.offset),
         NEW k, NEW c \in RowChoices(s, n)
  PROVE  SampleOK(s, n, WithPrefix(s, n, k, c))
<1> DEFINE prefix == Prefix(s.offset[n])
           first == Flat(n, 1, Width(s))
<1>1. PICK j \in 1..Width(s), w \in Words : c = Choice(s, Flat(n, j, Width(s)), w)
  BY RowChoicesAre
<1>2. c \in Candidate
  BY RowChoicesAre
<1>3. 1 \in 1..Width(s) /\ first \in Nat
  <2>1. Width(s) \in Nat \ {0}
    BY CallIs DEF Width
  <2>2. 1 \in 1..Width(s)
    BY <2>1
  <2>3. first \in 1..Size(s)
    BY <2>2, RowsOf
  <2> QED BY <2>2, <2>3
<1>4. s.offset[n] \in Entries /\ s.step \in Nat
  BY <1>1, RowsOf
<1>5. prefix \in Seq(Words) /\ Len(prefix) \in Nat
  BY <1>4, PromptIs
<1>6. 0 \in Words
  BY SearchAssumption DEF Words
<1>7. CASE s.step < Len(prefix)
  <2> DEFINE d == [origin |-> first, word |-> prefix[s.step + 1],
                   cost |-> IF k = 1 THEN 0 ELSE Penalised]
  <2>1. WithPrefix(s, n, k, c) = d
    BY <1>7 DEF WithPrefix
  <2>2. prefix[s.step + 1] \in Words
    BY <1>4, <1>5, <1>7
  <2>3. d \in Candidate /\ (d.cost >= Penalised \/ d.cost = 0) /\ d.origin = first
    BY <1>3, <2>2 DEF Candidate, Penalised
  <2> HIDE DEF d, first
  <2>4. \E i \in 1..Width(s) : d.origin = Flat(n, i, Width(s))
    BY <1>3, <2>3 DEF first
  <2> QED BY <1>7, <2>1, <2>3, <2>4 DEF SampleOK
<1>8. CASE ~(s.step < Len(prefix)) /\ HasPrefix /\ s.step = Len(prefix) /\ k > 1 /\ c.word \in call.endIds
  <2> DEFINE d == [origin |-> first, word |-> 0, cost |-> Penalised]
  <2>1. WithPrefix(s, n, k, c) = d
    BY <1>8 DEF WithPrefix
  <2>2. d \in Candidate /\ d.cost >= Penalised /\ d.origin = first
    BY <1>3, <1>6 DEF Candidate, Penalised
  <2> HIDE DEF d, first
  <2>3. \E i \in 1..Width(s) : d.origin = Flat(n, i, Width(s))
    BY <1>3, <2>2 DEF first
  <2> QED BY <2>1, <2>2, <2>3 DEF SampleOK
<1>9. CASE /\ ~(s.step < Len(prefix))
           /\ ~(HasPrefix /\ s.step = Len(prefix) /\ k > 1 /\ c.word \in call.endIds)
  <2>1. WithPrefix(s, n, k, c) = c
    BY <1>9 DEF WithPrefix
  <2>2. /\ c.origin = Flat(n, j, Width(s)) /\ c.word = w
        /\ c.cost = Plus(s.scores[Flat(n, j, Width(s))], WordCost(s, Flat(n, j, Width(s)), w))
    BY <1>1 DEF Choice
  <2>3. s.step >= Len(prefix)
    BY <1>4, <1>5, <1>9
  <2> QED BY <1>2, <2>1, <2>2, <2>3 DEF SampleOK
<1> QED BY <1>7, <1>8, <1>9

\* The candidates of the batch are those of its entries.
LEMMA BeamCandidatesAre ==
  ASSUME NaturalCosts, CallOK, ~IsGreedy, NEW s, Sized(s)
  PROVE  /\ Len(BeamCandidates(s)) = Len(s.offset) * NumCandidates
         /\ BeamCandidates(s) \in Seq(Candidate)
         /\ \A n \in 1..Len(s.offset), k \in 1..NumCandidates :
              /\ BeamCandidates(s)[Flat(n, k, NumCandidates)] = Sample(s, n, k)
              /\ SampleOK(s, n, Sample(s, n, k))
<1> DEFINE N == Len(s.offset)
           of(n) == [k \in 1..NumCandidates |-> Sample(s, n, k)]
           parts == [n \in 1..N |-> of(n)]
<1>1. s.offset \in Seq(Entries) /\ N \in Nat /\ DOMAIN s.offset = 1..N
  BY DEF Sized, State
<1>2. NumCandidates \in Nat
  BY CallIs DEF NumCandidates
<1>3. BeamCandidates(s) = FlattenSeq(parts)
  BY <1>1 DEF BeamCandidates, Sample, Best, RowChoices, Choice
<1>4. \A n \in 1..N, k \in 1..NumCandidates : SampleOK(s, n, Sample(s, n, k))
  BY BestIs, WithPrefixOK DEF Sample
<1>5. \A n \in 1..N : of(n) \in Seq(Candidate) /\ Len(of(n)) = NumCandidates
  <2> SUFFICES ASSUME NEW n \in 1..N PROVE of(n) \in Seq(Candidate) /\ Len(of(n)) = NumCandidates
    OBVIOUS
  <2>1. \A k \in 1..NumCandidates : Sample(s, n, k) \in Candidate
    BY <1>4 DEF SampleOK
  <2> QED BY <1>2, <2>1
<1>6. parts \in Seq(Seq(Candidate)) /\ Len(parts) = N /\ \A n \in 1..N : parts[n] = of(n)
  <2> HIDE DEF of
  <2> QED BY <1>1, <1>5
<1>7. FlattenSeq(parts) \in Seq(Candidate) /\ RowByRow(FlattenSeq(parts), parts, NumCandidates)
  <2> HIDE DEF parts, of
  <2>1. \A n \in 1..Len(parts) : Len(parts[n]) = NumCandidates
    BY <1>5, <1>6
  <2> QED BY <1>2, <1>6, <2>1, FlattenRows
<1>8. \A n \in 1..N, k \in 1..NumCandidates : parts[n][k] = Sample(s, n, k)
  OBVIOUS
<1> HIDE DEF parts, N
<1> QED BY <1>3, <1>4, <1>6, <1>7, <1>8 DEF N, RowByRow

-----------------------------------------------------------------------------
(* One turn of the loop of beam search, by its parts. *)

\* The candidate that goes on in beam k of entry n.
Active(s, n, k) == ActiveCandidate(s, n, k, BeamCandidates(s))
ActiveRows(s) ==
  FlattenSeq([n \in DOMAIN s.offset |->
                [k \in 1..call.beamSize |-> Flat(n, Active(s, n, k), NumCandidates)]])
NewAlive(s) ==
  [p \in DOMAIN BeamCandidates(s) |->
     Append(s.alive[BeamCandidates(s)[p].origin], BeamCandidates(s)[p].word)]
NewTopDone(s) ==
  [n \in DOMAIN s.offset |-> s.topDone[n] \/ 1 \in FinishedBeams(s, n, BeamCandidates(s))]
NewHypotheses(s) ==
  [n \in DOMAIN s.offset |->
     s.results[s.offset[n]] \o Registered(s, n, BeamCandidates(s), NewAlive(s))]
Leaving(s) ==
  {n \in DOMAIN s.offset : IsFinished(s, n, NewTopDone(s)[n], NewHypotheses(s)[n])}
NewResults(s) ==
  [e \in Entries |->
     IF \E n \in DOMAIN s.offset : s.offset[n] = e
     THEN LET n == CHOOSE n \in DOMAIN s.offset : s.offset[n] = e
          IN IF n \in Leaving(s) THEN Finalized(NewHypotheses(s)[n]) ELSE NewHypotheses(s)[n]
     ELSE s.results[e]]
Kept(s) == InOrder(DOMAIN s.offset \ Leaving(s))
Continued(s) ==
  [s EXCEPT !.step = @ + 1, !.expanded = TRUE, !.results = NewResults(s),
            !.topDone = NewTopDone(s),
            !.ids = [q \in DOMAIN ActiveRows(s) |-> BeamCandidates(s)[ActiveRows(s)[q]].word],
            !.scores = [q \in DOMAIN ActiveRows(s) |-> BeamCandidates(s)[ActiveRows(s)[q]].cost],
            !.alive = Gather(NewAlive(s), ActiveRows(s)),
            !.cache = [q \in DOMAIN ActiveRows(s) |->
                         Read(s, [p \in DOMAIN BeamCandidates(s) |->
                                    BeamCandidates(s)[p].origin][ActiveRows(s)[q]])]]

LEMMA BeamStepIs ==
  ASSUME NEW s
  PROVE  BeamStep(s) = Compact(Continued(s), Kept(s))
BY Zenon DEF BeamStep, Continued, Kept, ActiveRows, Active, NewAlive, NewTopDone, NewHypotheses,
       Leaving, NewResults

\* Sets of positions are finite.
LEMMA FinitePositions ==
  ASSUME NEW a \in Nat, NEW b \in Nat, NEW T \in SUBSET (a..b)
  PROVE  IsFiniteSet(T)
<1>1. IsFiniteSet(a..b)
  BY FS_Interval
<1> QED BY <1>1, FS_Subset

\* A beam goes on with one of the candidates of its entry.
LEMMA ActiveIs ==
  ASSUME CallOK, NEW s, NEW n, NEW k \in 1..call.beamSize
  PROVE  Active(s, n, k) \in 1..NumCandidates
<1> DEFINE candidates == BeamCandidates(s)
           finished == FinishedBeams(s, n, candidates)
           position == Cardinality({j \in finished : j <= k})
           others == {j \in (call.beamSize + 1)..NumCandidates :
                        candidates[Flat(n, j, NumCandidates)].word \notin call.endIds}
<1>1. call.beamSize \in Nat \ {0} /\ NumCandidates = 2 * call.beamSize
  BY CallIs DEF NumCandidates
<1>2. Active(s, n, k) = IF k \in finished /\ position <= Len(InOrder(others))
                        THEN InOrder(others)[position] ELSE k
  BY DEF Active, ActiveCandidate
<1>3. others \in SUBSET Nat /\ IsFiniteSet(others) /\ others \subseteq 1..NumCandidates
  <2>1. others \in SUBSET ((call.beamSize + 1)..NumCandidates)
    OBVIOUS
  <2> HIDE DEF others
  <2>2. call.beamSize + 1 \in Nat /\ NumCandidates \in Nat
    BY <1>1
  <2>3. IsFiniteSet(others)
    BY <2>1, <2>2, FinitePositions
  <2>4. others \in SUBSET Nat /\ others \subseteq 1..NumCandidates
    BY <2>1, <2>2, <1>1
  <2> QED BY <2>3, <2>4
<1>4. k \in finished => position \in Nat \ {0}
  <2> SUFFICES ASSUME k \in finished PROVE position \in Nat \ {0}
    OBVIOUS
  <2> DEFINE set == {j \in finished : j <= k}
  <2>1. set \in SUBSET (1..call.beamSize) /\ k \in set
    BY <1>1 DEF FinishedBeams
  <2> HIDE DEF set
  <2>2. IsFiniteSet(set)
    <3>1. 1 \in Nat /\ call.beamSize \in Nat
      BY <1>1
    <3> QED BY <2>1, <3>1, FinitePositions
  <2>3. Cardinality(set) \in Nat /\ Cardinality(set) # 0
    BY <2>1, <2>2, FS_CardinalityType, FS_EmptySet
  <2> QED BY <2>3 DEF set
<1> HIDE DEF others, position, finished
<1>5. /\ Len(InOrder(others)) \in Nat
      /\ \A i \in 1..Len(InOrder(others)) : InOrder(others)[i] \in others
  <2>1. InOrder(others) \in Seq(others)
    BY <1>3, InOrderIs
  <2> QED BY <2>1
<1>6. k \in 1..NumCandidates
  BY <1>1
<1>7. CASE k \in finished /\ position <= Len(InOrder(others))
  <2>1. position \in 1..Len(InOrder(others))
    BY <1>4, <1>5, <1>7
  <2> QED BY <1>2, <1>3, <1>5, <1>7, <2>1
<1> QED BY <1>2, <1>6, <1>7

LEMMA GatherIs ==
  ASSUME NEW S, NEW data \in Seq(S), NEW indices \in Seq(1..Len(data))
  PROVE  /\ Gather(data, indices) \in Seq(S) /\ Len(Gather(data, indices)) = Len(indices)
         /\ \A i \in 1..Len(indices) : Gather(data, indices)[i] = data[indices[i]]
<1>1. \A i \in 1..Len(indices) : data[indices[i]] \in S
  OBVIOUS
<1>2. Gather(data, indices) = [i \in 1..Len(indices) |-> data[indices[i]]]
  BY DEF Gather
<1>3. Len(indices) \in Nat
  OBVIOUS
<1> QED BY <1>1, <1>2, <1>3

\* The positions, among all the candidates, of those that go on.
LEMMA ActiveRowsAre ==
  ASSUME NaturalCosts, CallOK, ~IsGreedy, NEW s, Sized(s)
  PROVE  /\ ActiveRows(s) \in Seq(1..Len(BeamCandidates(s)))
         /\ Len(ActiveRows(s)) = Len(s.offset) * call.beamSize
         /\ \A n \in 1..Len(s.offset), k \in 1..call.beamSize :
              ActiveRows(s)[Flat(n, k, call.beamSize)] = Flat(n, Active(s, n, k), NumCandidates)
<1> DEFINE N == Len(s.offset)
           B == call.beamSize
           T == 1..Len(BeamCandidates(s))
           of(n) == [k \in 1..B |-> Flat(n, Active(s, n, k), NumCandidates)]
           parts == [n \in 1..N |-> of(n)]
<1>1. s.offset \in Seq(Entries) /\ N \in Nat /\ DOMAIN s.offset = 1..N
  BY DEF Sized, State
<1>2. B \in Nat /\ NumCandidates \in Nat
  BY CallIs DEF NumCandidates
<1>3. ActiveRows(s) = FlattenSeq(parts)
  BY <1>1 DEF ActiveRows
<1>4. Len(BeamCandidates(s)) = N * NumCandidates
  BY BeamCandidatesAre
<1>5. \A n \in 1..N : of(n) \in Seq(T) /\ Len(of(n)) = B
  <2> SUFFICES ASSUME NEW n \in 1..N PROVE of(n) \in Seq(T) /\ Len(of(n)) = B
    OBVIOUS
  <2>1. \A k \in 1..B : Active(s, n, k) \in 1..NumCandidates
    BY ActiveIs
  <2>2. \A k \in 1..B : Flat(n, Active(s, n, k), NumCandidates) \in T
    BY <1>1, <1>2, <1>4, <2>1, FlatRange
  <2> HIDE DEF T
  <2> QED BY <1>2, <2>2
<1>6. parts \in Seq(Seq(T)) /\ Len(parts) = N /\ \A n \in 1..N : parts[n] = of(n)
  <2> HIDE DEF of, T
  <2> QED BY <1>1, <1>5
<1>7. FlattenSeq(parts) \in Seq(T) /\ RowByRow(FlattenSeq(parts), parts, B)
  <2> HIDE DEF parts, of, T
  <2>1. \A n \in 1..Len(parts) : Len(parts[n]) = B
    BY <1>5, <1>6
  <2> QED BY <1>2, <1>6, <2>1, FlattenRows
<1>8. \A n \in 1..N, k \in 1..B : parts[n][k] = Flat(n, Active(s, n, k), NumCandidates)
  OBVIOUS
<1> HIDE DEF parts, N, T
<1>9. /\ Len(FlattenSeq(parts)) = N * B
      /\ \A n \in 1..N, k \in 1..B :
           FlattenSeq(parts)[Flat(n, k, B)] = Flat(n, Active(s, n, k), NumCandidates)
  <2>1. /\ Len(FlattenSeq(parts)) = Len(parts) * B
        /\ \A n \in 1..Len(parts), k \in 1..B : FlattenSeq(parts)[Flat(n, k, B)] = parts[n][k]
    BY <1>7 DEF RowByRow
  <2>2. Len(parts) = N
    BY <1>6
  <2> QED BY Zenon, <1>8, <2>1, <2>2
<1> QED BY Zenon, <1>3, <1>7, <1>9 DEF N, T

\* Row r gets a sampled word: the state of the row it comes from, and that word.
RowFrom(t, r, s, c) ==
  /\ t.ids[r] = c.word /\ t.scores[r] = c.cost
  /\ t.alive[r] = Append(s.alive[c.origin], c.word)
  /\ t.cache[r] = Read(s, c.origin)

\* The arrays have size rows for each of their entries.
Rows(t, size) ==
  /\ State(t)
  /\ Len(t.ids) = Len(t.offset) * size /\ Len(t.scores) = Len(t.offset) * size
  /\ Len(t.alive) = Len(t.offset) * size /\ Len(t.cache) = Len(t.offset) * size
  /\ Len(t.memory) = Len(t.offset) /\ Len(t.topDone) = Len(t.offset)

\* Before the entries that are finished leave.
LEMMA ContinuedIs ==
  ASSUME NaturalCosts, CallOK, ~IsGreedy, NEW s, Sized(s)
  PROVE  /\ Rows(Continued(s), call.beamSize)
         /\ Continued(s).step = s.step + 1 /\ Continued(s).expanded
         /\ Continued(s).offset = s.offset /\ Continued(s).memory = s.memory
         /\ Continued(s).topDone = NewTopDone(s) /\ Continued(s).results = NewResults(s)
         /\ \A n \in 1..Len(s.offset), k \in 1..call.beamSize :
              RowFrom(Continued(s), Flat(n, k, call.beamSize), s, Sample(s, n, Active(s, n, k)))
<1> DEFINE t == Continued(s)
           N == Len(s.offset)
           B == call.beamSize
           bc == BeamCandidates(s)
           rows == ActiveRows(s)
<1>1. /\ State(s) /\ N \in Nat /\ DOMAIN s.offset = 1..N /\ B \in Nat
  BY CallIs DEF Sized, State
<1>2. /\ bc \in Seq(Candidate) /\ Len(bc) = N * NumCandidates
      /\ \A n \in 1..N, k \in 1..NumCandidates :
           /\ bc[Flat(n, k, NumCandidates)] = Sample(s, n, k)
           /\ SampleOK(s, n, Sample(s, n, k))
  BY BeamCandidatesAre
<1>3. /\ rows \in Seq(1..Len(bc)) /\ Len(rows) = N * B
      /\ \A n \in 1..N, k \in 1..B : rows[Flat(n, k, B)] = Flat(n, Active(s, n, k), NumCandidates)
  BY ActiveRowsAre
<1>4. /\ t.step = s.step + 1 /\ t.expanded = TRUE /\ t.offset = s.offset /\ t.memory = s.memory
      /\ t.topDone = NewTopDone(s) /\ t.results = NewResults(s)
      /\ t.ids = [q \in DOMAIN rows |-> bc[rows[q]].word]
      /\ t.scores = [q \in DOMAIN rows |-> bc[rows[q]].cost]
      /\ t.alive = Gather(NewAlive(s), rows)
      /\ t.cache = [q \in DOMAIN rows |-> Read(s, [p \in DOMAIN bc |-> bc[p].origin][rows[q]])]
      /\ t = [step |-> t.step, expanded |-> t.expanded, ids |-> t.ids, scores |-> t.scores,
              alive |-> t.alive, cache |-> t.cache, memory |-> t.memory, offset |-> t.offset,
              topDone |-> t.topDone, results |-> t.results]
  <2> DEFINE step == s.step + 1
             results == NewResults(s)
             topDone == NewTopDone(s)
             ids == [q \in DOMAIN rows |-> bc[rows[q]].word]
             scores == [q \in DOMAIN rows |-> bc[rows[q]].cost]
             alive == Gather(NewAlive(s), rows)
             cache == [q \in DOMAIN rows |-> Read(s, [p \in DOMAIN bc |-> bc[p].origin][rows[q]])]
  <2>1. t = [s EXCEPT !.step = step, !.expanded = TRUE, !.results = results, !.topDone = topDone,
                      !.ids = ids, !.scores = scores, !.alive = alive, !.cache = cache]
    BY DEF Continued
  <2> HIDE DEF t, step, results, topDone, ids, scores, alive, cache
  <2>2. s = [step |-> s.step, expanded |-> s.expanded, ids |-> s.ids, scores |-> s.scores,
             alive |-> s.alive, cache |-> s.cache, memory |-> s.memory, offset |-> s.offset,
             topDone |-> s.topDone, results |-> s.results]
    BY <1>1 DEF State
  <2>3. t = [step |-> step, expanded |-> TRUE, ids |-> ids, scores |-> scores, alive |-> alive,
             cache |-> cache, memory |-> s.memory, offset |-> s.offset, topDone |-> topDone,
             results |-> results]
    BY ONLY <2>1, <2>2, UpdateIs
  <2>4. /\ t.step = step /\ t.expanded = TRUE /\ t.offset = s.offset /\ t.memory = s.memory
        /\ t.topDone = topDone /\ t.results = results /\ t.ids = ids /\ t.scores = scores
        /\ t.alive = alive /\ t.cache = cache
    BY ONLY <2>3
  <2>5. t = [step |-> t.step, expanded |-> t.expanded, ids |-> t.ids, scores |-> t.scores,
             alive |-> t.alive, cache |-> t.cache, memory |-> t.memory, offset |-> t.offset,
             topDone |-> t.topDone, results |-> t.results]
    BY ONLY <2>3, <2>4
  <2> QED BY <2>4, <2>5 DEF step, results, topDone, ids, scores, alive, cache
<1> HIDE DEF t, N, B, bc, rows
\* A candidate is in a row of its entry.
<1>5. ASSUME NEW p \in 1..Len(bc)
      PROVE  /\ bc[p].word \in Words /\ bc[p].cost \in Nat
             /\ s.alive[bc[p].origin] \in Seq(Words) /\ Read(s, bc[p].origin) \in Seq(Words)
  <2>1. PICK n \in 1..N, k \in 1..NumCandidates : p = Flat(n, k, NumCandidates)
    <3>1. NumCandidates \in Nat
      BY CallIs DEF NumCandidates
    <3>2. p \in 1..(N * NumCandidates)
      BY <1>2
    <3> QED BY <1>1, <3>1, <3>2, FlatCover
  <2>2. SampleOK(s, n, bc[p])
    BY <1>2, <2>1
  <2>3. bc[p].word \in Words /\ bc[p].cost \in Nat
    BY <2>2 DEF SampleOK, Candidate
  <2>4. PICK j \in 1..Width(s) : bc[p].origin = Flat(n, j, Width(s))
    BY <2>2 DEF SampleOK
  <2>5. n \in 1..Len(s.offset)
    BY DEF N
  <2> QED BY <2>3, <2>4, <2>5, RowsOf
<1>6. \A q \in 1..Len(rows) : rows[q] \in 1..Len(bc)
  BY <1>3
<1>7. Len(rows) \in Nat /\ DOMAIN rows = 1..Len(rows) /\ DOMAIN bc = 1..Len(bc) /\ Len(bc) \in Nat
  BY <1>2, <1>3
<1>8. t.ids \in Seq(Words) /\ t.scores \in Seq(Nat) /\ Len(t.ids) = Len(rows) /\ Len(t.scores) = Len(rows)
  <2>1. \A q \in 1..Len(rows) : bc[rows[q]].word \in Words /\ bc[rows[q]].cost \in Nat
    BY <1>5, <1>6
  <2>2. t.ids \in Seq(Words) /\ Len(t.ids) = Len(rows)
    BY <1>4, <1>7, <2>1
  <2>3. t.scores \in Seq(Nat) /\ Len(t.scores) = Len(rows)
    BY <1>4, <1>7, <2>1
  <2> QED BY <2>2, <2>3
<1>9. /\ NewAlive(s) \in Seq(Seq(Words)) /\ Len(NewAlive(s)) = Len(bc)
      /\ \A p \in 1..Len(bc) : NewAlive(s)[p] = Append(s.alive[bc[p].origin], bc[p].word)
  <2>1. NewAlive(s) = [p \in 1..Len(bc) |-> Append(s.alive[bc[p].origin], bc[p].word)]
    BY <1>7 DEF NewAlive, bc
  <2>2. \A p \in 1..Len(bc) : Append(s.alive[bc[p].origin], bc[p].word) \in Seq(Words)
    BY <1>5
  <2> QED BY <1>7, <2>1, <2>2
<1>10. /\ t.alive \in Seq(Seq(Words)) /\ Len(t.alive) = Len(rows)
       /\ \A q \in 1..Len(rows) : t.alive[q] = NewAlive(s)[rows[q]]
  <2>1. rows \in Seq(1..Len(NewAlive(s)))
    BY <1>3, <1>9
  <2> QED BY <1>4, <1>9, <2>1, GatherIs
<1>11. \A q \in 1..Len(rows) : [p \in DOMAIN bc |-> bc[p].origin][rows[q]] = bc[rows[q]].origin
  BY <1>6, <1>7
<1>12. /\ t.cache \in Seq(Seq(Words)) /\ Len(t.cache) = Len(rows)
       /\ \A q \in 1..Len(rows) : t.cache[q] = Read(s, bc[rows[q]].origin)
  <2>1. t.cache = [q \in 1..Len(rows) |-> Read(s, bc[rows[q]].origin)]
    BY <1>4, <1>7, <1>11
  <2>2. \A q \in 1..Len(rows) : Read(s, bc[rows[q]].origin) \in Seq(Words)
    BY <1>5, <1>6
  <2> QED BY <1>7, <2>1, <2>2
<1>13. NewTopDone(s) \in Seq(BOOLEAN) /\ Len(NewTopDone(s)) = N
  <2> DEFINE flag(n) == s.topDone[n] \/ 1 \in FinishedBeams(s, n, BeamCandidates(s))
  <2>1. \A n \in 1..N : flag(n) \in BOOLEAN
    BY Zenon
  <2>2. NewTopDone(s) = [n \in 1..N |-> flag(n)]
    BY <1>1 DEF NewTopDone
  <2> HIDE DEF flag
  <2> QED BY <1>1, <2>1, <2>2
<1>14. State(t)
  <2>1. s.step + 1 \in Nat /\ s.memory \in Seq(Nat) /\ s.offset \in Seq(Entries)
    BY <1>1 DEF State
  <2> QED BY <1>4, <1>8, <1>10, <1>12, <1>13, <2>1 DEF State
<1>15. Rows(t, B)
  <2>1. Len(s.memory) = N
    BY DEF Sized, N
  <2> QED BY <1>3, <1>4, <1>8, <1>10, <1>12, <1>13, <1>14, <2>1 DEF Rows, N
<1>16. ASSUME NEW n \in 1..N, NEW k \in 1..B
       PROVE  RowFrom(t, Flat(n, k, B), s, Sample(s, n, Active(s, n, k)))
  <2>1. PICK q : q = Flat(n, k, B)
    OBVIOUS
  <2>2. q \in 1..Len(rows)
    BY <1>1, <1>3, <2>1, FlatRange
  <2>3. Active(s, n, k) \in 1..NumCandidates
    BY ActiveIs DEF B
  <2>4. PICK c : c = Sample(s, n, Active(s, n, k))
    OBVIOUS
  <2>5. bc[rows[q]] = c
    BY <1>2, <1>3, <2>1, <2>3, <2>4
  <2>6. t.ids[q] = c.word /\ t.scores[q] = c.cost
    BY <1>4, <1>7, <2>2, <2>5
  <2>7. t.alive[q] = Append(s.alive[c.origin], c.word) /\ t.cache[q] = Read(s, c.origin)
    BY <1>6, <1>9, <1>10, <1>12, <2>2, <2>5
  <2> QED BY <2>1, <2>4, <2>6, <2>7 DEF RowFrom
<1> QED BY <1>4, <1>15, <1>16 DEF t, N, B
\* Row q is row r of a state.
SameRow(u, q, t, r) ==
  /\ u.ids[q] = t.ids[r] /\ u.scores[q] = t.scores[r]
  /\ u.alive[q] = t.alive[r] /\ u.cache[q] = t.cache[r]

\* The entries of u are the given ones of t, with their rows.
KeepsEntries(u, t, kept, size) ==
  /\ Rows(u, size)
  /\ u.step = t.step /\ u.expanded = t.expanded /\ u.results = t.results
  /\ Len(u.offset) = Len(kept)
  /\ \A m \in 1..Len(kept) :
       /\ u.offset[m] = t.offset[kept[m]] /\ u.memory[m] = t.memory[kept[m]]
       /\ u.topDone[m] = t.topDone[kept[m]]
       /\ \A k \in 1..size : SameRow(u, Flat(m, k, size), t, Flat(kept[m], k, size))

\* Gathering the entries and their rows.
Gathered(t, rows, kept) ==
  [step |-> t.step, expanded |-> t.expanded, ids |-> Gather(t.ids, rows),
   scores |-> Gather(t.scores, rows), alive |-> Gather(t.alive, rows),
   cache |-> Gather(t.cache, rows), memory |-> Gather(t.memory, kept),
   offset |-> Gather(t.offset, kept), topDone |-> Gather(t.topDone, kept),
   results |-> t.results]
RowsOfKept(rows, kept, N, size) ==
  /\ rows \in Seq(1..(N * size)) /\ Len(rows) = Len(kept) * size
  /\ \A m \in 1..Len(kept), k \in 1..size : rows[Flat(m, k, size)] = Flat(kept[m], k, size)

\* v holds the items of data at the given places.
Gathers(v, data, rows, T) ==
  v \in Seq(T) /\ Len(v) = Len(rows) /\ \A q \in 1..Len(rows) : v[q] = data[rows[q]]

LEMMA GathersIs ==
  ASSUME NEW T, NEW data \in Seq(T), NEW rows \in Seq(1..Len(data))
  PROVE  Gathers(Gather(data, rows), data, rows, T)
  BY GatherIs DEF Gathers

\* The entries and rows of the result are the given ones.
LEMMA GatheredIs ==
  ASSUME NEW size \in Nat, NEW t, Rows(t, size), NEW kept \in Seq(1..Len(t.offset)),
         NEW rows, RowsOfKept(rows, kept, Len(t.offset), size)
  PROVE  KeepsEntries(Gathered(t, rows, kept), t, kept, size)
<1> DEFINE u == Gathered(t, rows, kept)
           N == Len(t.offset)
<1>1. N \in Nat /\ Len(kept) \in Nat
  BY DEF Rows, State
<1>2. rows \in Seq(1..(N * size))
  BY DEF RowsOfKept
<1>3. /\ Len(rows) = Len(kept) * size
      /\ \A m \in 1..Len(kept), k \in 1..size : rows[Flat(m, k, size)] = Flat(kept[m], k, size)
  BY DEF RowsOfKept
<1>4. /\ u.step = t.step /\ u.expanded = t.expanded /\ u.results = t.results
      /\ u.ids = Gather(t.ids, rows) /\ u.scores = Gather(t.scores, rows)
      /\ u.alive = Gather(t.alive, rows) /\ u.cache = Gather(t.cache, rows)
      /\ u.memory = Gather(t.memory, kept) /\ u.offset = Gather(t.offset, kept)
      /\ u.topDone = Gather(t.topDone, kept)
      /\ u = [step |-> u.step, expanded |-> u.expanded, ids |-> u.ids, scores |-> u.scores,
              alive |-> u.alive, cache |-> u.cache, memory |-> u.memory, offset |-> u.offset,
              topDone |-> u.topDone, results |-> u.results]
  BY DEF Gathered
<1> HIDE DEF u
<1>5. /\ t.ids \in Seq(Words) /\ t.scores \in Seq(Nat) /\ t.alive \in Seq(Seq(Words))
      /\ t.cache \in Seq(Seq(Words)) /\ t.memory \in Seq(Nat) /\ t.offset \in Seq(Entries)
      /\ t.topDone \in Seq(BOOLEAN) /\ t.step \in Nat /\ t.expanded \in BOOLEAN
      /\ Len(t.ids) = N * size /\ Len(t.scores) = N * size /\ Len(t.alive) = N * size
      /\ Len(t.cache) = N * size /\ Len(t.memory) = N /\ Len(t.topDone) = N
  BY DEF Rows, State
<1> HIDE DEF N
<1>6. /\ Gathers(u.ids, t.ids, rows, Words) /\ Gathers(u.scores, t.scores, rows, Nat)
      /\ Gathers(u.alive, t.alive, rows, Seq(Words)) /\ Gathers(u.cache, t.cache, rows, Seq(Words))
  <2>1. /\ rows \in Seq(1..Len(t.ids)) /\ rows \in Seq(1..Len(t.scores))
        /\ rows \in Seq(1..Len(t.alive)) /\ rows \in Seq(1..Len(t.cache))
    BY <1>2, <1>5
  <2> QED BY <1>4, <1>5, <2>1, GathersIs, Zenon
<1>10. kept \in Seq(1..N)
  BY DEF N
<1>13. /\ Gathers(u.memory, t.memory, kept, Nat) /\ Gathers(u.offset, t.offset, kept, Entries)
       /\ Gathers(u.topDone, t.topDone, kept, BOOLEAN)
  <2>1. kept \in Seq(1..Len(t.memory)) /\ kept \in Seq(1..Len(t.offset)) /\ kept \in Seq(1..Len(t.topDone))
    BY <1>5, <1>10
  <2> QED BY <1>4, <1>5, <2>1, GathersIs, Zenon
<1>14. State(u)
  BY <1>4, <1>5, <1>6, <1>13 DEF State, Gathers
<1>15. Rows(u, size)
  BY <1>3, <1>6, <1>13, <1>14 DEF Rows, Gathers
<1>16. ASSUME NEW m \in 1..Len(kept), NEW k \in 1..size
       PROVE  SameRow(u, Flat(m, k, size), t, Flat(kept[m], k, size))
  <2>1. PICK q : q = Flat(m, k, size)
    OBVIOUS
  <2>2. q \in 1..Len(rows)
    BY <1>1, <1>3, <2>1, FlatRange
  <2>3. rows[q] = Flat(kept[m], k, size)
    BY <1>3, <2>1
  <2> QED BY <1>6, <2>1, <2>2, <2>3 DEF SameRow, Gathers
<1>17. KeepsEntries(u, t, kept, size)
  BY Zenon, <1>4, <1>13, <1>15, <1>16 DEF KeepsEntries, Gathers
<1> QED BY <1>17 DEF u

\* Compact keeps the rows of the given entries.
LEMMA CompactIs ==
  ASSUME CallOK, NEW t, Rows(t, call.beamSize), NEW kept \in Seq(1..Len(t.offset))
  PROVE  KeepsEntries(Compact(t, kept), t, kept, call.beamSize)
<1> DEFINE N == Len(t.offset)
           B == call.beamSize
           parts == [m \in DOMAIN kept |-> EntryRows(kept[m], B)]
           rows == FlattenSeq(parts)
<1>1. B \in Nat /\ N \in Nat /\ Len(kept) \in Nat /\ DOMAIN kept = 1..Len(kept)
  BY CallIs DEF Rows, State
<1>2. \A m \in 1..Len(kept) : kept[m] \in 1..N
  OBVIOUS
<1>3. rows \in Seq(1..(N * B)) /\ RowByRow(rows, parts, B) /\ Len(parts) = Len(kept)
  <2> DEFINE T == 1..(N * B)
  <2>1. ASSUME NEW m \in 1..Len(kept)
        PROVE  EntryRows(kept[m], B) \in Seq(T) /\ Len(EntryRows(kept[m], B)) = B
    <3>1. \A k \in 1..B : Flat(kept[m], k, B) \in T
      BY <1>1, <1>2, FlatRange
    <3> HIDE DEF T
    <3> QED BY <1>1, <3>1 DEF EntryRows
  <2>2. parts \in Seq(Seq(T)) /\ Len(parts) = Len(kept) /\ \A m \in 1..Len(parts) : Len(parts[m]) = B
    <3> HIDE DEF T
    <3> QED BY <1>1, <2>1
  <2> HIDE DEF parts, T
  <2>3. FlattenSeq(parts) \in Seq(T) /\ RowByRow(FlattenSeq(parts), parts, B)
    BY <1>1, <2>2, FlattenRows
  <2> QED BY <2>2, <2>3 DEF T
<1>4. /\ Len(rows) = Len(kept) * B
      /\ \A m \in 1..Len(kept), k \in 1..B : rows[Flat(m, k, B)] = Flat(kept[m], k, B)
  <2>1. \A m \in 1..Len(kept), k \in 1..B : parts[m][k] = Flat(kept[m], k, B)
    BY DEF EntryRows
  <2> HIDE DEF parts, rows
  <2> QED BY <1>3, <2>1 DEF RowByRow
<1> HIDE DEF parts
<1>5. RowsOfKept(rows, kept, N, B)
  <2> HIDE DEF rows, N, B
  <2> QED BY <1>3, <1>4 DEF RowsOfKept
<1>6. Compact(t, kept) = Gathered(t, rows, kept)
  <2>1. Compact(t, kept)
          = [t EXCEPT !.ids = Gather(t.ids, rows), !.scores = Gather(t.scores, rows),
                      !.alive = Gather(t.alive, rows), !.cache = Gather(t.cache, rows),
                      !.memory = Gather(t.memory, kept), !.offset = Gather(t.offset, kept),
                      !.topDone = Gather(t.topDone, kept)]
    BY DEF Compact, parts
  <2> HIDE DEF rows
  <2>2. t = [step |-> t.step, expanded |-> t.expanded, ids |-> t.ids, scores |-> t.scores,
             alive |-> t.alive, cache |-> t.cache, memory |-> t.memory, offset |-> t.offset,
             topDone |-> t.topDone, results |-> t.results]
    BY DEF Rows, State
  <2> QED BY ONLY <2>1, <2>2, CompactUpdate DEF Gathered
<1> HIDE DEF rows
<1> QED BY <1>1, <1>5, <1>6, GatheredIs

\* The given entries but those that leave, each once.
Selects(kept, N, leaving) ==
  /\ kept \in Seq(1..N)
  /\ \A m \in 1..Len(kept) : kept[m] \in (1..N) \ leaving
  /\ \A i, j \in 1..Len(kept) : kept[i] = kept[j] => i = j
  /\ \A n \in (1..N) \ leaving : \E m \in 1..Len(kept) : kept[m] = n

LEMMA SelectsStaying ==
  ASSUME NEW N \in Nat, NEW leaving
  PROVE  Selects(InOrder((1..N) \ leaving), N, leaving)
<1> DEFINE P == (1..N) \ leaving
<1>1. P \in SUBSET (1..N)
  OBVIOUS
<1> HIDE DEF P
<1>2. P \in SUBSET Nat /\ IsFiniteSet(P)
  <2>1. 1 \in Nat /\ N \in Nat
    OBVIOUS
  <2>2. IsFiniteSet(P)
    BY <1>1, <2>1, FinitePositions
  <2> QED BY <1>1, <2>2
<1>3. InOrder(P) \in Seq(P)
  BY <1>2, InOrderIs
<1>4. \A i, j \in 1..Len(InOrder(P)) : InOrder(P)[i] = InOrder(P)[j] => i = j
  BY <1>2, InOrderIs
<1>5. \A p \in P : \E i \in 1..Len(InOrder(P)) : InOrder(P)[i] = p
  <2>1. PICK T : T = P
    OBVIOUS
  <2>2. T \in SUBSET Nat /\ IsFiniteSet(T)
    BY <1>2, <2>1
  <2>3. \A p \in T : \E i \in 1..Len(InOrder(T)) : InOrder(T)[i] = p
    BY ONLY <2>2, InOrderIs
  <2> QED BY <2>1, <2>3
<1>6. \A m \in 1..Len(InOrder(P)) : InOrder(P)[m] \in P
  BY <1>3
<1>7. InOrder(P) \in Seq(1..N)
  <2>1. PICK q : q = InOrder(P)
    OBVIOUS
  <2>2. PICK U : U = 1..N
    OBVIOUS
  <2>3. q \in Seq(P) /\ \A m \in 1..Len(q) : q[m] \in U
    BY <1>1, <1>3, <1>6, <2>1, <2>2
  <2>4. q \in Seq(U)
    BY ONLY <2>3
  <2> QED BY <2>1, <2>2, <2>4
<1> QED BY Zenon, <1>4, <1>5, <1>6, <1>7 DEF Selects, P

LEMMA KeptIs ==
  ASSUME NEW s, Sized(s)
  PROVE  Selects(Kept(s), Len(s.offset), Leaving(s))
<1>1. Len(s.offset) \in Nat /\ DOMAIN s.offset = 1..Len(s.offset)
  BY DEF Sized, State
<1> QED BY <1>1, SelectsStaying DEF Kept

\* One turn, row by row.
LEMMA BeamTurn ==
  ASSUME NaturalCosts, CallOK, ~IsGreedy, NEW s, Sized(s)
  PROVE  /\ Sized(BeamStep(s)) /\ Width(BeamStep(s)) = call.beamSize
         /\ BeamStep(s).step = s.step + 1 /\ BeamStep(s).results = NewResults(s)
         /\ Len(BeamStep(s).offset) = Len(Kept(s))
         /\ \A m \in 1..Len(Kept(s)) :
              /\ BeamStep(s).offset[m] = s.offset[Kept(s)[m]]
              /\ BeamStep(s).memory[m] = s.memory[Kept(s)[m]]
              /\ BeamStep(s).topDone[m] = NewTopDone(s)[Kept(s)[m]]
              /\ \A k \in 1..call.beamSize :
                   RowFrom(BeamStep(s), Flat(m, k, call.beamSize), s,
                           Sample(s, Kept(s)[m], Active(s, Kept(s)[m], k)))
<1> DEFINE t == Continued(s)
           u == BeamStep(s)
           kept == Kept(s)
           B == call.beamSize
<1>1. /\ kept \in Seq(1..Len(s.offset))
      /\ \A i, j \in 1..Len(kept) : kept[i] = kept[j] => i = j
  BY KeptIs DEF Selects
<1>2. /\ Rows(t, B) /\ t.step = s.step + 1 /\ t.expanded /\ t.offset = s.offset
      /\ t.memory = s.memory /\ t.topDone = NewTopDone(s) /\ t.results = NewResults(s)
      /\ \A n \in 1..Len(s.offset), k \in 1..B :
           RowFrom(t, Flat(n, k, B), s, Sample(s, n, Active(s, n, k)))
  BY ContinuedIs
<1>3. u = Compact(t, kept)
  BY BeamStepIs
<1> HIDE DEF t, u, kept
<1>4. kept \in Seq(1..Len(t.offset))
  BY <1>1, <1>2
<1>5. /\ Rows(u, B) /\ u.step = t.step /\ u.expanded = t.expanded /\ u.results = t.results
      /\ Len(u.offset) = Len(kept)
      /\ \A m \in 1..Len(kept) :
           /\ u.offset[m] = t.offset[kept[m]]
           /\ u.memory[m] = t.memory[kept[m]]
           /\ u.topDone[m] = t.topDone[kept[m]]
           /\ \A k \in 1..B : SameRow(u, Flat(m, k, B), t, Flat(kept[m], k, B))
  <2>1. KeepsEntries(u, t, kept, B)
    BY <1>2, <1>3, <1>4, CompactIs
  <2> QED BY Zenon, <2>1 DEF KeepsEntries
<1>6. \A m \in 1..Len(kept), k \in 1..B :
        RowFrom(u, Flat(m, k, B), s, Sample(s, kept[m], Active(s, kept[m], k)))
  <2> SUFFICES ASSUME NEW m \in 1..Len(kept), NEW k \in 1..B
               PROVE  RowFrom(u, Flat(m, k, B), s, Sample(s, kept[m], Active(s, kept[m], k)))
    OBVIOUS
  <2>1. kept[m] \in 1..Len(s.offset)
    BY <1>1
  <2>2. RowFrom(t, Flat(kept[m], k, B), s, Sample(s, kept[m], Active(s, kept[m], k)))
    BY <1>2, <2>1
  <2>3. SameRow(u, Flat(m, k, B), t, Flat(kept[m], k, B))
    BY <1>5
  <2> QED BY <2>2, <2>3 DEF SameRow, RowFrom
<1>7. Width(u) = B
  BY <1>2, <1>5 DEF Width
<1>8. \A i, j \in 1..Len(u.offset) : u.offset[i] = u.offset[j] => i = j
  <2>1. \A i, j \in 1..Len(s.offset) : s.offset[i] = s.offset[j] => i = j
    BY DEF Sized
  <2>2. \A m \in 1..Len(kept) : kept[m] \in 1..Len(s.offset) /\ u.offset[m] = s.offset[kept[m]]
    BY <1>1, <1>2, <1>5
  <2> QED BY <1>1, <1>5, <2>1, <2>2
<1>9. u.expanded <=> ~IsGreedy /\ (u.step > 0 \/ ~ExpandAfterFirstStep)
  <2>1. s.step \in Nat
    BY DEF Sized, State
  <2> QED BY <1>2, <1>5, <2>1
<1>10. Sized(u)
  BY <1>5, <1>7, <1>8, <1>9 DEF Sized, Rows, Size
<1> QED BY <1>2, <1>5, <1>6, <1>7, <1>10 DEF u, kept, B

-----------------------------------------------------------------------------
(* The rows of a beam keep the state of their own entry. *)

LEMMA AppendHistory ==
  ASSUME CallOK, NEW e \in Entries, NEW words \in Seq(Words), NEW w \in Words
  PROVE  History(e, Append(words, w)) = Append(History(e, words), w)
<1>1. PICK start : start = SubSeq(call.prompts[e], 1, ForwardLength + 1)
  OBVIOUS
<1>2. start \in Seq(Words)
  <2>1. call.prompts[e] \in Seq(Words)
    BY CallIs
  <2>2. ForwardLength + 1 \in 1..Len(call.prompts[e])
    BY PromptIs
  <2> QED BY <1>1, <2>1, <2>2
<1>3. start \o Append(words, w) = Append(start \o words, w)
  BY ONLY <1>2, words \in Seq(Words), w \in Words
<1> QED BY <1>1, <1>3 DEF History

\* A row and the next word of it belong together.
LEMMA RowFollows ==
  ASSUME NaturalCosts, CallOK, NEW s, Sized(s), Aligned(s), NEW n \in 1..Len(s.offset),
         NEW c, SampleOK(s, n, c), NEW u, NEW r, RowFrom(u, r, s, c), u.step = s.step + 1
  PROVE  /\ RowOK(u, s.offset[n], r)
         /\ s.alive[c.origin] \in Seq(Words) /\ c.word \in Words /\ c.cost \in Nat
         /\ Len(s.alive[c.origin]) = s.step /\ s.step \in Nat
<1>1. PICK k \in 1..Width(s) : c.origin = Flat(n, k, Width(s))
  BY DEF SampleOK
<1>2. PICK o : o = c.origin
  OBVIOUS
<1>3. s.alive[o] \in Seq(Words) /\ s.offset[n] \in Entries /\ s.step \in Nat
  BY <1>1, <1>2, RowsOf
<1>4. c.word \in Words /\ c.cost \in Nat
  BY DEF SampleOK, Candidate
<1>5. Len(s.alive[o]) = s.step /\ Read(s, o) = History(s.offset[n], s.alive[o])
  BY <1>1, <1>2 DEF Aligned, RowOK
<1>6. /\ u.ids[r] = c.word /\ u.alive[r] = Append(s.alive[o], c.word) /\ u.cache[r] = Read(s, o)
  BY <1>2 DEF RowFrom
<1>7. Len(u.alive[r]) = u.step
  BY <1>3, <1>4, <1>5, <1>6
<1>8. Read(u, r) = Append(History(s.offset[n], s.alive[o]), c.word)
  BY <1>5, <1>6 DEF Read
<1>9. Read(u, r) = History(s.offset[n], u.alive[r])
  BY <1>3, <1>4, <1>6, <1>8, AppendHistory
<1> QED BY <1>2, <1>3, <1>4, <1>5, <1>7, <1>9 DEF RowOK

LEMMA BeamAligned ==
  ASSUME NaturalCosts, CallOK, ~IsGreedy, NEW s, Sized(s), Aligned(s)
  PROVE  Aligned(BeamStep(s))
<1> DEFINE u == BeamStep(s)
           kept == Kept(s)
           B == call.beamSize
<1>1. \A m \in 1..Len(kept) : kept[m] \in 1..Len(s.offset)
  <2>1. kept \in Seq(1..Len(s.offset))
    BY KeptIs DEF Selects
  <2> QED BY <2>1
<1>2. /\ Sized(u) /\ Width(u) = B /\ u.step = s.step + 1 /\ Len(u.offset) = Len(kept)
      /\ \A m \in 1..Len(kept) :
           /\ u.offset[m] = s.offset[kept[m]] /\ u.memory[m] = s.memory[kept[m]]
           /\ \A k \in 1..B : RowFrom(u, Flat(m, k, B), s, Sample(s, kept[m], Active(s, kept[m], k)))
  BY Zenon, BeamTurn
<1>3. ASSUME NEW n \in 1..Len(s.offset), NEW k \in 1..B
      PROVE  SampleOK(s, n, Sample(s, n, Active(s, n, k)))
  <2>1. Active(s, n, k) \in 1..NumCandidates
    BY ActiveIs
  <2> QED BY <2>1, BeamCandidatesAre
<1> HIDE DEF u, kept, B
<1>4. ASSUME NEW m \in 1..Len(u.offset)
      PROVE  /\ u.memory[m] = call.memories[u.offset[m]]
             /\ \A k \in 1..Width(u) : RowOK(u, u.offset[m], Flat(m, k, Width(u)))
  <2>1. m \in 1..Len(kept) /\ kept[m] \in 1..Len(s.offset)
    BY <1>1, <1>2
  <2>2. u.offset[m] = s.offset[kept[m]] /\ u.memory[m] = s.memory[kept[m]]
    BY <1>2, <2>1
  <2>3. s.memory[kept[m]] = call.memories[s.offset[kept[m]]]
    BY <2>1 DEF Aligned
  <2>4. ASSUME NEW k \in 1..B
        PROVE  RowOK(u, u.offset[m], Flat(m, k, B))
    <3>1. RowFrom(u, Flat(m, k, B), s, Sample(s, kept[m], Active(s, kept[m], k)))
      BY <1>2, <2>1
    <3>2. SampleOK(s, kept[m], Sample(s, kept[m], Active(s, kept[m], k)))
      BY <1>3, <2>1
    <3> QED BY <1>2, <2>1, <2>2, <3>1, <3>2, RowFollows
  <2> QED BY <1>2, <2>2, <2>3, <2>4
<1>5. Aligned(u)
  BY Zenon, <1>4 DEF Aligned
<1> QED BY <1>5 DEF u

-----------------------------------------------------------------------------
(* The cost of a sequence of words, word by word. *)

LEMMA HistoryType ==
  ASSUME CallOK, NEW e \in Entries, NEW words \in Seq(Words)
  PROVE  History(e, words) \in Seq(Words)
<1>1. call.prompts[e] \in Seq(Words) /\ ForwardLength + 1 \in 1..Len(call.prompts[e])
  BY CallIs, PromptIs
<1>2. SubSeq(call.prompts[e], 1, ForwardLength + 1) \in Seq(Words)
  BY <1>1
<1> QED BY <1>2 DEF History

LEMMA NextCostType ==
  ASSUME NaturalCosts, CallOK, NEW e \in Entries, NEW words \in Seq(Words), NEW w \in Words
  PROVE  NextCost(e, words, w) \in Nat
<1>1. Cost(call.memories[e], History(e, words), w) \in Nat /\ call.repetition \in Nat
  BY HistoryType, CallIs DEF NaturalCosts
<1>2. NextCost(e, words, w) \in {Uniform, Disabled,
        Cost(call.memories[e], History(e, words), w) + call.repetition,
        Cost(call.memories[e], History(e, words), w) + 0}
  BY DEF NextCost
<1> QED BY <1>1, <1>2 DEF Uniform, Disabled

\* The costs of the words of a sequence, and where those after the prefix are.
WordCosts(e, words) ==
  [t \in 1..Len(words) |-> NextCost(e, SubSeq(words, 1, t - 1), words[t])]
AfterPrefix(e, words) == (Len(Prefix(e)) + 1)..Len(words)

LEMMA PathCostIs ==
  ASSUME CallOK, NEW e \in Entries, NEW words \in Seq(Words)
  PROVE  PathCost(e, words) = SumOver(WordCosts(e, words), AfterPrefix(e, words))
<1> DEFINE weight == WordCosts(e, words)
           set == AfterPrefix(e, words)
           First(s) == CHOOSE x \in s : TRUE
           cost(t) == NextCost(e, SubSeq(words, 1, t - 1), words[t])
           L(s, f) == IF s = {} THEN 0 ELSE cost(First(s)) + f[s \ {First(s)}]
           R(s, f) == IF s = {} THEN 0 ELSE weight[First(s)] + f[s \ {First(s)}]
<1>1. set \subseteq 1..Len(words)
  BY PromptIs DEF AfterPrefix
<1>2. \A t \in set : weight[t] = cost(t)
  BY <1>1 DEF WordCosts
<1>3. ASSUME NEW s \in SUBSET set, NEW f PROVE L(s, f) = R(s, f)
  <2>1. CASE s = {}
    BY <2>1
  <2>2. CASE s # {}
    <3>1. First(s) \in set
      BY <2>2
    <3> HIDE DEF First, cost, weight, set
    <3> QED BY <1>2, <2>2, <3>1
  <2> QED BY <2>1, <2>2
<1>4. ASSUME NEW f
      PROVE  f = [s \in SUBSET set |-> L(s, f)] <=> f = [s \in SUBSET set |-> R(s, f)]
  <2>1. [s \in SUBSET set |-> L(s, f)] = [s \in SUBSET set |-> R(s, f)]
    <3> HIDE DEF L, R, set
    <3> QED BY <1>3
  <2> QED BY <2>1
<1>5. (CHOOSE f : f = [s \in SUBSET set |-> L(s, f)]) = (CHOOSE f : f = [s \in SUBSET set |-> R(s, f)])
  <2> DEFINE P(f) == f = [s \in SUBSET set |-> L(s, f)]
             Q(f) == f = [s \in SUBSET set |-> R(s, f)]
  <2>1. \A f : P(f) <=> Q(f)
    <3> HIDE DEF L, R
    <3> QED BY <1>4
  <2> HIDE DEF P, Q
  <2>2. (CHOOSE f : P(f)) = (CHOOSE f : Q(f))
    BY <2>1
  <2> QED BY <2>2 DEF P, Q
<1>6. PathCost(e, words) = (CHOOSE f : f = [s \in SUBSET set |-> L(s, f)])[set]
  BY DEF PathCost, MapThenSumSet, MapThenFoldSet, AfterPrefix
<1>7. SumOver(weight, set) = (CHOOSE f : f = [s \in SUBSET set |-> R(s, f)])[set]
  BY DEF SumOver, SumsUp
<1> HIDE DEF L, R, weight, set
<1> QED BY <1>5, <1>6, <1>7 DEF weight, set

\* Within the prefix a word costs nothing.
LEMMA PathCostNone ==
  ASSUME CallOK, NEW e \in Entries, NEW words \in Seq(Words), Len(words) <= Len(Prefix(e))
  PROVE  PathCost(e, words) = 0
<1>1. Len(words) \in Nat /\ Len(Prefix(e)) \in Nat
  BY PromptIs
<1>2. AfterPrefix(e, words) = {}
  BY <1>1 DEF AfterPrefix
<1> QED BY <1>2, PathCostIs, SumOverNone

\* After it, one more word adds its own cost.
LEMMA PathCostMore ==
  ASSUME NaturalCosts, CallOK, NEW e \in Entries, NEW words \in Seq(Words), NEW w \in Words,
         Len(words) >= Len(Prefix(e))
  PROVE  /\ PathCost(e, Append(words, w)) = PathCost(e, words) + NextCost(e, words, w)
         /\ PathCost(e, words) \in Nat /\ NextCost(e, words, w) \in Nat
<1> DEFINE more == Append(words, w)
           n == Len(words) + 1
           weight == WordCosts(e, words)
           heavy == WordCosts(e, more)
           set == AfterPrefix(e, words)
<1>1. Len(words) \in Nat /\ Len(Prefix(e)) \in Nat
  BY PromptIs
<1>2. /\ more \in Seq(Words) /\ Len(more) = n /\ more[n] = w /\ SubSeq(more, 1, n - 1) = words
      /\ \A t \in 1..Len(words) : more[t] = words[t] /\ SubSeq(more, 1, t - 1) = SubSeq(words, 1, t - 1)
  <2>1. more \in Seq(Words) /\ Len(more) = n /\ more[n] = w
    OBVIOUS
  <2>2. \A t \in 1..Len(words) : more[t] = words[t]
    OBVIOUS
  <2>3. ASSUME NEW j \in 0..Len(words)
        PROVE  SubSeq(more, 1, j) = SubSeq(words, 1, j)
    OBVIOUS
  <2>4. SubSeq(words, 1, Len(words)) = words
    OBVIOUS
  <2>5. n - 1 = Len(words) /\ \A t \in 1..Len(words) : t - 1 \in 0..Len(words)
    BY <1>1
  <2> HIDE DEF more, n
  <2> QED BY <1>1, <2>1, <2>2, <2>3, <2>4, <2>5
<1>3. IsFiniteSet(set) /\ n \notin set /\ set \subseteq 1..Len(words)
      /\ AfterPrefix(e, more) = set \cup {n}
  <2>1. set \in SUBSET (1..Len(words))
    BY <1>1 DEF AfterPrefix
  <2>2. 1 \in Nat /\ Len(words) \in Nat
    BY <1>1
  <2>3. IsFiniteSet(set)
    BY <2>1, <2>2, FinitePositions
  <2>4. AfterPrefix(e, more) = (Len(Prefix(e)) + 1)..n
    BY <1>2 DEF AfterPrefix
  <2>5. set = (Len(Prefix(e)) + 1)..Len(words)
    BY DEF AfterPrefix
  <2> HIDE DEF more, set
  <2> QED BY <1>1, <2>1, <2>3, <2>4, <2>5
<1> HIDE DEF more, set
<1>4. \A t \in 1..Len(words) : weight[t] = NextCost(e, SubSeq(words, 1, t - 1), words[t])
  BY DEF WordCosts
<1>5. \A t \in 1..n : heavy[t] = NextCost(e, SubSeq(more, 1, t - 1), more[t])
  <2> HIDE DEF n
  <2> QED BY <1>2 DEF WordCosts
<1> HIDE DEF n, weight, heavy
<1>6. ASSUME NEW t \in 1..Len(words)
      PROVE  weight[t] = heavy[t] /\ weight[t] \in Nat
  <2>1. t \in 1..n
    BY <1>1 DEF n
  <2>2. weight[t] = heavy[t]
    BY <1>2, <1>4, <1>5, <2>1
  <2>3. SubSeq(words, 1, t - 1) \in Seq(Words) /\ words[t] \in Words
    BY <1>1
  <2> QED BY <1>4, <2>2, <2>3, NextCostType
<1>7. heavy[n] = NextCost(e, words, w) /\ NextCost(e, words, w) \in Nat
  <2>1. n \in 1..n
    BY <1>1 DEF n
  <2> QED BY <1>2, <1>5, <2>1, NextCostType
<1>8. \A t \in set : weight[t] = heavy[t] /\ weight[t] \in Nat
  BY <1>3, <1>6
<1>9. /\ SumOver(heavy, set \cup {n}) = heavy[n] + SumOver(weight, set)
      /\ SumOver(weight, set) \in Nat
  BY <1>3, <1>7, <1>8, SumOverMore
<1>10. PathCost(e, words) = SumOver(weight, set)
  BY PathCostIs DEF weight, set
<1>11. PathCost(e, more) = SumOver(heavy, set \cup {n})
  BY <1>2, <1>3, PathCostIs DEF heavy
<1> QED BY <1>7, <1>9, <1>10, <1>11 DEF more

-----------------------------------------------------------------------------
(* What the logits processors disable is what the options forbid. *)

\* A banned sequence ends with the rest of it before its last word.
LEMMA BannedIs ==
  ASSUME NEW banned \in Seq(Words) \ {<<>>}, NEW words \in Seq(Words), NEW w \in Words
  PROVE  IsSuffix(banned, Append(words, w)) <=> IsSuffix(Front(banned), words) /\ w = Last(banned)
<1> DEFINE front == Front(banned)
           more == Append(words, w)
           m == Len(banned)
           n == Len(words)
<1>1. m \in Nat \ {0} /\ n \in Nat
  OBVIOUS
<1>2. /\ front \in Seq(Words) /\ Len(front) = m - 1
      /\ \A i \in 1..(m - 1) : front[i] = banned[i]
  <2>1. PICK b \in Seq(Words) : b = banned
    OBVIOUS
  <2>2. PICK j \in Nat : j = m - 1
    BY <1>1
  <2>3. j <= Len(b)
    BY <1>1, <2>1, <2>2
  <2>4. /\ SubSeq(b, 1, j) \in Seq(Words) /\ Len(SubSeq(b, 1, j)) = j
        /\ \A i \in 1..j : SubSeq(b, 1, j)[i] = b[i]
    BY ONLY <2>3, b \in Seq(Words), j \in Nat
  <2>5. front = SubSeq(b, 1, j)
    BY <2>1, <2>2 DEF Front
  <2> QED BY <2>1, <2>2, <2>4, <2>5
<1>3. /\ more \in Seq(Words) /\ Len(more) = n + 1 /\ more[n + 1] = w
      /\ \A i \in 1..n : more[i] = words[i]
  OBVIOUS
<1>4. IsSuffix(banned, more) <=>
        m <= n + 1 /\ \A i \in 0..(m - 1) : banned[m - i] = more[n + 1 - i]
  <2>1. IsSuffix(banned, more) <=>
          /\ Len(banned) <= Len(more)
          /\ \A i \in 0..(Len(banned) - 1) : banned[Len(banned) - i] = more[Len(more) - i]
    <3>1. banned \in Seq(Words) /\ more \in Seq(Words)
      BY <1>3
    <3> HIDE DEF more
    <3> QED BY ONLY <3>1, SuffixElements
  <2> HIDE DEF more
  <2> QED BY <1>3, <2>1
<1>5. IsSuffix(front, words) <=>
        m - 1 <= n /\ \A i \in 0..(m - 2) : front[m - 1 - i] = words[n - i]
  <2>1. IsSuffix(front, words) <=>
          /\ Len(front) <= Len(words)
          /\ \A i \in 0..(Len(front) - 1) : front[Len(front) - i] = words[Len(words) - i]
    <3>1. front \in Seq(Words) /\ words \in Seq(Words)
      BY <1>2
    <3> HIDE DEF front
    <3> QED BY ONLY <3>1, SuffixElements
  <2>2. (m - 1) - 1 = m - 2
    BY <1>1
  <2> HIDE DEF front
  <2> QED BY <1>2, <2>1, <2>2
<1>6. Last(banned) = banned[m]
  BY DEF Last
<1> HIDE DEF front, more, m, n
<1>7. ASSUME m <= n + 1
      PROVE  (\A i \in 0..(m - 1) : banned[m - i] = more[n + 1 - i]) <=>
               (\A i \in 0..(m - 2) : front[m - 1 - i] = words[n - i]) /\ w = banned[m]
  <2>1. \A i \in 0..(m - 2) : front[m - 1 - i] = banned[m - (i + 1)] /\ words[n - i] = more[n + 1 - (i + 1)]
    <3> SUFFICES ASSUME NEW i \in 0..(m - 2)
                 PROVE  front[m - 1 - i] = banned[m - (i + 1)] /\ words[n - i] = more[n + 1 - (i + 1)]
      OBVIOUS
    <3>1. m - 1 - i \in 1..(m - 1) /\ n - i \in 1..n /\ m - 1 - i = m - (i + 1) /\ n - i = n + 1 - (i + 1)
      BY <1>1, <1>7
    <3> QED BY <1>2, <1>3, <3>1
  <2>2. ASSUME \A i \in 0..(m - 1) : banned[m - i] = more[n + 1 - i]
        PROVE  (\A i \in 0..(m - 2) : front[m - 1 - i] = words[n - i]) /\ w = banned[m]
    <3>1. \A i \in 0..(m - 2) : i + 1 \in 0..(m - 1)
      BY <1>1
    <3>2. \A i \in 0..(m - 2) : front[m - 1 - i] = words[n - i]
      BY <2>1, <2>2, <3>1
    <3>3. 0 \in 0..(m - 1) /\ m - 0 = m /\ n + 1 - 0 = n + 1
      BY <1>1
    <3> QED BY <1>3, <2>2, <3>2, <3>3
  <2>3. ASSUME \A i \in 0..(m - 2) : front[m - 1 - i] = words[n - i], w = banned[m], NEW i \in 0..(m - 1)
        PROVE  banned[m - i] = more[n + 1 - i]
    <3>1. CASE i = 0
      <4>1. m - i = m /\ n + 1 - i = n + 1
        BY <1>1, <3>1
      <4> QED BY <1>3, <2>3, <4>1
    <3>2. CASE i # 0
      <4>1. i - 1 \in 0..(m - 2) /\ (i - 1) + 1 = i
        BY <1>1, <3>2
      <4> QED BY <2>1, <2>3, <4>1
    <3> QED BY <3>1, <3>2
  <2> QED BY <2>2, <2>3
<1>8. m <= n + 1 <=> m - 1 <= n
  BY <1>1
<1> QED BY <1>4, <1>5, <1>6, <1>7, <1>8 DEF front, more

\* An n-gram is repeated by its last word.
LEMMA NgramIs ==
  ASSUME CallOK, NEW words \in Seq(Words), NEW w \in Words
  PROVE  w \in NgramFinals(words) <=>
           /\ call.noRepeatNgram > 0
           /\ \E i \in call.noRepeatNgram..Len(words) :
                SubSeq(words, i - call.noRepeatNgram + 1, i)
                  = Append(SubSeq(words, Len(words) - call.noRepeatNgram + 2, Len(words)), w)
<1> DEFINE n == call.noRepeatNgram
           m == Len(words)
           rest == SubSeq(words, m - n + 2, m)
           starts == {i \in 1..(m - n + 1) : SubSeq(words, i, i + n - 2) = rest}
<1>1. n \in Nat /\ m \in Nat
  BY CallIs
<1>2. w \in NgramFinals(words) <=> n # 0 /\ \E i \in starts : w = words[i + n - 1]
  BY DEF NgramFinals
<1>3. ASSUME n # 0, NEW i \in n..m
      PROVE  /\ i - n + 1 \in 1..(m - n + 1) /\ (i - n + 1) + n - 2 = i - 1 /\ (i - n + 1) + n - 1 = i
             /\ SubSeq(words, i - n + 1, i) = Append(rest, w) <=>
                  SubSeq(words, i - n + 1, i - 1) = rest /\ words[i] = w
  <2>1. i - n + 1 \in 1..(m - n + 1) /\ (i - n + 1) + n - 2 = i - 1 /\ (i - n + 1) + n - 1 = i
    BY <1>1, <1>3
  <2> DEFINE a == i - n + 1
  <2>2. a \in Nat \ {0} /\ i \in Nat \ {0} /\ a <= i /\ i <= m
    BY <1>1, <1>3
  <2>3. rest \in Seq(Words)
    <3>1. m - n + 2 \in Nat \ {0}
      BY <1>1, <1>3
    <3> QED BY <1>1, <3>1
  <2> HIDE DEF n, m, rest, a
  <2>4. m = Len(words)
    BY DEF m
  <2>5. SubSeq(words, a, i - 1) \in Seq(Words) /\ words[i] \in Words
    BY <1>1, <2>2, <2>4
  <2>6. SubSeq(words, a, i) = Append(SubSeq(words, a, i - 1), words[i])
    BY <1>1, <2>2, <2>4
  <2>7. \A s, t \in Seq(Words) : \A x, y \in Words : Append(s, x) = Append(t, y) <=> s = t /\ x = y
    OBVIOUS
  <2>8. SubSeq(words, a, i) = Append(rest, w) <=> SubSeq(words, a, i - 1) = rest /\ words[i] = w
    <3>1. PICK s \in Seq(Words), x \in Words : s = SubSeq(words, a, i - 1) /\ x = words[i]
      BY <2>5
    <3>2. Append(s, x) = Append(rest, w) <=> s = rest /\ x = w
      BY <2>3, <2>7
    <3> QED BY ONLY <2>6, <3>1, <3>2
  <2> QED BY <2>1, <2>8 DEF a
<1>4. ASSUME n # 0, NEW j \in 1..(m - n + 1)
      PROVE  j + n - 1 \in n..m /\ (j + n - 1) - n + 1 = j
  BY <1>1, <1>4
<1>5. ASSUME n # 0
      PROVE  (\E i \in starts : w = words[i + n - 1]) <=>
               \E i \in n..m : SubSeq(words, i - n + 1, i) = Append(rest, w)
  <2>1. ASSUME NEW j \in starts, w = words[j + n - 1]
        PROVE  \E i \in n..m : SubSeq(words, i - n + 1, i) = Append(rest, w)
    <3>1. j \in 1..(m - n + 1) /\ SubSeq(words, j, j + n - 2) = rest
      OBVIOUS
    <3>2. j + n - 1 \in n..m /\ (j + n - 1) - n + 1 = j
      BY <1>4, <1>5, <3>1
    <3> HIDE DEF n, m, rest, starts
    <3> DEFINE i == j + n - 1
    <3>3. i \in n..m /\ i - n + 1 = j
      BY <3>2
    <3>4. (i - n + 1) + n - 2 = i - 1
      BY <1>3, <1>5, <3>3
    <3> QED BY <1>3, <1>5, <2>1, <3>1, <3>3, <3>4
  <2>2. ASSUME NEW i \in n..m, SubSeq(words, i - n + 1, i) = Append(rest, w)
        PROVE  \E j \in starts : w = words[j + n - 1]
    <3> DEFINE j == i - n + 1
    <3>1. j \in 1..(m - n + 1) /\ SubSeq(words, j, j + n - 2) = rest /\ words[j + n - 1] = w
      <4> HIDE DEF n, m, rest
      <4> QED BY <1>3, <1>5, <2>2
    <3>2. j \in starts
      BY <3>1
    <3> QED BY <3>1, <3>2
  <2> QED BY <2>1, <2>2
<1>6. n > 0 <=> n # 0
  BY <1>1
<1> HIDE DEF starts
<1> QED BY <1>2, <1>5, <1>6

\* apply_min_length takes the rows of the entries that are too short, unless it is
\* misplaced.
LEMMA MinLengthIs ==
  ASSUME CallOK, ~MinLengthMisplaced, NEW s, Sized(s),
         NEW n \in 1..Len(s.offset), NEW k \in 1..Width(s), s.step >= Len(Prefix(s.offset[n]))
  PROVE  Flat(n, k, Width(s)) \in MinLengthRows(s) <=>
           (IF ReturnPrefix THEN s.step + 1 ELSE s.step + 1 - Len(Prefix(s.offset[n]))) <= call.minLength
<1> DEFINE e == s.offset[n]
           p == Len(Prefix(e))
<1>1. PICK r : r = Flat(n, k, Width(s))
  OBVIOUS
<1>2. e \in Entries /\ s.step \in Nat /\ r \in 1..Size(s)
  BY <1>1, RowsOf
<1>3. p \in Nat /\ \A f \in Entries : Len(Prefix(f)) \in Nat
  BY <1>2, PromptIs
<1>4. call.minLength \in Nat
  BY CallIs
<1>5. s.offset \in Seq(Entries) /\ s.cache \in Seq(Seq(Words)) /\ Len(s.cache) = Size(s)
  BY DEF Sized, State
<1>6. DOMAIN s.cache = 1..Size(s) /\ DOMAIN s.offset = 1..Len(s.offset)
  BY <1>5
<1> HIDE DEF e, p
<1>7. CASE ~MinLengthByEntry
  <2>1. r \in MinLengthRows(s) <=> s.step < call.minLength
    BY <1>2, <1>6, <1>7 DEF MinLengthRows
  <2>2. ReturnPrefix \/ p = 0
    <3>1. SUFFICES ASSUME ~ReturnPrefix PROVE p = 0
      OBVIOUS
    <3>2. Prefix(e) = <<>>
      BY <1>2, <1>7, <3>1 DEF MinLengthByEntry, HasPrefix
    <3> QED BY <3>2 DEF p
  <2>3. s.step < call.minLength <=> s.step + 1 <= call.minLength
    BY <1>2, <1>4
  <2>4. p = 0 => s.step + 1 - p = s.step + 1
    BY <1>2
  <2> QED BY <1>1, <2>1, <2>2, <2>3, <2>4 DEF p, e
<1>8. CASE MinLengthByEntry /\ IsGreedy
  <2>1. Width(s) = 1
    BY <1>8 DEF Sized, Width
  <2>2. k = 1 /\ n \in Nat
    BY <2>1
  <2>3. r = n /\ r \in DOMAIN s.offset
    BY <1>1, <1>6, <2>1, <2>2 DEF Flat
  <2>4. r \in MinLengthRows(s) <=> s.step < p + call.minLength
    BY <1>8, <2>3 DEF MinLengthRows, p, e
  <2>5. ~ReturnPrefix
    BY <1>8 DEF MinLengthByEntry
  <2>6. s.step < p + call.minLength <=> s.step + 1 - p <= call.minLength
    BY <1>2, <1>3, <1>4
  <2> QED BY <1>1, <2>4, <2>5, <2>6 DEF p, e
<1>9. CASE MinLengthByEntry /\ ~IsGreedy
  <2>1. ExpandAfterFirstStep /\ \A f \in Entries : ~(Len(Prefix(f)) + call.minLength > 1)
    BY <1>9 DEF MinLengthMisplaced
  <2>2. ~ReturnPrefix
    BY <1>9 DEF MinLengthByEntry
  <2>3. r \in MinLengthRows(s) <=>
          r \in DOMAIN s.offset /\ s.step < Len(Prefix(s.offset[r])) + call.minLength
    BY <1>9 DEF MinLengthRows
  <2>4. p + call.minLength <= 1
    BY <1>2, <1>3, <1>4, <2>1 DEF p
  <2>5. CASE s.step = 0
    <3>1. Width(s) = 1
      BY <2>1, <2>5 DEF Sized, Width
    <3>2. r = n /\ r \in DOMAIN s.offset
      <4>1. k = 1 /\ n \in Nat
        BY <3>1
      <4> QED BY <1>1, <1>6, <3>1, <4>1 DEF Flat
    <3>3. r \in MinLengthRows(s) <=> 0 < p + call.minLength
      BY <2>3, <2>5, <3>2 DEF p, e
    <3>4. p = 0
      BY <1>3, <2>5 DEF p, e
    <3> QED BY <1>1, <1>4, <2>2, <2>5, <3>3, <3>4 DEF p, e
  <2>6. CASE s.step # 0
    <3>1. r \notin MinLengthRows(s)
      <4>1. SUFFICES ASSUME r \in DOMAIN s.offset PROVE ~(s.step < Len(Prefix(s.offset[r])) + call.minLength)
        BY <2>3
      <4>2. s.offset[r] \in Entries
        BY <1>5, <4>1
      <4>3. Len(Prefix(s.offset[r])) \in Nat /\ ~(Len(Prefix(s.offset[r])) + call.minLength > 1)
        BY <1>3, <2>1, <4>2
      <4> QED BY <1>2, <1>4, <2>6, <4>3
    <3>2. ~(s.step + 1 - p <= call.minLength)
      BY SMTT(20), <1>2, <1>3, <1>4, <2>4, <2>6
    <3> QED BY <1>1, <2>2, <3>1, <3>2 DEF p, e
  <2> QED BY <2>5, <2>6
<1> QED BY <1>7, <1>8, <1>9

LEMMA DisabledIs ==
  ASSUME CallOK, ~MinLengthMisplaced, NEW s, Sized(s), Aligned(s),
         NEW n \in 1..Len(s.offset), NEW k \in 1..Width(s), s.step >= Len(Prefix(s.offset[n]))
  PROVE  DisabledWords(s, Flat(n, k, Width(s)))
           = Forbidden(s.offset[n], s.alive[Flat(n, k, Width(s))])
<1> DEFINE e == s.offset[n]
           p == Len(Prefix(e))
<1>1. PICK r : r = Flat(n, k, Width(s))
  OBVIOUS
<1>2. PICK words \in Seq(Words) : words = s.alive[r]
  BY <1>1, RowsOf
<1>3. EntryOf(r, Width(s)) = n /\ s.step \in Nat /\ e \in Entries
  BY <1>1, RowsOf
<1>4. Len(words) = s.step
  BY <1>1, <1>2 DEF Aligned, RowOK
<1>5. p \in Nat
  BY <1>3, PromptIs
<1> DEFINE free == Len(words) + 1 - p
           tooShort == (IF ReturnPrefix THEN Len(words) + 1 ELSE free) <= call.minLength
           repeats(w) ==
             \E i \in call.noRepeatNgram..Len(words) :
               SubSeq(words, i - call.noRepeatNgram + 1, i)
                 = Append(SubSeq(words, Len(words) - call.noRepeatNgram + 2, Len(words)), w)
           banned(w) == \E b \in call.bannedSequences : IsSuffix(b, Append(words, w))
<1>6. Forbidden(e, words) =
        {w \in Words :
           \/ w \in call.suppressed
           \/ free = 1 /\ w \in call.suppressedBegin
           \/ tooShort /\ w \in call.endIds
           \/ call.noRepeatNgram > 0 /\ repeats(w)
           \/ banned(w)}
  BY DEF Forbidden
<1>7. r \in MinLengthRows(s) <=> tooShort
  BY <1>1, <1>4, MinLengthIs
<1>8. BeginWords(s, r) = IF free = 1 THEN call.suppressedBegin ELSE {}
  <2>1. s.step = p <=> free = 1
    BY <1>3, <1>4, <1>5
  <2>2. BeginWords(s, r) = IF s.step = p THEN call.suppressedBegin ELSE {}
    BY <1>3 DEF BeginWords
  <2> HIDE DEF free, p
  <2> QED BY <2>1, <2>2
<1>9. ASSUME NEW w \in Words
      PROVE  w \in NgramFinals(words) <=> call.noRepeatNgram > 0 /\ repeats(w)
  BY NgramIs
<1>10. ASSUME NEW w \in Words
       PROVE  w \in SequenceFinals(words) <=> banned(w)
  <2>1. w \in SequenceFinals(words) <=>
          \E b \in call.bannedSequences : IsSuffix(Front(b), words) /\ w = Last(b)
    BY DEF SequenceFinals
  <2>2. \A b \in call.bannedSequences : b \in Seq(Words) \ {<<>>}
    BY CallIs
  <2>3. \A b \in call.bannedSequences :
          IsSuffix(b, Append(words, w)) <=> IsSuffix(Front(b), words) /\ w = Last(b)
    BY <2>2, BannedIs
  <2> QED BY <2>1, <2>3
<1>11. NgramFinals(words) \subseteq Words /\ SequenceFinals(words) \subseteq Words
  <2>1. ASSUME NEW b \in call.bannedSequences PROVE Last(b) \in Words
    <3>1. b \in Seq(Words) \ {<<>>}
      BY CallIs
    <3> QED BY <3>1 DEF Last
  <2>2. SequenceFinals(words) \subseteq Words
    BY <2>1 DEF SequenceFinals
  <2>3. ASSUME call.noRepeatNgram # 0, NEW i \in 1..(Len(words) - call.noRepeatNgram + 1)
        PROVE  words[i + call.noRepeatNgram - 1] \in Words
    <3>1. call.noRepeatNgram \in Nat
      BY CallIs
    <3>2. i + call.noRepeatNgram - 1 \in 1..Len(words)
      BY SMTT(20), <2>3, <3>1
    <3> QED BY <3>2
  <2>4. NgramFinals(words) \subseteq Words
    BY <2>3 DEF NgramFinals
  <2> QED BY <2>2, <2>4
<1>12. DisabledWords(s, r) =
         UNION {IF tooShort THEN call.endIds ELSE {}, call.suppressed,
                IF free = 1 THEN call.suppressedBegin ELSE {}, NgramFinals(words),
                SequenceFinals(words)}
  <2> HIDE DEF tooShort, free
  <2> QED BY <1>2, <1>7, <1>8 DEF DisabledWords
<1>13. call.endIds \subseteq Words /\ call.suppressed \subseteq Words /\ call.suppressedBegin \subseteq Words
  BY CallIs
<1> DEFINE first == free = 1
<1>14. DisabledWords(s, r) = Forbidden(e, words)
  <2>1. ASSUME NEW w \in Words
        PROVE  w \in DisabledWords(s, r) <=> w \in Forbidden(e, words)
    <3>1. w \in DisabledWords(s, r) <=>
            \/ tooShort /\ w \in call.endIds
            \/ w \in call.suppressed
            \/ first /\ w \in call.suppressedBegin
            \/ w \in NgramFinals(words)
            \/ w \in SequenceFinals(words)
      <4> HIDE DEF tooShort, free
      <4> QED BY <1>12
    <3>2. w \in Forbidden(e, words) <=>
            \/ w \in call.suppressed
            \/ first /\ w \in call.suppressedBegin
            \/ tooShort /\ w \in call.endIds
            \/ call.noRepeatNgram > 0 /\ repeats(w)
            \/ banned(w)
      <4> HIDE DEF tooShort, free, repeats, banned
      <4> QED BY <1>6
    <3> HIDE DEF tooShort, first, repeats, banned
    <3> QED BY <1>9, <1>10, <3>1, <3>2
  <2>2. DisabledWords(s, r) \subseteq Words
    <3> HIDE DEF tooShort, free
    <3> QED BY <1>11, <1>12, <1>13
  <2>3. Forbidden(e, words) \subseteq Words
    <3> HIDE DEF tooShort, free, repeats, banned
    <3> QED BY <1>6
  <2> HIDE DEF e
  <2> QED BY <2>1, <2>2, <2>3
<1> QED BY <1>1, <1>2, <1>14

-----------------------------------------------------------------------------
(* The score of a row is the cost of its words. *)

ScoreOK(s, e, r) == s.scores[r] >= Penalised \/ s.scores[r] = PathCost(e, s.alive[r])
ScoresOK(s) ==
  \A n \in 1..Len(s.offset), k \in 1..Width(s) : ScoreOK(s, s.offset[n], Flat(n, k, Width(s)))

LEMMA WordCostIs ==
  ASSUME CallOK, ~MinLengthMisplaced, NEW s, Sized(s), Aligned(s),
         NEW n \in 1..Len(s.offset), NEW k \in 1..Width(s), s.step >= Len(Prefix(s.offset[n])),
         NEW w
  PROVE  WordCost(s, Flat(n, k, Width(s)), w)
           = NextCost(s.offset[n], s.alive[Flat(n, k, Width(s))], w)
<1>1. PICK r : r = Flat(n, k, Width(s))
  OBVIOUS
<1>2. DisabledWords(s, r) = Forbidden(s.offset[n], s.alive[r])
  BY <1>1, DisabledIs
<1>3. EntryOf(r, Width(s)) = n
  BY <1>1, RowsOf
<1>4. s.memory[n] = call.memories[s.offset[n]] /\ Read(s, r) = History(s.offset[n], s.alive[r])
  BY <1>1 DEF Aligned, RowOK
<1>5. WordCost(s, r, w) = NextCost(s.offset[n], s.alive[r], w)
  BY Zenon, <1>2, <1>3, <1>4 DEF WordCost, NextCost
<1> QED BY <1>1, <1>5

LEMMA ScoreFollows ==
  ASSUME NaturalCosts, CallOK, ~IsGreedy, ~MinLengthMisplaced,
         NEW s, Sized(s), Aligned(s), ScoresOK(s), NEW n \in 1..Len(s.offset),
         NEW c, SampleOK(s, n, c), NEW u, NEW r, RowFrom(u, r, s, c), u.step = s.step + 1
  PROVE  ScoreOK(u, s.offset[n], r)
<1> DEFINE e == s.offset[n]
<1>1. PICK k \in 1..Width(s) : c.origin = Flat(n, k, Width(s))
  BY DEF SampleOK
<1>2. PICK o : o = c.origin
  OBVIOUS
<1>3. PICK words : words = s.alive[o]
  OBVIOUS
<1>4. /\ words \in Seq(Words) /\ c.word \in Words /\ c.cost \in Nat
      /\ Len(words) = s.step /\ s.step \in Nat
  BY <1>2, <1>3, RowFollows
<1>5. e \in Entries /\ s.scores[o] \in Nat
  BY <1>1, <1>2, RowsOf
<1>6. u.scores[r] = c.cost /\ u.alive[r] = Append(words, c.word)
  BY <1>2, <1>3 DEF RowFrom
<1>7. Len(Prefix(e)) \in Nat
  BY <1>5, PromptIs
<1> HIDE DEF e
<1>8. CASE c.cost >= Penalised
  BY <1>6, <1>8 DEF ScoreOK, e
<1>9. CASE c.cost = 0 /\ s.step < Len(Prefix(e))
  <2>1. Append(words, c.word) \in Seq(Words) /\ Len(Append(words, c.word)) <= Len(Prefix(e))
    BY <1>4, <1>7, <1>9
  <2>2. PathCost(e, Append(words, c.word)) = 0
    BY <1>5, <2>1, PathCostNone
  <2> QED BY <1>6, <1>9, <2>2 DEF ScoreOK, e
<1>10. CASE /\ s.step >= Len(Prefix(e)) /\ c.cost < Penalised
            /\ c.cost = Plus(s.scores[o], WordCost(s, o, c.word))
  <2>1. WordCost(s, o, c.word) = NextCost(e, words, c.word)
    BY <1>1, <1>2, <1>3, <1>10, WordCostIs DEF e
  <2>2. /\ PathCost(e, Append(words, c.word)) = PathCost(e, words) + NextCost(e, words, c.word)
        /\ PathCost(e, words) \in Nat /\ NextCost(e, words, c.word) \in Nat
    BY <1>4, <1>5, <1>10, PathCostMore
  <2>3. s.scores[o] < Penalised /\ c.cost = s.scores[o] + NextCost(e, words, c.word)
    <3>1. PICK a \in Nat, b \in Nat : a = s.scores[o] /\ b = NextCost(e, words, c.word)
      BY <1>5, <2>2
    <3>2. c.cost = Plus(a, b) /\ Plus(a, b) < Penalised
      BY <1>10, <2>1, <3>1
    <3>3. a < Penalised /\ Plus(a, b) = a + b
      BY ONLY <3>2, PlusIs, a \in Nat, b \in Nat
    <3> QED BY <3>1, <3>2, <3>3
  <2>4. ScoreOK(s, e, o)
    BY <1>1, <1>2 DEF ScoresOK, e
  <2>5. s.scores[o] = PathCost(e, words)
    BY <1>3, <1>5, <2>3, <2>4 DEF ScoreOK, Penalised
  <2> QED BY <1>6, <2>2, <2>3, <2>5 DEF ScoreOK, e
<1>11. \/ c.cost >= Penalised
       \/ c.cost = 0 /\ s.step < Len(Prefix(e))
       \/ s.step >= Len(Prefix(e)) /\ c.cost = Plus(s.scores[o], WordCost(s, o, c.word))
  BY <1>2 DEF SampleOK, e
<1>12. c.cost < Penalised \/ c.cost >= Penalised
  BY <1>4 DEF Penalised
<1> QED BY <1>8, <1>9, <1>10, <1>11, <1>12

LEMMA BeamScores ==
  ASSUME NaturalCosts, CallOK, ~IsGreedy, ~MinLengthMisplaced,
         NEW s, Sized(s), Aligned(s), ScoresOK(s)
  PROVE  ScoresOK(BeamStep(s))
<1> DEFINE u == BeamStep(s)
           kept == Kept(s)
           B == call.beamSize
<1>1. \A m \in 1..Len(kept) : kept[m] \in 1..Len(s.offset)
  <2>1. kept \in Seq(1..Len(s.offset))
    BY KeptIs DEF Selects
  <2> QED BY <2>1
<1>2. /\ Width(u) = B /\ u.step = s.step + 1 /\ Len(u.offset) = Len(kept)
      /\ \A m \in 1..Len(kept) :
           /\ u.offset[m] = s.offset[kept[m]]
           /\ \A k \in 1..B : RowFrom(u, Flat(m, k, B), s, Sample(s, kept[m], Active(s, kept[m], k)))
  BY Zenon, BeamTurn
<1>3. ASSUME NEW n \in 1..Len(s.offset), NEW k \in 1..B
      PROVE  SampleOK(s, n, Sample(s, n, Active(s, n, k)))
  <2>1. Active(s, n, k) \in 1..NumCandidates
    BY ActiveIs
  <2> QED BY <2>1, BeamCandidatesAre
<1> HIDE DEF u, kept, B
<1>4. ASSUME NEW m \in 1..Len(u.offset), NEW k \in 1..B
      PROVE  ScoreOK(u, u.offset[m], Flat(m, k, B))
  <2>1. m \in 1..Len(kept) /\ kept[m] \in 1..Len(s.offset)
    BY <1>1, <1>2
  <2>2. u.offset[m] = s.offset[kept[m]]
    BY <1>2, <2>1
  <2>3. RowFrom(u, Flat(m, k, B), s, Sample(s, kept[m], Active(s, kept[m], k)))
    BY <1>2, <2>1
  <2>4. SampleOK(s, kept[m], Sample(s, kept[m], Active(s, kept[m], k)))
    BY <1>3, <2>1
  <2> QED BY <1>2, <2>1, <2>2, <2>3, <2>4, ScoreFollows
<1>5. ScoresOK(u)
  BY Zenon, <1>2, <1>4 DEF ScoresOK
<1> QED BY <1>5 DEF u

-----------------------------------------------------------------------------
(* The start of a search. *)

LEMMA SearchStateIs ==
  ASSUME CallOK, NEW offset \in Seq(Entries)
  PROVE  /\ Rows(SearchState(offset), 1)
         /\ SearchState(offset).step = 0 /\ ~SearchState(offset).expanded
         /\ SearchState(offset).offset = offset
         /\ \A n \in 1..Len(offset) :
              /\ SearchState(offset).memory[n] = call.memories[offset[n]]
              /\ SearchState(offset).scores[n] = 0 /\ SearchState(offset).alive[n] = <<>>
              /\ Read(SearchState(offset), n) = History(offset[n], <<>>)
<1>0. PICK N \in Nat : N = Len(offset)
  OBVIOUS
<1> DEFINE s == SearchState(offset)
           ids == [n \in 1..N |-> StartWord(offset[n])]
           cache == [n \in 1..N |-> SubSeq(call.prompts[offset[n]], 1, ForwardLength)]
           memory == [n \in 1..N |-> call.memories[offset[n]]]
           results == [e \in Entries |-> <<>>]
<1>1. N \in Nat /\ DOMAIN offset = 1..N /\ \A n \in 1..N : offset[n] \in Entries
  BY <1>0
<1>2. s = [step |-> 0, expanded |-> FALSE, ids |-> ids, scores |-> [n \in 1..N |-> 0],
           alive |-> [n \in 1..N |-> <<>>], cache |-> cache, memory |-> memory, offset |-> offset,
           topDone |-> [n \in 1..N |-> FALSE], results |-> results]
  BY <1>1 DEF SearchState
<1> HIDE DEF s, results
<1>3. ASSUME NEW n \in 1..N
      PROVE  /\ StartWord(offset[n]) \in Words /\ call.memories[offset[n]] \in Nat
             /\ SubSeq(call.prompts[offset[n]], 1, ForwardLength) \in Seq(Words)
             /\ Append(SubSeq(call.prompts[offset[n]], 1, ForwardLength), StartWord(offset[n]))
                  = History(offset[n], <<>>)
  <2>1. PICK e \in Entries : e = offset[n]
    BY <1>1
  <2>2. PICK p \in Seq(Words) : p = call.prompts[e]
    BY CallIs
  <2>3. ForwardLength \in Nat /\ ForwardLength + 1 \in 1..Len(p) /\ StartWord(e) \in Words
    BY <2>2, PromptIs
  <2>4. PICK f \in Nat : f = ForwardLength /\ f + 1 <= Len(p)
    BY <2>3
  <2>5. StartWord(e) = p[f + 1]
    BY <2>2, <2>4 DEF StartWord
  <2>6. SubSeq(p, 1, f) \in Seq(Words)
    BY <2>4
  <2>7. Append(SubSeq(p, 1, f), p[f + 1]) = SubSeq(p, 1, f + 1)
    BY <2>4
  <2>8. SubSeq(p, 1, f + 1) \o <<>> = SubSeq(p, 1, f + 1)
    <3>1. SubSeq(p, 1, f + 1) \in Seq(Words)
      BY <2>4
    <3> QED BY <3>1
  <2>9. call.memories[e] \in Nat
    BY CallIs
  <2>10. Append(SubSeq(call.prompts[e], 1, ForwardLength), StartWord(e)) = History(e, <<>>)
    BY <2>2, <2>4, <2>5, <2>7, <2>8 DEF History
  <2>11. SubSeq(call.prompts[e], 1, ForwardLength) \in Seq(Words)
    BY <2>2, <2>4, <2>6
  <2> QED BY <2>1, <2>3, <2>9, <2>10, <2>11
<1>4. /\ ids \in Seq(Words) /\ Len(ids) = N /\ cache \in Seq(Seq(Words)) /\ Len(cache) = N
      /\ memory \in Seq(Nat) /\ Len(memory) = N
  <2>1. ids \in Seq(Words) /\ Len(ids) = N
    BY <1>1, <1>3
  <2>2. cache \in Seq(Seq(Words)) /\ Len(cache) = N
    BY <1>1, <1>3
  <2>3. memory \in Seq(Nat) /\ Len(memory) = N
    BY <1>1, <1>3
  <2> QED BY <2>1, <2>2, <2>3
<1>5. /\ [n \in 1..N |-> 0] \in Seq(Nat) /\ Len([n \in 1..N |-> 0]) = N
      /\ [n \in 1..N |-> <<>>] \in Seq(Seq(Words)) /\ Len([n \in 1..N |-> <<>>]) = N
      /\ [n \in 1..N |-> FALSE] \in Seq(BOOLEAN) /\ Len([n \in 1..N |-> FALSE]) = N
  <2>1. <<>> \in Seq(Words)
    OBVIOUS
  <2>2. [n \in 1..N |-> <<>>] \in Seq(Seq(Words)) /\ Len([n \in 1..N |-> <<>>]) = N
    BY <1>1, <2>1
  <2>3. [n \in 1..N |-> 0] \in Seq(Nat) /\ Len([n \in 1..N |-> 0]) = N
    BY <1>1
  <2>4. [n \in 1..N |-> FALSE] \in Seq(BOOLEAN) /\ Len([n \in 1..N |-> FALSE]) = N
    BY <1>1
  <2> QED BY <2>2, <2>3, <2>4
<1>6. ASSUME NEW n \in 1..N
      PROVE  /\ s.memory[n] = call.memories[offset[n]] /\ s.scores[n] = 0 /\ s.alive[n] = <<>>
             /\ Read(s, n) = History(offset[n], <<>>)
  BY <1>2, <1>3 DEF Read
<1> HIDE DEF ids, cache, memory
<1>7. State(s)
  <2>1. 0 \in Nat /\ FALSE \in BOOLEAN
    OBVIOUS
  <2> QED BY <1>2, <1>4, <1>5, <2>1 DEF State
<1>8. Rows(s, 1)
  <2>1. N * 1 = N /\ s.offset = offset /\ Len(offset) = N
    BY <1>0, <1>2
  <2>2. Len(s.ids) = N /\ Len(s.scores) = N /\ Len(s.alive) = N /\ Len(s.cache) = N
        /\ Len(s.memory) = N /\ Len(s.topDone) = N
    BY <1>2, <1>4, <1>5
  <2> QED BY <1>7, <2>1, <2>2 DEF Rows
<1>9. s.step = 0 /\ ~s.expanded /\ s.offset = offset
  BY <1>2
<1> QED BY <1>0, <1>6, <1>8, <1>9 DEF s

\* A batch with each row repeated.
LEMMA RepeatBatchIs ==
  ASSUME NEW S, NEW data \in Seq(S), NEW size \in Nat
  PROVE  /\ RepeatBatch(data, size) \in Seq(S) /\ Len(RepeatBatch(data, size)) = Len(data) * size
         /\ \A n \in 1..Len(data), k \in 1..size : RepeatBatch(data, size)[Flat(n, k, size)] = data[n]
<1> DEFINE N == Len(data)
           rows == RepeatBatch(data, size)
<1>1. N \in Nat /\ N * size \in Nat
  OBVIOUS
<1>2. rows = [r \in 1..(N * size) |-> data[EntryOf(r, size)]]
  BY DEF RepeatBatch
<1>3. ASSUME NEW r \in 1..(N * size)
      PROVE  data[EntryOf(r, size)] \in S
  <2>1. EntryOf(r, size) \in 1..N
    BY <1>1, FlatCover
  <2> QED BY <2>1
<1> HIDE DEF rows
<1>4. rows \in Seq(S) /\ Len(rows) = N * size
  BY <1>1, <1>2, <1>3
<1>5. ASSUME NEW n \in 1..N, NEW k \in 1..size
      PROVE  rows[Flat(n, k, size)] = data[n]
  <2>1. Flat(n, k, size) \in 1..(N * size)
    BY <1>1, FlatRange
  <2>2. EntryOf(Flat(n, k, size), size) = n
    BY <1>1, FlatBack
  <2> QED BY <1>2, <2>1, <2>2
<1> QED BY <1>4, <1>5 DEF rows

\* A batch of entries, each at most once.
Batch(offset) ==
  /\ offset \in Seq(Entries)
  /\ \A m, n \in 1..Len(offset) : offset[m] = offset[n] => m = n

LEMMA BeamStartIs ==
  ASSUME CallOK, ~IsGreedy, NEW offset, Batch(offset)
  PROVE  /\ Sized(BeamStart(offset)) /\ Aligned(BeamStart(offset)) /\ ScoresOK(BeamStart(offset))
         /\ BeamStart(offset).offset = offset
<1> DEFINE s == SearchState(offset)
           u == BeamStart(offset)
           B == call.beamSize
           N == Len(offset)
<1>1. /\ Rows(s, 1) /\ s.step = 0 /\ ~s.expanded /\ s.offset = offset
      /\ \A n \in 1..N : /\ s.memory[n] = call.memories[offset[n]]
                         /\ s.scores[n] = 0 /\ s.alive[n] = <<>>
                         /\ Read(s, n) = History(offset[n], <<>>)
  BY SearchStateIs DEF Batch
<1>2. offset \in Seq(Entries) /\ \A m, n \in 1..N : offset[m] = offset[n] => m = n
  BY DEF Batch
<1>3. B \in Nat \ {0} /\ N \in Nat
  BY <1>2, CallIs
\* An empty sequence of words costs nothing.
<1>4. \A n \in 1..N : PathCost(offset[n], <<>>) = 0
  <2> SUFFICES ASSUME NEW n \in 1..N PROVE PathCost(offset[n], <<>>) = 0
    OBVIOUS
  <2>1. PICK e \in Entries : e = offset[n]
    BY <1>2
  <2>2. Len(Prefix(e)) \in Nat /\ <<>> \in Seq(Words) /\ Len(<<>>) = 0
    BY PromptIs
  <2>3. Len(<<>>) <= Len(Prefix(e))
    BY <2>2
  <2> QED BY <2>1, <2>2, <2>3, PathCostNone
<1>5. CASE ExpandAfterFirstStep
  <2>1. u = s
    BY <1>5 DEF BeamStart
  <2> HIDE DEF s, u
  <2>2. Width(s) = 1
    BY <1>1 DEF Width
  <2>3. Sized(s)
    BY <1>1, <1>2, <1>5, <2>2 DEF Sized, Rows, Size
  <2>4. \A n \in 1..N, k \in 1..1 : Flat(n, k, 1) = n
    BY DEF Flat
  <2>5. \A n \in 1..N : RowOK(s, offset[n], n) /\ ScoreOK(s, offset[n], n)
    <3>1. \A n \in 1..N : Len(s.alive[n]) = s.step
      BY <1>1
    <3> QED BY <1>1, <1>4, <3>1 DEF RowOK, ScoreOK
  <2>6. Aligned(s) /\ ScoresOK(s)
    BY <1>1, <2>2, <2>4, <2>5 DEF Aligned, ScoresOK
  <2> QED BY <1>1, <2>1, <2>3, <2>6 DEF u
<1>6. CASE ~ExpandAfterFirstStep
  <2> DEFINE ids == RepeatBatch(s.ids, B)
             alive == RepeatBatch(s.alive, B)
             cache == RepeatBatch(s.cache, B)
             scores == [r \in 1..(Len(s.scores) * B) |-> IF RowOf(r, B) = 1 THEN 0 ELSE Disabled]
  <2>1. u = [s EXCEPT !.expanded = TRUE, !.ids = ids, !.alive = alive, !.cache = cache,
                      !.scores = scores]
    BY <1>6 DEF BeamStart
  <2> HIDE DEF s, u
  <2>2. s = [step |-> s.step, expanded |-> s.expanded, ids |-> s.ids, scores |-> s.scores,
             alive |-> s.alive, cache |-> s.cache, memory |-> s.memory, offset |-> s.offset,
             topDone |-> s.topDone, results |-> s.results]
    BY <1>1 DEF Rows, State
  <2> HIDE DEF ids, alive, cache, scores
  <2>3. u = [step |-> s.step, expanded |-> TRUE, ids |-> ids, scores |-> scores,
             alive |-> alive, cache |-> cache, memory |-> s.memory, offset |-> s.offset,
             topDone |-> s.topDone, results |-> s.results]
    BY ONLY <2>1, <2>2, RepeatedUpdate
  <2>4. /\ s.ids \in Seq(Words) /\ s.alive \in Seq(Seq(Words)) /\ s.cache \in Seq(Seq(Words))
        /\ s.memory \in Seq(Nat) /\ s.topDone \in Seq(BOOLEAN)
        /\ Len(s.ids) = N /\ Len(s.alive) = N /\ Len(s.cache) = N /\ Len(s.scores) = N
        /\ Len(s.memory) = N /\ Len(s.topDone) = N
    <3>1. N * 1 = N
      BY <1>3
    <3> QED BY <1>1, <3>1 DEF Rows, State
  <2> HIDE DEF N, B
  <2>5. /\ ids \in Seq(Words) /\ Len(ids) = N * B
        /\ \A n \in 1..N, k \in 1..B : ids[Flat(n, k, B)] = s.ids[n]
    <3>1. s.ids \in Seq(Words) /\ B \in Nat /\ Len(s.ids) = N
      BY <1>3, <2>4
    <3> QED BY ONLY <3>1, RepeatBatchIs DEF ids
  <2>6. /\ alive \in Seq(Seq(Words)) /\ Len(alive) = N * B
        /\ \A n \in 1..N, k \in 1..B : alive[Flat(n, k, B)] = s.alive[n]
    <3>1. s.alive \in Seq(Seq(Words)) /\ B \in Nat /\ Len(s.alive) = N
      BY <1>3, <2>4
    <3> QED BY ONLY <3>1, RepeatBatchIs DEF alive
  <2>7. /\ cache \in Seq(Seq(Words)) /\ Len(cache) = N * B
        /\ \A n \in 1..N, k \in 1..B : cache[Flat(n, k, B)] = s.cache[n]
    <3>1. s.cache \in Seq(Seq(Words)) /\ B \in Nat /\ Len(s.cache) = N
      BY <1>3, <2>4
    <3> QED BY ONLY <3>1, RepeatBatchIs DEF cache
  <2>8. N * B \in Nat
    BY <1>3
  <2>9. /\ scores \in Seq(Nat) /\ Len(scores) = N * B
        /\ \A r \in 1..(N * B) : scores[r] = 0 \/ scores[r] = Disabled
    <3>1. scores = [r \in 1..(N * B) |-> IF RowOf(r, B) = 1 THEN 0 ELSE Disabled]
      BY <2>4 DEF scores
    <3>2. Disabled \in Nat
      BY DEF Disabled
    <3> QED BY <2>8, <3>1, <3>2
  <2>10. Width(u) = B
    BY <2>3 DEF Width, B
  <2>11. /\ u.step = 0 /\ u.expanded = TRUE /\ u.ids = ids /\ u.scores = scores /\ u.alive = alive
         /\ u.cache = cache /\ u.memory = s.memory /\ u.offset = offset /\ u.topDone = s.topDone
    BY <1>1, <2>3
  <2>12. u = [step |-> u.step, expanded |-> u.expanded, ids |-> u.ids, scores |-> u.scores,
              alive |-> u.alive, cache |-> u.cache, memory |-> u.memory, offset |-> u.offset,
              topDone |-> u.topDone, results |-> u.results]
    BY ONLY <2>3
  <2>13. State(u)
    <3>1. u.step \in Nat /\ u.expanded \in BOOLEAN
      <4>1. u.step \in Nat
        BY <2>11
      <4>2. u.expanded = TRUE
        BY Zenon, <2>11
      <4>3. u.expanded \in BOOLEAN
        BY ONLY <4>2
      <4> QED BY <4>1, <4>3
    <3>2. u.ids \in Seq(Words) /\ u.scores \in Seq(Nat) /\ u.alive \in Seq(Seq(Words))
      BY Zenon, <2>5, <2>6, <2>9, <2>11
    <3>3. u.cache \in Seq(Seq(Words)) /\ u.memory \in Seq(Nat) /\ u.offset \in Seq(Entries)
          /\ u.topDone \in Seq(BOOLEAN)
      BY Zenon, <1>2, <2>4, <2>7, <2>11
    <3> QED BY Zenon, <2>12, <3>1, <3>2, <3>3 DEF State
  <2>14. Sized(u)
    <3>1. Len(offset) = N
      BY DEF N
    <3>2. u.step = 0 /\ u.expanded /\ ~IsGreedy /\ ~ExpandAfterFirstStep
      BY <1>6, <2>11
    <3> QED BY <1>2, <2>4, <2>5, <2>6, <2>7, <2>9, <2>10, <2>11, <2>13, <3>1, <3>2
            DEF Sized, Size
  <2>15. ASSUME NEW n \in 1..N, NEW k \in 1..B
         PROVE  RowOK(u, offset[n], Flat(n, k, B)) /\ ScoreOK(u, offset[n], Flat(n, k, B))
    <3>1. PICK r : r = Flat(n, k, B)
      OBVIOUS
    <3>2. r \in 1..(N * B)
      BY <1>3, <3>1, FlatRange
    <3>3. u.ids[r] = s.ids[n] /\ u.alive[r] = <<>> /\ u.cache[r] = s.cache[n]
      BY <1>1, <2>5, <2>6, <2>7, <2>11, <3>1 DEF N
    <3>4. Read(u, r) = Read(s, n) /\ Read(s, n) = History(offset[n], <<>>)
      BY <1>1, <3>3 DEF Read, N
    <3>5. RowOK(u, offset[n], r)
      BY <2>11, <3>3, <3>4 DEF RowOK
    <3>6. u.scores[r] = 0 \/ u.scores[r] >= Penalised
      BY <2>9, <2>11, <3>2 DEF Disabled, Penalised
    <3>7. ScoreOK(u, offset[n], r)
      BY <1>4, <3>3, <3>6 DEF ScoreOK, N
    <3> QED BY <3>1, <3>5, <3>7
  <2>16. Aligned(u)
    BY <1>1, <2>10, <2>11, <2>15 DEF Aligned, N
  <2>17. ScoresOK(u)
    BY <2>10, <2>11, <2>15 DEF ScoresOK, N
  <2> QED BY <2>11, <2>14, <2>16, <2>17 DEF u
<1> QED BY <1>5, <1>6

LEMMA GreedyStartIs ==
  ASSUME CallOK, IsGreedy, NEW offset, Batch(offset)
  PROVE  /\ Sized(GreedyStart(offset)) /\ Aligned(GreedyStart(offset))
         /\ GreedyStart(offset).offset = offset
<1> DEFINE s == SearchState(offset)
           N == Len(offset)
<1>1. /\ Rows(s, 1) /\ s.step = 0 /\ ~s.expanded /\ s.offset = offset
      /\ \A n \in 1..N : /\ s.memory[n] = call.memories[offset[n]]
                         /\ s.scores[n] = 0 /\ s.alive[n] = <<>>
                         /\ Read(s, n) = History(offset[n], <<>>)
  BY SearchStateIs DEF Batch
<1>2. offset \in Seq(Entries) /\ \A m, n \in 1..N : offset[m] = offset[n] => m = n
  BY DEF Batch
<1> HIDE DEF s
<1>3. Width(s) = 1
  BY <1>1 DEF Width
<1>4. Sized(s)
  BY <1>1, <1>2, <1>3 DEF Sized, Rows, Size
<1>5. \A n \in 1..N, k \in 1..1 : Flat(n, k, 1) = n
  BY <1>2 DEF Flat
<1>6. \A n \in 1..N : RowOK(s, offset[n], n)
  <2>1. \A n \in 1..N : Len(s.alive[n]) = s.step
    BY <1>1
  <2> QED BY <1>1, <2>1 DEF RowOK
<1>7. Aligned(s)
  BY <1>1, <1>3, <1>5, <1>6 DEF Aligned
<1> QED BY <1>1, <1>4, <1>7 DEF s, GreedyStart

-----------------------------------------------------------------------------
(* One turn of the loop of greedy search. *)

GreedyChoices(s, n) == {[origin |-> n, word |-> w, cost |-> WordCost(s, n, w)] : w \in Words}

\* They are candidates, one for each word.
LEMMA GreedyChoicesAre ==
  ASSUME NaturalCosts, CallOK, IsGreedy, NEW s, Sized(s), NEW n \in 1..Len(s.offset)
  PROVE  /\ Width(s) = 1 /\ n \in Nat /\ Flat(n, 1, Width(s)) = n
         /\ GreedyChoices(s, n) \in SUBSET Candidate /\ OnePerWord(GreedyChoices(s, n))
         /\ IsFiniteSet(GreedyChoices(s, n)) /\ 1 <= Cardinality(GreedyChoices(s, n))
<1> DEFINE S == GreedyChoices(s, n)
           f == [w \in Words |-> [origin |-> n, word |-> w, cost |-> WordCost(s, n, w)]]
<1>1. Width(s) = 1 /\ n \in Nat /\ Flat(n, 1, Width(s)) = n
  <2>1. s.offset \in Seq(Entries) /\ ~s.expanded
    BY DEF Sized, State
  <2> QED BY <2>1 DEF Width, Flat
<1>2. \A w \in Words : WordCost(s, n, w) \in Nat
  <2> SUFFICES ASSUME NEW w \in Words PROVE WordCost(s, n, w) \in Nat
    OBVIOUS
  <2>1. 1 \in 1..Width(s)
    BY <1>1
  <2>2. WordCost(s, Flat(n, 1, Width(s)), w) \in Nat
    BY <2>1, WordCostType
  <2> QED BY <1>1, <2>2
<1>3. S \in SUBSET Candidate /\ OnePerWord(S)
  <2>1. S \in SUBSET Candidate
    BY <1>1, <1>2 DEF Candidate, GreedyChoices
  <2> QED BY <2>1 DEF OnePerWord, GreedyChoices
<1>4. IsFiniteSet(S) /\ 1 <= Cardinality(S)
  <2>1. VocabularySize \in Nat \ {0, 1}
    BY SearchAssumption
  <2>2. IsFiniteSet(Words) /\ 0 \in Words
    <3>1. IsFiniteSet(0..(VocabularySize - 1))
      BY <2>1, FS_Interval
    <3> QED BY <2>1, <3>1 DEF Words
  <2>3. f \in Surjection(Words, S)
    BY DEF Surjection, GreedyChoices
  <2>4. IsFiniteSet(S)
    BY <2>2, <2>3, FS_Surjection
  <2>5. S # {}
    BY <2>2 DEF GreedyChoices
  <2>6. Cardinality(S) \in Nat /\ Cardinality(S) # 0
    BY <2>4, <2>5, FS_CardinalityType, FS_EmptySet
  <2> QED BY <2>4, <2>6
<1> QED BY <1>1, <1>3, <1>4

\* A word of each entry.
LEMMA GreedyWordIs ==
  ASSUME NaturalCosts, CallOK, IsGreedy, NEW s, Sized(s), NEW n \in 1..Len(s.offset)
  PROVE  GreedyWord(s, n).word \in Words
<1> DEFINE S == GreedyChoices(s, n)
<1>1. S \in SUBSET Candidate /\ OnePerWord(S) /\ IsFiniteSet(S) /\ 1 <= Cardinality(S)
  BY GreedyChoicesAre
<1> HIDE DEF S
<1>2. TopK(S, 1)[1] \in S
  <2>1. \A k \in 1..1 : TopK(S, 1)[k] \in S
    BY <1>1, TopKIs
  <2> QED BY <2>1
<1>3. PICK c \in Candidate : c = TopK(S, 1)[1]
  BY <1>1, <1>2
<1>4. GreedyWord(s, n) = WithPrefix(s, n, 1, c)
  BY <1>3 DEF GreedyWord, GreedyChoices, S
<1>5. c.word \in Words
  BY DEF Candidate
<1>6. PICK prefix : prefix = Prefix(s.offset[n])
  OBVIOUS
<1>7. s.step \in Nat /\ prefix \in Seq(Words) /\ Len(prefix) \in Nat
  <2>1. s.step \in Nat /\ s.offset[n] \in Entries
    BY DEF Sized, State
  <2> QED BY <1>6, <2>1, PromptIs
<1>8. CASE s.step < Len(prefix)
  <2>1. WithPrefix(s, n, 1, c).word = prefix[s.step + 1]
    BY <1>6, <1>8 DEF WithPrefix
  <2>2. prefix[s.step + 1] \in Words
    BY <1>7, <1>8
  <2> QED BY <1>4, <2>1, <2>2
<1>9. CASE ~(s.step < Len(prefix))
  <2>1. WithPrefix(s, n, 1, c) = c
    BY <1>6, <1>9 DEF WithPrefix
  <2> QED BY <1>4, <1>5, <2>1
<1> QED BY <1>8, <1>9

\* The parts of a turn.
GreedySamples(s) == [n \in DOMAIN s.offset |-> GreedyWord(s, n)]
GreedyLeaving(s) ==
  {n \in DOMAIN s.offset : \/ Ends(s, s.offset[n], GreedySamples(s)[n].word)
                           \/ IsLastStep(s, s.offset[n])
                           \/ Stopped(s, s.offset[n])}
GreedyResults(s) ==
  [e \in Entries |->
     IF {n \in DOMAIN s.offset : s.offset[n] = e} = {} THEN s.results[e]
     ELSE LET n == CHOOSE n \in {n \in DOMAIN s.offset : s.offset[n] = e} : TRUE
          IN <<Extended(s, n, GreedySamples(s)[n])>>]
GreedyContinued(s) ==
  [s EXCEPT !.step = @ + 1,
            !.ids = [n \in DOMAIN s.offset |-> GreedySamples(s)[n].word],
            !.alive = [n \in DOMAIN s.offset |-> Append(s.alive[n], GreedySamples(s)[n].word)],
            !.cache = [n \in DOMAIN s.offset |-> Read(s, n)],
            !.results = GreedyResults(s)]
GreedyKept(s) == InOrder(DOMAIN s.offset \ GreedyLeaving(s))

LEMMA GreedyStepIs ==
  ASSUME NEW s
  PROVE  GreedyStep(s) = KeepAlive(GreedyContinued(s), GreedyKept(s))
BY Zenon DEF GreedyStep, GreedyContinued, GreedyKept, GreedyLeaving, GreedySamples, GreedyResults

\* Row r gets word w: the state of row n, and that word.
WordFrom(t, r, s, n, w) ==
  t.ids[r] = w /\ t.alive[r] = Append(s.alive[n], w) /\ t.cache[r] = Read(s, n)

\* Before the entries that are finished leave.
LEMMA GreedyContinuedIs ==
  ASSUME NaturalCosts, CallOK, IsGreedy, NEW s, Sized(s)
  PROVE  /\ Rows(GreedyContinued(s), 1)
         /\ GreedyContinued(s).step = s.step + 1 /\ ~GreedyContinued(s).expanded
         /\ GreedyContinued(s).offset = s.offset /\ GreedyContinued(s).memory = s.memory
         /\ GreedyContinued(s).results = GreedyResults(s)
         /\ \A n \in 1..Len(s.offset) :
              WordFrom(GreedyContinued(s), n, s, n, GreedyWord(s, n).word)
<1> DEFINE t == GreedyContinued(s)
           N == Len(s.offset)
           word == [n \in 1..N |-> GreedyWord(s, n).word]
           ids == [n \in DOMAIN s.offset |-> GreedySamples(s)[n].word]
           alive == [n \in DOMAIN s.offset |-> Append(s.alive[n], GreedySamples(s)[n].word)]
           cache == [n \in DOMAIN s.offset |-> Read(s, n)]
<1>1. State(s) /\ N \in Nat /\ DOMAIN s.offset = 1..N /\ ~s.expanded /\ Width(s) = 1 /\ Size(s) = N
  BY DEF Sized, State, Width, Size
<1>2. \A n \in 1..N : word[n] = GreedyWord(s, n).word /\ word[n] \in Words
  <2> SUFFICES ASSUME NEW n \in 1..N PROVE word[n] = GreedyWord(s, n).word /\ word[n] \in Words
    OBVIOUS
  <2> QED BY GreedyWordIs
<1>3. /\ ids = [n \in 1..N |-> word[n]] /\ alive = [n \in 1..N |-> Append(s.alive[n], word[n])]
      /\ cache = [n \in 1..N |-> Read(s, n)]
  BY <1>1 DEF GreedySamples
<1> HIDE DEF word
<1>4. ASSUME NEW n \in 1..N
      PROVE  s.alive[n] \in Seq(Words) /\ Read(s, n) \in Seq(Words)
  <2>1. 1 \in 1..Width(s) /\ Flat(n, 1, Width(s)) = n
    BY <1>1 DEF Flat
  <2> QED BY <2>1, RowsOf
<1> HIDE DEF ids, alive, cache
<1>5. /\ t.step = s.step + 1 /\ t.expanded = s.expanded /\ t.ids = ids /\ t.scores = s.scores
      /\ t.alive = alive /\ t.cache = cache /\ t.memory = s.memory /\ t.offset = s.offset
      /\ t.topDone = s.topDone /\ t.results = GreedyResults(s)
      /\ t = [step |-> t.step, expanded |-> t.expanded, ids |-> t.ids, scores |-> t.scores,
              alive |-> t.alive, cache |-> t.cache, memory |-> t.memory, offset |-> t.offset,
              topDone |-> t.topDone, results |-> t.results]
  <2> DEFINE step == s.step + 1
             results == GreedyResults(s)
  <2>1. t = [s EXCEPT !.step = step, !.ids = ids, !.alive = alive, !.cache = cache,
                      !.results = results]
    BY DEF GreedyContinued, ids, alive, cache
  <2> HIDE DEF t, step, results
  <2>2. s = [step |-> s.step, expanded |-> s.expanded, ids |-> s.ids, scores |-> s.scores,
             alive |-> s.alive, cache |-> s.cache, memory |-> s.memory, offset |-> s.offset,
             topDone |-> s.topDone, results |-> s.results]
    BY <1>1 DEF State
  <2>3. t = [step |-> step, expanded |-> s.expanded, ids |-> ids, scores |-> s.scores,
             alive |-> alive, cache |-> cache, memory |-> s.memory, offset |-> s.offset,
             topDone |-> s.topDone, results |-> results]
    BY ONLY <2>1, <2>2, GreedyUpdate
  <2>4. /\ t.step = step /\ t.expanded = s.expanded /\ t.ids = ids /\ t.scores = s.scores
        /\ t.alive = alive /\ t.cache = cache /\ t.memory = s.memory /\ t.offset = s.offset
        /\ t.topDone = s.topDone /\ t.results = results
    BY ONLY <2>3
  <2>5. t = [step |-> t.step, expanded |-> t.expanded, ids |-> t.ids, scores |-> t.scores,
             alive |-> t.alive, cache |-> t.cache, memory |-> t.memory, offset |-> t.offset,
             topDone |-> t.topDone, results |-> t.results]
    BY ONLY <2>3, <2>4
  <2> QED BY <2>4, <2>5 DEF step, results
<1> HIDE DEF t
<1>6. /\ ids \in Seq(Words) /\ Len(ids) = N /\ alive \in Seq(Seq(Words)) /\ Len(alive) = N
      /\ cache \in Seq(Seq(Words)) /\ Len(cache) = N
  <2>1. ids \in Seq(Words) /\ Len(ids) = N
    BY <1>1, <1>2, <1>3
  <2>2. ASSUME NEW n \in 1..N PROVE Append(s.alive[n], word[n]) \in Seq(Words)
    <3>1. s.alive[n] \in Seq(Words) /\ word[n] \in Words
      BY <1>2, <1>4
    <3> QED BY ONLY <3>1
  <2>3. alive \in Seq(Seq(Words)) /\ Len(alive) = N
    BY <1>1, <1>3, <2>2
  <2>4. cache \in Seq(Seq(Words)) /\ Len(cache) = N
    BY <1>1, <1>3, <1>4
  <2> QED BY <2>1, <2>3, <2>4
<1>7. /\ s.step + 1 \in Nat /\ s.scores \in Seq(Nat) /\ s.memory \in Seq(Nat)
      /\ s.offset \in Seq(Entries) /\ s.topDone \in Seq(BOOLEAN) /\ s.expanded \in BOOLEAN
      /\ Len(s.scores) = N /\ Len(s.memory) = N /\ Len(s.topDone) = N
  BY <1>1 DEF Sized, State
<1>8. State(t)
  <2>1. t.step \in Nat /\ t.ids \in Seq(Words) /\ t.scores \in Seq(Nat) /\ t.alive \in Seq(Seq(Words))
    BY Zenon, <1>5, <1>6, <1>7
  <2>2. t.cache \in Seq(Seq(Words)) /\ t.memory \in Seq(Nat) /\ t.offset \in Seq(Entries)
        /\ t.topDone \in Seq(BOOLEAN) /\ t.expanded \in BOOLEAN
    BY Zenon, <1>5, <1>6, <1>7
  <2> QED BY Zenon, <1>5, <2>1, <2>2 DEF State
<1>9. Rows(t, 1)
  <2>1. N * 1 = N
    BY <1>1
  <2> QED BY <1>5, <1>6, <1>7, <1>8, <2>1 DEF Rows
<1>10. ASSUME NEW n \in 1..N
       PROVE  WordFrom(t, n, s, n, GreedyWord(s, n).word)
  BY <1>2, <1>3, <1>5 DEF WordFrom
<1> QED BY <1>1, <1>5, <1>9, <1>10 DEF t

\* KeepAlive keeps the given rows.
LEMMA KeepAliveIs ==
  ASSUME NEW t, Rows(t, 1), NEW kept \in Seq(1..Len(t.offset))
  PROVE  KeepsEntries(KeepAlive(t, kept), t, kept, 1)
<1> DEFINE alive == Gather(t.alive, kept)
           ids == Gather(t.ids, kept)
           scores == Gather(t.scores, kept)
           topDone == Gather(t.topDone, kept)
           cache == Gather(t.cache, kept)
           memory == Gather(t.memory, kept)
           offset == Gather(t.offset, kept)
           u == KeepAlive(t, kept)
<1>1. u = [t EXCEPT !.alive = alive, !.ids = ids, !.scores = scores, !.topDone = topDone,
                    !.cache = cache, !.memory = memory, !.offset = offset]
  BY DEF KeepAlive
<1> HIDE DEF u, alive, ids, scores, topDone, cache, memory, offset
<1>2. t = [step |-> t.step, expanded |-> t.expanded, ids |-> t.ids, scores |-> t.scores,
           alive |-> t.alive, cache |-> t.cache, memory |-> t.memory, offset |-> t.offset,
           topDone |-> t.topDone, results |-> t.results]
  BY DEF Rows, State
<1>3. u = [step |-> t.step, expanded |-> t.expanded, ids |-> ids, scores |-> scores,
           alive |-> alive, cache |-> cache, memory |-> memory, offset |-> offset,
           topDone |-> topDone, results |-> t.results]
  BY ONLY <1>1, <1>2, KeepAliveUpdate
<1>4. u = Gathered(t, kept, kept)
  BY <1>3 DEF Gathered, alive, ids, scores, topDone, cache, memory, offset
<1>5. RowsOfKept(kept, kept, Len(t.offset), 1)
  <2>1. PICK N \in Nat : N = Len(t.offset)
    BY DEF Rows, State
  <2>2. kept \in Seq(1..(N * 1)) /\ Len(kept) \in Nat /\ Len(kept) = Len(kept) * 1
    <3>1. N * 1 = N
      OBVIOUS
    <3> QED BY <2>1, <3>1
  <2>3. ASSUME NEW m \in 1..Len(kept), NEW k \in 1..1
        PROVE  kept[Flat(m, k, 1)] = Flat(kept[m], k, 1)
    <3>1. kept[m] \in Nat /\ m \in Nat /\ k = 1
      BY <2>1
    <3>2. Flat(m, k, 1) = m /\ Flat(kept[m], k, 1) = kept[m]
      BY ONLY <3>1 DEF Flat
    <3> QED BY <3>2
  <2> QED BY <2>1, <2>2, <2>3 DEF RowsOfKept
<1> QED BY <1>4, <1>5, GatheredIs DEF u

\* One turn, row by row.
LEMMA GreedyTurn ==
  ASSUME NaturalCosts, CallOK, IsGreedy, NEW s, Sized(s)
  PROVE  /\ Sized(GreedyStep(s)) /\ Width(GreedyStep(s)) = 1
         /\ GreedyStep(s).step = s.step + 1 /\ GreedyStep(s).results = GreedyResults(s)
         /\ Len(GreedyStep(s).offset) = Len(GreedyKept(s))
         /\ Selects(GreedyKept(s), Len(s.offset), GreedyLeaving(s))
         /\ \A m \in 1..Len(GreedyKept(s)) :
              /\ GreedyStep(s).offset[m] = s.offset[GreedyKept(s)[m]]
              /\ GreedyStep(s).memory[m] = s.memory[GreedyKept(s)[m]]
              /\ WordFrom(GreedyStep(s), m, s, GreedyKept(s)[m],
                          GreedyWord(s, GreedyKept(s)[m]).word)
<1> DEFINE t == GreedyContinued(s)
           u == GreedyStep(s)
           kept == GreedyKept(s)
<1>1. Selects(kept, Len(s.offset), GreedyLeaving(s))
  <2>1. Len(s.offset) \in Nat /\ DOMAIN s.offset = 1..Len(s.offset)
    BY DEF Sized, State
  <2> QED BY <2>1, SelectsStaying DEF GreedyKept
<1>2. /\ kept \in Seq(1..Len(s.offset))
      /\ \A i, j \in 1..Len(kept) : kept[i] = kept[j] => i = j
  BY <1>1 DEF Selects
<1>3. /\ Rows(t, 1) /\ t.step = s.step + 1 /\ ~t.expanded /\ t.offset = s.offset
      /\ t.memory = s.memory /\ t.results = GreedyResults(s)
      /\ \A n \in 1..Len(s.offset) : WordFrom(t, n, s, n, GreedyWord(s, n).word)
  BY GreedyContinuedIs
<1>4. u = KeepAlive(t, kept)
  BY GreedyStepIs
<1> HIDE DEF t, u, kept
<1>5. KeepsEntries(u, t, kept, 1)
  <2>1. kept \in Seq(1..Len(t.offset))
    BY <1>2, <1>3
  <2> QED BY <1>3, <1>4, <2>1, KeepAliveIs
<1>6. /\ Rows(u, 1) /\ u.step = t.step /\ u.expanded = t.expanded /\ u.results = t.results
      /\ Len(u.offset) = Len(kept)
      /\ \A m \in 1..Len(kept) :
           /\ u.offset[m] = t.offset[kept[m]]
           /\ u.memory[m] = t.memory[kept[m]]
           /\ \A k \in 1..1 : SameRow(u, Flat(m, k, 1), t, Flat(kept[m], k, 1))
  BY Zenon, <1>5 DEF KeepsEntries
<1>7. \A m \in 1..Len(kept) : WordFrom(u, m, s, kept[m], GreedyWord(s, kept[m]).word)
  <2> SUFFICES ASSUME NEW m \in 1..Len(kept)
               PROVE  WordFrom(u, m, s, kept[m], GreedyWord(s, kept[m]).word)
    OBVIOUS
  <2>1. kept[m] \in 1..Len(s.offset) /\ m \in Nat /\ kept[m] \in Nat
    BY <1>2
  <2>2. WordFrom(t, kept[m], s, kept[m], GreedyWord(s, kept[m]).word)
    BY <1>3, <2>1
  <2>3. SameRow(u, Flat(m, 1, 1), t, Flat(kept[m], 1, 1))
    BY <1>6
  <2>4. Flat(m, 1, 1) = m /\ Flat(kept[m], 1, 1) = kept[m]
    BY ONLY <2>1 DEF Flat
  <2>5. SameRow(u, m, t, kept[m])
    BY ONLY <2>3, <2>4
  <2> QED BY <2>2, <2>5 DEF SameRow, WordFrom
<1>8. Width(u) = 1
  BY <1>3, <1>6 DEF Width
<1>9. \A i, j \in 1..Len(u.offset) : u.offset[i] = u.offset[j] => i = j
  <2>1. \A i, j \in 1..Len(s.offset) : s.offset[i] = s.offset[j] => i = j
    BY DEF Sized
  <2>2. \A m \in 1..Len(kept) : kept[m] \in 1..Len(s.offset) /\ u.offset[m] = s.offset[kept[m]]
    BY <1>2, <1>3, <1>6
  <2> QED BY <1>2, <1>6, <2>1, <2>2
<1>10. Sized(u)
  BY <1>3, <1>6, <1>8, <1>9 DEF Sized, Rows, Size
<1> QED BY <1>1, <1>3, <1>6, <1>7, <1>8, <1>10 DEF u, kept

LEMMA GreedyAligned ==
  ASSUME NaturalCosts, CallOK, IsGreedy, NEW s, Sized(s), Aligned(s)
  PROVE  Aligned(GreedyStep(s))
<1> DEFINE u == GreedyStep(s)
           kept == GreedyKept(s)
<1>1. /\ Sized(u) /\ Width(u) = 1 /\ u.step = s.step + 1 /\ Len(u.offset) = Len(kept)
      /\ Selects(kept, Len(s.offset), GreedyLeaving(s))
      /\ \A m \in 1..Len(kept) :
           /\ u.offset[m] = s.offset[kept[m]] /\ u.memory[m] = s.memory[kept[m]]
           /\ WordFrom(u, m, s, kept[m], GreedyWord(s, kept[m]).word)
  BY Zenon, GreedyTurn
<1>2. \A m \in 1..Len(kept) : kept[m] \in 1..Len(s.offset)
  <2>1. kept \in Seq(1..Len(s.offset))
    BY <1>1 DEF Selects
  <2> QED BY <2>1
<1> HIDE DEF u, kept
<1>3. Width(s) = 1
  BY DEF Width, Sized
<1>4. ASSUME NEW m \in 1..Len(u.offset)
      PROVE  /\ u.memory[m] = call.memories[u.offset[m]]
             /\ \A k \in 1..Width(u) : RowOK(u, u.offset[m], Flat(m, k, Width(u)))
  <2>1. m \in 1..Len(kept) /\ kept[m] \in 1..Len(s.offset) /\ m \in Nat
    BY <1>1, <1>2
  <2>2. u.offset[m] = s.offset[kept[m]] /\ u.memory[m] = s.memory[kept[m]]
    BY <1>1, <2>1
  <2>3. PICK n \in 1..Len(s.offset) : n = kept[m]
    BY <2>1
  <2>4. PICK w \in Words : w = GreedyWord(s, n).word
    BY GreedyWordIs
  <2>5. PICK e \in Entries : e = s.offset[n]
    BY DEF Sized, State
  <2>6. Flat(n, 1, 1) = n /\ 1 \in 1..Width(s)
    BY <1>3 DEF Flat
  <2>7. s.memory[n] = call.memories[e] /\ RowOK(s, e, n)
    <3>1. RowOK(s, e, Flat(n, 1, Width(s)))
      BY <2>5, <2>6 DEF Aligned
    <3> QED BY <1>3, <2>5, <2>6, <3>1 DEF Aligned
  <2>8. s.alive[n] \in Seq(Words) /\ s.step \in Nat
    <3>1. s.alive[Flat(n, 1, Width(s))] \in Seq(Words) /\ s.step \in Nat
      BY <2>6, RowsOf
    <3> QED BY <1>3, <2>6, <3>1
  <2>9. u.ids[m] = w /\ u.alive[m] = Append(s.alive[n], w) /\ u.cache[m] = Read(s, n)
    BY <1>1, <2>1, <2>3, <2>4 DEF WordFrom
  <2>10. Len(u.alive[m]) = u.step
    BY <1>1, <2>7, <2>8, <2>9 DEF RowOK
  <2>11. Read(u, m) = Append(History(e, s.alive[n]), w)
    BY <2>7, <2>9 DEF Read, RowOK
  <2>12. Read(u, m) = History(e, u.alive[m])
    BY <2>8, <2>9, <2>11, AppendHistory
  <2>13. RowOK(u, u.offset[m], m)
    BY <2>2, <2>3, <2>5, <2>10, <2>12 DEF RowOK
  <2>14. \A k \in 1..1 : Flat(m, k, 1) = m
    BY <2>1 DEF Flat
  <2> QED BY <1>1, <2>2, <2>3, <2>5, <2>7, <2>13, <2>14
<1>5. Aligned(u)
  BY Zenon, <1>4 DEF Aligned
<1> QED BY <1>5 DEF u

-----------------------------------------------------------------------------
(* The rows of every search stay aligned. *)

\* A call keeps its reference costs.
LEMMA CostStays ==
  ASSUME UNCHANGED call
  PROVE  \A e, words : PathCost(e, words)' = PathCost(e, words)
<1> SUFFICES ASSUME NEW e, NEW words PROVE PathCost(e, words)' = PathCost(e, words)
  OBVIOUS
<1>1. Len(Prefix(e))' = Len(Prefix(e))
  BY DEF Prefix, ForwardLength, Entries
<1>2. ASSUME NEW before, NEW w
      PROVE  NextCost(e, before, w)' = NextCost(e, before, w)
  <2>1. Forbidden(e, before)' = Forbidden(e, before)
    BY DEF Prefix, ForwardLength, Entries, Forbidden, ReturnPrefix
  <2>2. History(e, before)' = History(e, before)
    BY DEF History, ForwardLength, Entries
  <2> QED BY <2>1, <2>2 DEF NextCost
<1> DEFINE set == (Len(Prefix(e)) + 1)..Len(words)
           First(s) == CHOOSE x \in s : TRUE
           L(s, f) == IF s = {} THEN 0
                      ELSE NextCost(e, SubSeq(words, 1, First(s) - 1), words[First(s)]) + f[s \ {First(s)}]
           M(s, f) == IF s = {} THEN 0
                      ELSE NextCost(e, SubSeq(words, 1, First(s) - 1), words[First(s)])' + f[s \ {First(s)}]
           P(f) == f = [s \in SUBSET set |-> L(s, f)]
           Q(f) == f = [s \in SUBSET set |-> M(s, f)]
<1>3. PathCost(e, words) = (CHOOSE f : P(f))[set]
  BY DEF PathCost, MapThenSumSet, MapThenFoldSet
<1>4. PathCost(e, words)' = (CHOOSE f : Q(f))[set]
  BY <1>1 DEF PathCost, MapThenSumSet, MapThenFoldSet
<1>5. ASSUME NEW f PROVE P(f) <=> Q(f)
  <2>1. ASSUME NEW s PROVE L(s, f) = M(s, f)
    BY <1>2
  <2> HIDE DEF L, M, set
  <2> QED BY <2>1
<1> HIDE DEF P, Q
<1>6. (CHOOSE f : P(f)) = (CHOOSE f : Q(f))
  BY <1>5
<1> QED BY <1>3, <1>4, <1>6

\* A state of the search keeps its properties into the next state.
LEMMA SearchStays ==
  ASSUME NEW u, search' = u, UNCHANGED call
  PROVE  /\ CallOK => CallOK'
         /\ Sized(u) => Sized(search)'
         /\ Aligned(u) => Aligned(search)'
         /\ ScoresOK(u) => ScoresOK(search)'
         /\ IsGreedy' = IsGreedy /\ MinLengthMisplaced' = MinLengthMisplaced
<1>0. call' = call
  OBVIOUS
<1>1. Sized(u) => Sized(search)'
  BY Zenon, <1>0 DEF Sized, State, Entries, Width, IsGreedy, ExpandAfterFirstStep, NumCandidates, Size
<1>2. \A e, words : History(e, words)' = History(e, words)
  BY DEF History, ForwardLength, Entries
<1>3. Aligned(u) => Aligned(search)'
  BY Zenon, <1>0, <1>2 DEF Aligned, Width, RowOK, Read
<1>4. ScoresOK(u) => ScoresOK(search)'
  <2>1. \A e, words : PathCost(e, words)' = PathCost(e, words)
    BY CostStays
  <2>2. \A e, r : ScoreOK(u, e, r) => ScoreOK(search, e, r)'
    BY Zenon, <1>0, <2>1 DEF ScoreOK
  <2> QED BY Zenon, <1>0, <2>2 DEF ScoresOK, Width
<1>5. CallOK => CallOK'
  BY Zenon, <1>0 DEF CallOK
<1>6. IsGreedy' = IsGreedy
  BY Zenon, <1>0 DEF IsGreedy
<1>7. MinLengthMisplaced' = MinLengthMisplaced
  <2>1. \A e : Len(Prefix(e))' = Len(Prefix(e))
     BY DEF Prefix, ForwardLength, Entries
  <2>2. MinLengthByEntry' = MinLengthByEntry
     BY DEF MinLengthByEntry, HasPrefix, ReturnPrefix, Prefix, ForwardLength, Entries
  <2> QED BY Zenon, <1>0, <2>1, <2>2, <1>6 DEF MinLengthMisplaced, ExpandAfterFirstStep, NumCandidates, Entries
<1> QED BY <1>1, <1>3, <1>4, <1>5, <1>6, <1>7

SearchInv ==
  /\ CallOK /\ Sized(search) /\ Aligned(search)
  /\ IsGreedy \/ MinLengthMisplaced \/ ScoresOK(search)

\* The rows are aligned at the start.
LEMMA SearchInit == ASSUME Init PROVE SearchInv
<1>1. CallOK
  BY DEF Init, CallOK
<1>2. Batch([e \in Entries |-> e])
  <2>1. PICK N \in Nat : N = Len(call.prompts) /\ Entries = 1..N
    BY <1>1, CallIs
  <2>2. [e \in 1..N |-> e] \in Seq(1..N) /\ Len([e \in 1..N |-> e]) = N
    OBVIOUS
  <2> QED BY <2>1, <2>2 DEF Batch
<1>3. CASE IsGreedy
  <2>1. search = GreedyStart([e \in Entries |-> e])
    BY <1>3 DEF Init, Start
  <2>2. Sized(search) /\ Aligned(search)
    BY <1>1, <1>2, <1>3, <2>1, GreedyStartIs
  <2> QED BY <1>1, <1>3, <2>2 DEF SearchInv
<1>4. CASE ~IsGreedy
  <2>1. search = BeamStart([e \in Entries |-> e])
    BY <1>4 DEF Init, Start
  <2>2. Sized(search) /\ Aligned(search) /\ ScoresOK(search)
    BY <1>1, <1>2, <1>4, <2>1, BeamStartIs
  <2> QED BY <1>1, <2>2 DEF SearchInv
<1> QED BY <1>3, <1>4

\* Every step keeps them aligned.
LEMMA SearchNext == ASSUME NaturalCosts, SearchInv, [Next]_vars PROVE SearchInv'
<1>1. CallOK /\ Sized(search) /\ Aligned(search)
  BY DEF SearchInv
<1>2. CASE GreedySearchStep
  <2>1. IsGreedy /\ search' = GreedyStep(search) /\ UNCHANGED call
    BY <1>2 DEF GreedySearchStep
  <2>2. Sized(GreedyStep(search)) /\ Aligned(GreedyStep(search))
    BY <1>1, <2>1, GreedyTurn, GreedyAligned
  <2>3. CallOK' /\ Sized(search)' /\ Aligned(search)' /\ IsGreedy'
    BY <1>1, <2>1, <2>2, SearchStays
  <2> QED BY <2>3 DEF SearchInv
<1>3. CASE BeamSearchStep
  <2>1. ~IsGreedy /\ search' = BeamStep(search) /\ UNCHANGED call
    BY <1>3 DEF BeamSearchStep
  <2>2. Sized(BeamStep(search)) /\ Aligned(BeamStep(search))
    BY <1>1, <2>1, BeamTurn, BeamAligned
  <2>3. CallOK' /\ Sized(search)' /\ Aligned(search)'
    BY <1>1, <2>1, <2>2, SearchStays
  <2>4. CASE MinLengthMisplaced
    <3>1. MinLengthMisplaced'
      BY <2>1, <2>4, SearchStays
    <3> QED BY <2>3, <3>1 DEF SearchInv
  <2>5. CASE ~MinLengthMisplaced
    <3>1. ScoresOK(search)
      BY <2>1, <2>5 DEF SearchInv
    <3>2. ScoresOK(BeamStep(search))
      BY <1>1, <2>1, <2>5, <3>1, BeamScores
    <3>3. ScoresOK(search)'
      BY <2>1, <3>2, SearchStays
    <3> QED BY <2>3, <3>3 DEF SearchInv
  <2> QED BY <2>4, <2>5
<1>4. CASE UNCHANGED vars
  <2>1. search' = search /\ UNCHANGED call
    BY <1>4 DEF vars
  <2>2. /\ CallOK' /\ Sized(search)' /\ Aligned(search)'
        /\ ScoresOK(search) => ScoresOK(search)'
        /\ IsGreedy' = IsGreedy /\ MinLengthMisplaced' = MinLengthMisplaced
    BY <1>1, <2>1, SearchStays
  <2> QED BY <2>2 DEF SearchInv
<1> QED BY <1>2, <1>3, <1>4 DEF Next

\* The invariant is the property.
LEMMA InvAligned == ASSUME SearchInv PROVE RowsAligned
<1>1. CallOK /\ Sized(search) /\ Aligned(search)
  BY DEF SearchInv
<1> SUFFICES ASSUME NEW n \in DOMAIN search.offset, NEW k \in 1..Width(search)
             PROVE  LET e == search.offset[n]
                        r == Flat(n, k, Width(search))
                        read == History(e, search.alive[r])
                    IN /\ search.memory[n] = call.memories[e]
                       /\ Append(search.cache[r], search.ids[r]) = read
                       /\ IsGreedy \/ MinLengthMisplaced \/ search.scores[r] >= Penalised
                            \/ search.scores[r] = PathCost(e, search.alive[r])
  BY DEF RowsAligned
<1>2. n \in 1..Len(search.offset)
  BY <1>1 DEF Sized, State
<1>3. search.memory[n] = call.memories[search.offset[n]]
  BY <1>1, <1>2 DEF Aligned
<1>4. RowOK(search, search.offset[n], Flat(n, k, Width(search)))
  BY <1>1, <1>2 DEF Aligned
<1>5. IsGreedy \/ MinLengthMisplaced \/ ScoreOK(search, search.offset[n], Flat(n, k, Width(search)))
  BY <1>2 DEF SearchInv, ScoresOK
<1> QED BY <1>3, <1>4, <1>5 DEF RowOK, Read, ScoreOK

\* For every decoder that returns numbers, every vocabulary and every call, after
\* every reordering of the beams and removal of finished entries each row holds
\* the decoder state, the last word and the score of one and the same sequence of
\* its own entry.
THEOREM RowsStayAligned == ASSUME NaturalCosts PROVE Spec => []RowsAligned
<1>1. Init => SearchInv
  BY SearchInit
<1>2. SearchInv /\ [Next]_vars => SearchInv'
  BY SearchNext
<1>3. SearchInv => RowsAligned
  BY InvAligned
<1> QED BY <1>1, <1>2, <1>3, PTL DEF Spec

-----------------------------------------------------------------------------
(* Candidates of an entry in a batch, and of the entry alone. *)

Shift(c, d) == [origin |-> c.origin + d, word |-> c.word, cost |-> c.cost]

\* A shift of the rows keeps the rank of every candidate.
LEMMA ShiftedRank ==
  ASSUME NEW d \in Nat, NEW S \in SUBSET Candidate, OnePerWord(S), IsFiniteSet(S),
         NEW T, T = {Shift(c, d) : c \in S}
  PROVE  /\ T \in SUBSET Candidate /\ OnePerWord(T) /\ IsFiniteSet(T)
         /\ Cardinality(T) = Cardinality(S)
         /\ \A c \in S : Rank(T, Better(T), Shift(c, d)) = Rank(S, Better(S), c)
<1>1. \A c \in S : c.origin \in Nat /\ c.word \in Words /\ c.cost \in Nat
  BY DEF Candidate
<1>2. T \in SUBSET Candidate
  BY <1>1 DEF Candidate, Shift
<1>3. ASSUME NEW b \in S, NEW c \in S
      PROVE  /\ Before(Shift(b, d), Shift(c, d)) <=> Before(b, c)
             /\ Shift(b, d) = Shift(c, d) => b = c
  <2>1. PICK m \in Nat, n \in Nat : m = b.origin /\ n = c.origin
    BY <1>1
  <2>2. PICK V \in Nat : V = VocabularySize
    BY SearchAssumption
  <2>3. (m + d) * V = m * V + d * V /\ (n + d) * V = n * V + d * V
    OBVIOUS
  <2>4. m * V \in Nat /\ n * V \in Nat /\ d * V \in Nat /\ b.word \in Nat /\ c.word \in Nat
    BY <1>1 DEF Words
  <2>5. PICK mV \in Nat, nV \in Nat, dV \in Nat : mV = m * V /\ nV = n * V /\ dV = d * V
    BY <2>4
  <2>6. /\ (m + d) * V + b.word < (n + d) * V + c.word <=> m * V + b.word < n * V + c.word
        /\ (m + d) * V + b.word > (n + d) * V + c.word <=> m * V + b.word > n * V + c.word
    <3>1. /\ (mV + dV) + b.word < (nV + dV) + c.word <=> mV + b.word < nV + c.word
          /\ (mV + dV) + b.word > (nV + dV) + c.word <=> mV + b.word > nV + c.word
      BY <2>4
    <3> QED BY ONLY <2>3, <2>5, <3>1
  <2>7. /\ Shift(b, d).origin = m + d /\ Shift(b, d).word = b.word /\ Shift(b, d).cost = b.cost
        /\ Shift(c, d).origin = n + d /\ Shift(c, d).word = c.word /\ Shift(c, d).cost = c.cost
    BY <2>1 DEF Shift
  <2>8. Before(Shift(b, d), Shift(c, d)) <=> Before(b, c)
    BY ONLY <2>1, <2>2, <2>6, <2>7 DEF Before
  <2>9. Shift(b, d) = Shift(c, d) => b.origin = c.origin /\ b.word = c.word
    BY <2>1, <2>7
  <2>10. b.origin = c.origin /\ b.word = c.word => b = c
    BY DEF OnePerWord
  <2> QED BY <2>8, <2>9, <2>10
<1>4. OnePerWord(T)
  <2> SUFFICES ASSUME NEW b \in S, NEW c \in S,
                      Shift(b, d).origin = Shift(c, d).origin, Shift(b, d).word = Shift(c, d).word
               PROVE  Shift(b, d) = Shift(c, d)
    BY DEF OnePerWord
  <2>1. b.origin = c.origin /\ b.word = c.word
    BY <1>1 DEF Shift
  <2> QED BY <2>1 DEF OnePerWord
\* Shifting is a bijection from a set of candidates.
<1>5. ASSUME NEW A \in SUBSET S
      PROVE  /\ IsFiniteSet({Shift(c, d) : c \in A})
             /\ Cardinality({Shift(c, d) : c \in A}) = Cardinality(A)
  <2> DEFINE f == [c \in A |-> Shift(c, d)]
             B == {Shift(c, d) : c \in A}
  <2>1. f \in Surjection(A, B)
    BY DEF Surjection
  <2>2. f \in Injection(A, B)
    BY <1>3 DEF Injection, IsInjective
  <2> HIDE DEF f, B
  <2>3. ExistsBijection(A, B)
    BY <2>1, <2>2 DEF ExistsBijection, Bijection
  <2>4. IsFiniteSet(A)
    BY FS_Subset
  <2>5. IsFiniteSet(B) /\ Cardinality(B) = Cardinality(A)
    BY <2>3, <2>4, FS_Bijection
  <2> QED BY <2>5 DEF B
<1>6. IsFiniteSet(T) /\ Cardinality(T) = Cardinality(S)
  BY <1>5
<1>7. /\ \A b, c \in S : <<b, c>> \in Better(S) <=> Before(b, c)
      /\ \A b, c \in T : <<b, c>> \in Better(T) <=> Before(b, c)
  BY <1>2, <1>4, BetterOrders
<1>8. ASSUME NEW c \in S
      PROVE  Rank(T, Better(T), Shift(c, d)) = Rank(S, Better(S), c)
  <2> DEFINE A == {b \in S : <<b, c>> \in Better(S)}
             B == {b \in T : <<b, Shift(c, d)>> \in Better(T)}
  <2>1. B = {Shift(b, d) : b \in A}
    <3>1. \A b \in S : <<Shift(b, d), Shift(c, d)>> \in Better(T) <=> <<b, c>> \in Better(S)
      <4> SUFFICES ASSUME NEW b \in S
                   PROVE  <<Shift(b, d), Shift(c, d)>> \in Better(T) <=> <<b, c>> \in Better(S)
        OBVIOUS
      <4>1. Shift(b, d) \in T /\ Shift(c, d) \in T
        OBVIOUS
      <4> QED BY <1>3, <1>7, <4>1
    <3> QED BY <3>1
  <2>2. A \in SUBSET S
    OBVIOUS
  <2> HIDE DEF A, B
  <2>3. Cardinality(B) = Cardinality(A)
    BY <1>5, <2>1, <2>2
  <2> QED BY <2>3 DEF Rank, A, B
<1> QED BY <1>2, <1>4, <1>6, <1>8

\* The best of shifted candidates are the best ones shifted.
LEMMA ShiftedTopK ==
  ASSUME NEW d \in Nat, NEW S \in SUBSET Candidate, OnePerWord(S), IsFiniteSet(S),
         NEW T, T = {Shift(c, d) : c \in S},
         NEW count \in Nat, count <= Cardinality(S), NEW k \in 1..count
  PROVE  TopK(S, count)[k] \in S /\ TopK(T, count)[k] = Shift(TopK(S, count)[k], d)
<1>1. /\ T \in SUBSET Candidate /\ OnePerWord(T) /\ IsFiniteSet(T)
      /\ Cardinality(T) = Cardinality(S)
      /\ \A c \in S : Rank(T, Better(T), Shift(c, d)) = Rank(S, Better(S), c)
  BY ShiftedRank
<1>2. TopK(S, count)[k] \in S /\ Rank(S, Better(S), TopK(S, count)[k]) = k
  BY TopKIs
<1>3. TopK(T, count)[k] \in T /\ Rank(T, Better(T), TopK(T, count)[k]) = k
  <2>1. T \in SUBSET Candidate /\ OnePerWord(T) /\ IsFiniteSet(T) /\ count <= Cardinality(T)
    BY <1>1
  <2>2. \A i \in 1..count : TopK(T, count)[i] \in T /\ Rank(T, Better(T), TopK(T, count)[i]) = i
    BY ONLY <2>1, count \in Nat, TopKIs
  <2> QED BY <2>2
<1>4. PICK a \in S : a = TopK(S, count)[k]
  BY <1>2
<1>5. Rank(T, Better(T), Shift(a, d)) = k /\ Shift(a, d) \in T
  BY <1>1, <1>2, <1>4
<1>6. Orders(T, Better(T))
  BY <1>1, BetterOrders
<1>7. \A x, y \in T : Rank(T, Better(T), x) = Rank(T, Better(T), y) => x = y
  BY <1>1, <1>6, Ranked
<1> QED BY <1>2, <1>3, <1>4, <1>5, <1>7

\* Row q has the words of row r of another search.
SameWords(u, q, t, r) == u.ids[q] = t.ids[r] /\ u.alive[q] = t.alive[r] /\ u.cache[q] = t.cache[r]

\* A search over one entry, and entry n of another search: they agree on it.
Like(s, n, a) ==
  /\ a.step = s.step /\ a.expanded = s.expanded
  /\ Len(a.offset) = 1 /\ a.offset[1] = s.offset[n]
  /\ a.results[s.offset[n]] = s.results[s.offset[n]]
  /\ IsGreedy \/ a.topDone[1] = s.topDone[n]
  /\ \A k \in 1..Width(s) :
       /\ SameWords(a, Flat(1, k, Width(s)), s, Flat(n, k, Width(s)))
       /\ IsGreedy \/ a.scores[Flat(1, k, Width(s))] = s.scores[Flat(n, k, Width(s))]

Pair(s, n, a) ==
  /\ Sized(s) /\ Aligned(s) /\ Sized(a) /\ Aligned(a)
  /\ n \in 1..Len(s.offset) /\ Like(s, n, a)

\* The distance between their rows.
Gap(s, n) == (n - 1) * Width(s)

LEMMA PairIs ==
  ASSUME CallOK, NEW s, NEW n, NEW a, Pair(s, n, a)
  PROVE  /\ n \in 1..Len(s.offset) /\ 1 \in 1..Len(a.offset) /\ a.offset[1] = s.offset[n]
         /\ s.offset[n] \in Entries /\ a.step = s.step /\ s.step \in Nat
         /\ Width(a) = Width(s) /\ Width(s) \in Nat \ {0} /\ Gap(s, n) \in Nat
         /\ \A k \in 1..Width(s) : /\ Flat(n, k, Width(s)) = Flat(1, k, Width(s)) + Gap(s, n)
                                   /\ Flat(1, k, Width(s)) = k
<1>1. /\ n \in 1..Len(s.offset) /\ 1 \in 1..Len(a.offset) /\ a.offset[1] = s.offset[n]
      /\ a.step = s.step /\ a.expanded = s.expanded
  BY DEF Pair, Like
<1>2. s.offset \in Seq(Entries) /\ s.step \in Nat
  BY DEF Pair, Sized, State
<1>3. s.offset[n] \in Entries /\ n \in Nat \ {0}
  BY <1>1, <1>2
<1>4. Width(a) = Width(s)
  BY <1>1 DEF Width
<1>5. PICK W \in Nat \ {0} : W = Width(s)
  BY CallIs DEF Width
<1>6. (n - 1) * W \in Nat
  BY <1>3
<1>7. \A k \in 1..W : Flat(n, k, W) = Flat(1, k, W) + (n - 1) * W /\ Flat(1, k, W) = k
  BY <1>3, <1>6 DEF Flat
<1> QED BY <1>1, <1>2, <1>3, <1>4, <1>5, <1>6, <1>7 DEF Gap

\* A word costs them the same.
LEMMA LikeCosts ==
  ASSUME CallOK, ~MinLengthMisplaced, NEW s, NEW n, NEW a, Pair(s, n, a),
         s.step >= Len(Prefix(s.offset[n])), NEW k \in 1..Width(s), NEW w
  PROVE  WordCost(s, Flat(n, k, Width(s)), w) = WordCost(a, Flat(1, k, Width(s)), w)
<1>1. /\ n \in 1..Len(s.offset) /\ 1 \in 1..Len(a.offset) /\ a.offset[1] = s.offset[n]
      /\ a.step = s.step /\ Width(a) = Width(s)
  BY PairIs
<1>2. /\ Sized(s) /\ Aligned(s) /\ Sized(a) /\ Aligned(a)
      /\ a.alive[Flat(1, k, Width(s))] = s.alive[Flat(n, k, Width(s))]
  BY DEF Pair, Like, SameWords
<1>3. WordCost(s, Flat(n, k, Width(s)), w)
        = NextCost(s.offset[n], s.alive[Flat(n, k, Width(s))], w)
  BY <1>1, <1>2, WordCostIs
<1>4. WordCost(a, Flat(1, k, Width(a)), w)
        = NextCost(a.offset[1], a.alive[Flat(1, k, Width(a))], w)
  <2>1. k \in 1..Width(a) /\ a.step >= Len(Prefix(a.offset[1]))
    BY <1>1
  <2> QED BY <1>1, <1>2, <2>1, WordCostIs
<1> QED BY <1>1, <1>2, <1>3, <1>4

\* Their candidates are the same, in other rows.
LEMMA LikeChoices ==
  ASSUME NaturalCosts, CallOK, ~IsGreedy, ~MinLengthMisplaced, NEW s, NEW n, NEW a, Pair(s, n, a),
         s.step >= Len(Prefix(s.offset[n]))
  PROVE  RowChoices(s, n) = {Shift(c, Gap(s, n)) : c \in RowChoices(a, 1)}
<1>1. PICK W \in Nat \ {0} : W = Width(s) /\ W = Width(a)
  BY PairIs
<1>2. n \in 1..Len(s.offset) /\ 1 \in 1..Len(a.offset) /\ Sized(s) /\ Sized(a)
  BY PairIs DEF Pair
<1>3. \A c : c \in RowChoices(s, n) <=> \E k \in 1..W, w \in Words : c = Choice(s, Flat(n, k, W), w)
  <2>1. \A c : c \in RowChoices(s, n) <=>
          \E k \in 1..Width(s), w \in Words : c = Choice(s, Flat(n, k, Width(s)), w)
    BY <1>2, RowChoicesAre
  <2> QED BY Zenon, <1>1, <2>1
<1>4. \A c : c \in RowChoices(a, 1) <=> \E k \in 1..W, w \in Words : c = Choice(a, Flat(1, k, W), w)
  <2>1. \A c : c \in RowChoices(a, 1) <=>
          \E k \in 1..Width(a), w \in Words : c = Choice(a, Flat(1, k, Width(a)), w)
    BY <1>2, RowChoicesAre
  <2> QED BY Zenon, <1>1, <2>1
<1>5. ASSUME NEW k \in 1..W, NEW w \in Words
      PROVE  Choice(s, Flat(n, k, W), w) = Shift(Choice(a, Flat(1, k, W), w), Gap(s, n))
  <2>1. a.scores[Flat(1, k, W)] = s.scores[Flat(n, k, W)]
    BY <1>1 DEF Pair, Like
  <2>2. WordCost(s, Flat(n, k, W), w) = WordCost(a, Flat(1, k, W), w)
    <3>1. k \in 1..Width(s)
      BY <1>1
    <3>2. WordCost(s, Flat(n, k, Width(s)), w) = WordCost(a, Flat(1, k, Width(s)), w)
      BY <3>1, LikeCosts
    <3> QED BY Zenon, <1>1, <3>2
  <2>3. Flat(n, k, W) = Flat(1, k, W) + Gap(s, n)
    BY <1>1, PairIs
  <2> QED BY <2>1, <2>2, <2>3 DEF Choice, Shift
<1> QED BY <1>3, <1>4, <1>5

\* What the prefix makes of a candidate is the same.
LEMMA LikeWithPrefix ==
  ASSUME CallOK, NEW s, NEW n, NEW a, Pair(s, n, a), NEW k, NEW b, NEW c,
         s.step < Len(Prefix(s.offset[n])) \/ b = Shift(c, Gap(s, n))
  PROVE  WithPrefix(s, n, k, b) = Shift(WithPrefix(a, 1, k, c), Gap(s, n))
<1> DEFINE prefix == Prefix(s.offset[n])
           first == Flat(n, 1, Width(s))
           firstAlone == Flat(1, 1, Width(a))
<1>1. a.offset[1] = s.offset[n] /\ a.step = s.step
  BY PairIs
<1>2. first = firstAlone + Gap(s, n)
  <2>1. 1 \in 1..Width(s)
    BY PairIs
  <2> QED BY <2>1, PairIs
<1> HIDE DEF first, firstAlone
<1>3. CASE s.step < Len(prefix)
  <2> DEFINE cost == IF k = 1 THEN 0 ELSE Penalised
  <2>1. WithPrefix(s, n, k, b) = [origin |-> first, word |-> prefix[s.step + 1], cost |-> cost]
    BY <1>3 DEF WithPrefix, first
  <2>2. WithPrefix(a, 1, k, c) = [origin |-> firstAlone, word |-> prefix[s.step + 1], cost |-> cost]
    BY <1>1, <1>3 DEF WithPrefix, firstAlone
  <2> HIDE DEF cost, prefix
  <2> QED BY <1>2, <2>1, <2>2 DEF Shift
<1>4. CASE ~(s.step < Len(prefix))
  <2>1. b = Shift(c, Gap(s, n)) /\ b.word = c.word
    BY <1>4 DEF Shift
  <2>2. CASE HasPrefix /\ s.step = Len(prefix) /\ k > 1 /\ c.word \in call.endIds
    <3>1. WithPrefix(s, n, k, b) = [origin |-> first, word |-> 0, cost |-> Penalised]
      BY <1>4, <2>1, <2>2 DEF WithPrefix, first
    <3>2. WithPrefix(a, 1, k, c) = [origin |-> firstAlone, word |-> 0, cost |-> Penalised]
      BY <1>1, <1>4, <2>2 DEF WithPrefix, firstAlone
    <3> QED BY <1>2, <3>1, <3>2 DEF Shift
  <2>3. CASE ~(HasPrefix /\ s.step = Len(prefix) /\ k > 1 /\ c.word \in call.endIds)
    <3>1. WithPrefix(s, n, k, b) = b
      BY <1>4, <2>1, <2>3 DEF WithPrefix
    <3>2. WithPrefix(a, 1, k, c) = c
      BY <1>1, <1>4, <2>3 DEF WithPrefix
    <3> QED BY <2>1, <3>1, <3>2
  <2> QED BY <2>2, <2>3
<1> QED BY <1>3, <1>4

\* Their samples are the same, in other rows.
LEMMA LikeSamples ==
  ASSUME NaturalCosts, CallOK, ~IsGreedy, ~MinLengthMisplaced, NEW s, NEW n, NEW a, Pair(s, n, a),
         NEW k \in 1..NumCandidates
  PROVE  Sample(s, n, k) = Shift(Sample(a, 1, k), Gap(s, n))
<1>1. n \in 1..Len(s.offset) /\ 1 \in 1..Len(a.offset) /\ Sized(s) /\ Sized(a) /\ s.step \in Nat
  BY PairIs DEF Pair
<1>2. CASE s.step < Len(Prefix(s.offset[n]))
  BY <1>2, LikeWithPrefix DEF Sample
<1>3. CASE s.step >= Len(Prefix(s.offset[n]))
  <2> DEFINE S == RowChoices(a, 1)
             T == RowChoices(s, n)
  <2>1. T = {Shift(c, Gap(s, n)) : c \in S} /\ Gap(s, n) \in Nat
    BY <1>3, LikeChoices, PairIs
  <2>2. S \in SUBSET Candidate /\ OnePerWord(S) /\ IsFiniteSet(S)
    BY <1>1, RowChoicesAre
  <2>3. NumCandidates \in Nat /\ NumCandidates <= Cardinality(S)
    BY <1>1, EnoughChoices
  <2> HIDE DEF S, T
  <2>4. TopK(T, NumCandidates)[k] = Shift(TopK(S, NumCandidates)[k], Gap(s, n))
    BY ONLY <2>1, <2>2, <2>3, k \in 1..NumCandidates, ShiftedTopK
  <2>5. Best(s, n)[k] = Shift(Best(a, 1)[k], Gap(s, n))
    BY <2>4 DEF Best, S, T
  <2> QED BY <2>5, LikeWithPrefix DEF Sample
<1>4. Len(Prefix(s.offset[n])) \in Nat
  BY PairIs, PromptIs
<1> QED BY <1>1, <1>2, <1>3, <1>4

\* Their candidates have the same words and costs, and come from the same beams.
LEMMA LikeCandidates ==
  ASSUME NaturalCosts, CallOK, ~IsGreedy, ~MinLengthMisplaced, NEW s, NEW n, NEW a, Pair(s, n, a),
         NEW k \in 1..NumCandidates
  PROVE  /\ BeamCandidates(s)[Flat(n, k, NumCandidates)].word
              = BeamCandidates(a)[Flat(1, k, NumCandidates)].word
         /\ BeamCandidates(s)[Flat(n, k, NumCandidates)].cost
              = BeamCandidates(a)[Flat(1, k, NumCandidates)].cost
         /\ \E j \in 1..Width(s) :
              /\ BeamCandidates(s)[Flat(n, k, NumCandidates)].origin = Flat(n, j, Width(s))
              /\ BeamCandidates(a)[Flat(1, k, NumCandidates)].origin = Flat(1, j, Width(s))
<1>1. n \in 1..Len(s.offset) /\ 1 \in 1..Len(a.offset) /\ Sized(s) /\ Sized(a)
  BY PairIs DEF Pair
<1>2. PICK b : b = BeamCandidates(s)[Flat(n, k, NumCandidates)]
  OBVIOUS
<1>3. PICK c : c = BeamCandidates(a)[Flat(1, k, NumCandidates)]
  OBVIOUS
<1>4. b = Sample(s, n, k)
  BY <1>1, <1>2, BeamCandidatesAre
<1>5. c = Sample(a, 1, k) /\ SampleOK(a, 1, c)
  BY <1>1, <1>3, BeamCandidatesAre
<1>6. b = Shift(c, Gap(s, n))
  BY <1>4, <1>5, LikeSamples
<1>7. b.word = c.word /\ b.cost = c.cost /\ b.origin = c.origin + Gap(s, n)
  BY <1>6 DEF Shift
<1>8. PICK j \in 1..Width(a) : c.origin = Flat(1, j, Width(a))
  BY <1>5 DEF SampleOK
<1>9. j \in 1..Width(s) /\ c.origin = Flat(1, j, Width(s))
  BY <1>8, PairIs
<1>10. b.origin = Flat(n, j, Width(s))
  BY <1>7, <1>9, PairIs
<1> QED BY <1>2, <1>3, <1>7, <1>9, <1>10

\* The same beams finish, and the same candidates go on.
LEMMA LikeBeams ==
  ASSUME NaturalCosts, CallOK, ~IsGreedy, ~MinLengthMisplaced, NEW s, NEW n, NEW a, Pair(s, n, a)
  PROVE  /\ FinishedBeams(s, n, BeamCandidates(s)) = FinishedBeams(a, 1, BeamCandidates(a))
         /\ \A k \in 1..call.beamSize : Active(s, n, k) = Active(a, 1, k)
<1> DEFINE e == s.offset[n]
           bs == BeamCandidates(s)
           ba == BeamCandidates(a)
<1>1. a.offset[1] = e /\ a.step = s.step
  BY PairIs
<1>2. \A k \in 1..NumCandidates :
        bs[Flat(n, k, NumCandidates)].word = ba[Flat(1, k, NumCandidates)].word
  BY LikeCandidates
<1>3. call.beamSize \in Nat /\ NumCandidates = 2 * call.beamSize
  BY CallIs DEF NumCandidates
<1>4. 1..call.beamSize \subseteq 1..NumCandidates
      /\ (call.beamSize + 1)..NumCandidates \subseteq 1..NumCandidates
  BY <1>3
<1>5. /\ \A w : Ends(s, e, w) <=> Ends(a, e, w)
      /\ IsLastStep(s, e) <=> IsLastStep(a, e)
  BY <1>1 DEF Ends, IsLastStep
<1> HIDE DEF bs, ba
<1>6. FinishedBeams(s, n, bs) = FinishedBeams(a, 1, ba)
  <2>1. FinishedBeams(s, n, bs)
          = {k \in 1..call.beamSize : Ends(s, e, bs[Flat(n, k, NumCandidates)].word) \/ IsLastStep(s, e)}
    BY DEF FinishedBeams
  <2>2. FinishedBeams(a, 1, ba)
          = {k \in 1..call.beamSize : Ends(a, e, ba[Flat(1, k, NumCandidates)].word) \/ IsLastStep(a, e)}
    BY <1>1 DEF FinishedBeams
  <2> HIDE DEF e
  <2> QED BY <1>2, <1>4, <1>5, <2>1, <2>2
<1> DEFINE finished == FinishedBeams(s, n, bs)
           others(n0, cands) ==
             {j \in (call.beamSize + 1)..NumCandidates :
                cands[Flat(n0, j, NumCandidates)].word \notin call.endIds}
<1>7. others(n, bs) = others(1, ba)
  BY <1>2, <1>4
<1>8. ASSUME NEW k \in 1..call.beamSize
      PROVE  ActiveCandidate(s, n, k, bs) = ActiveCandidate(a, 1, k, ba)
  <2> DEFINE position == Cardinality({j \in finished : j <= k})
             result(spare) == IF k \in finished /\ position <= Len(spare) THEN spare[position] ELSE k
  <2>1. ActiveCandidate(s, n, k, bs) = result(InOrder(others(n, bs)))
    BY DEF ActiveCandidate
  <2>2. ActiveCandidate(a, 1, k, ba) = result(InOrder(others(1, ba)))
    BY <1>6 DEF ActiveCandidate
  <2> HIDE DEF result, others
  <2> QED BY <1>7, <2>1, <2>2
<1> QED BY <1>6, <1>8 DEF Active, bs, ba

\* They register the same hypotheses, and are finished at the same time.
LEMMA LikeResults ==
  ASSUME NaturalCosts, CallOK, ~IsGreedy, ~MinLengthMisplaced, NEW s, NEW n, NEW a, Pair(s, n, a)
  PROVE  /\ NewTopDone(s)[n] = NewTopDone(a)[1]
         /\ n \in Leaving(s) <=> 1 \in Leaving(a)
         /\ NewResults(s)[s.offset[n]] = NewResults(a)[s.offset[n]]
<1> DEFINE e == s.offset[n]
           bs == BeamCandidates(s)
           ba == BeamCandidates(a)
           as == NewAlive(s)
           aa == NewAlive(a)
<1>1. /\ a.offset[1] = e /\ e \in Entries /\ a.step = s.step
      /\ n \in 1..Len(s.offset) /\ 1 \in 1..Len(a.offset)
  BY PairIs
<1>2. /\ DOMAIN s.offset = 1..Len(s.offset) /\ DOMAIN a.offset = 1..Len(a.offset)
      /\ Len(s.offset) \in Nat /\ Len(a.offset) = 1
  BY DEF Pair, Like, Sized, State
<1>3. /\ FinishedBeams(s, n, bs) = FinishedBeams(a, 1, ba)
      /\ FinishedBeams(s, n, bs) \subseteq 1..call.beamSize
  BY LikeBeams DEF FinishedBeams
<1>4. NumCandidates \in Nat /\ NumCandidates = 2 * call.beamSize /\ call.beamSize \in Nat
  BY CallIs DEF NumCandidates
<1>5. /\ Len(bs) = Len(s.offset) * NumCandidates /\ bs \in Seq(Candidate)
      /\ Len(ba) = Len(a.offset) * NumCandidates /\ ba \in Seq(Candidate)
  BY BeamCandidatesAre DEF Pair
<1>6. ASSUME NEW k \in 1..call.beamSize
      PROVE  /\ bs[Flat(n, k, NumCandidates)].word = ba[Flat(1, k, NumCandidates)].word
             /\ bs[Flat(n, k, NumCandidates)].cost = ba[Flat(1, k, NumCandidates)].cost
             /\ as[Flat(n, k, NumCandidates)] = aa[Flat(1, k, NumCandidates)]
  <2>1. k \in 1..NumCandidates
    BY <1>4
  <2>2. PICK p : p = Flat(n, k, NumCandidates)
    OBVIOUS
  <2>3. PICK q : q = Flat(1, k, NumCandidates)
    OBVIOUS
  <2>4. /\ bs[p].word = ba[q].word /\ bs[p].cost = ba[q].cost
        /\ \E j \in 1..Width(s) : /\ bs[p].origin = Flat(n, j, Width(s))
                                  /\ ba[q].origin = Flat(1, j, Width(s))
    BY <2>1, <2>2, <2>3, LikeCandidates
  <2>5. PICK j \in 1..Width(s) : bs[p].origin = Flat(n, j, Width(s)) /\ ba[q].origin = Flat(1, j, Width(s))
    BY <2>4
  <2>6. s.alive[Flat(n, j, Width(s))] = a.alive[Flat(1, j, Width(s))]
    BY DEF Pair, Like, SameWords
  <2>7. p \in 1..Len(bs) /\ q \in 1..Len(ba)
    BY <1>1, <1>2, <1>4, <1>5, <2>1, <2>2, <2>3, FlatRange
  <2>8. p \in DOMAIN bs /\ q \in DOMAIN ba
    BY <1>5, <2>7
  <2>9. as[p] = Append(s.alive[bs[p].origin], bs[p].word)
    BY <2>8 DEF NewAlive
  <2>10. aa[q] = Append(a.alive[ba[q].origin], ba[q].word)
    BY <2>8 DEF NewAlive
  <2> QED BY <2>2, <2>3, <2>4, <2>5, <2>6, <2>9, <2>10
<1> HIDE DEF bs, ba, as, aa
<1>7. Registered(s, n, bs, as) = Registered(a, 1, ba, aa)
  <2> DEFINE prefix == Len(Prefix(e))
             start == IF ReturnPrefix THEN 1 ELSE prefix + 1
             ignore(word) == word \in call.endIds /\ ~call.includeEos
             made(words, word, cost) ==
               [words |-> SubSeq(words, start, s.step + IF ignore(word) THEN 0 ELSE 1), cost |-> cost]
             beams == InOrder(FinishedBeams(s, n, bs))
             hs(k) == made(as[Flat(n, k, NumCandidates)], bs[Flat(n, k, NumCandidates)].word,
                           bs[Flat(n, k, NumCandidates)].cost)
             ha(k) == made(aa[Flat(1, k, NumCandidates)], ba[Flat(1, k, NumCandidates)].word,
                           ba[Flat(1, k, NumCandidates)].cost)
  <2>1. Registered(s, n, bs, as) = [m \in DOMAIN beams |-> hs(beams[m])]
    BY DEF Registered
  <2>2. Registered(a, 1, ba, aa) = [m \in DOMAIN beams |-> ha(beams[m])]
    BY <1>1, <1>3 DEF Registered
  <2>3. \A m \in DOMAIN beams : beams[m] \in 1..call.beamSize
    <3>1. PICK T : T = FinishedBeams(s, n, bs)
      OBVIOUS
    <3>2. T \in SUBSET (1..call.beamSize)
      BY <1>3, <3>1
    <3>3. 1 \in Nat /\ call.beamSize \in Nat
      BY <1>4
    <3>4. IsFiniteSet(T)
      BY ONLY <3>2, <3>3, FinitePositions
    <3>5. T \in SUBSET Nat
      BY ONLY <3>2, <3>3
    <3>6. InOrder(T) \in Seq(T)
      BY ONLY <3>4, <3>5, InOrderIs
    <3>7. \A m \in DOMAIN InOrder(T) : InOrder(T)[m] \in T
      BY ONLY <3>6
    <3> QED BY <3>1, <3>2, <3>7
  <2>4. \A k \in 1..call.beamSize : hs(k) = ha(k)
    <3> HIDE DEF made
    <3> QED BY <1>6
  <2> HIDE DEF hs, ha, beams
  <2> QED BY <2>1, <2>2, <2>3, <2>4
<1>8. NewTopDone(s)[n] = NewTopDone(a)[1]
  <2>1. NewTopDone(s)[n] = (s.topDone[n] \/ 1 \in FinishedBeams(s, n, bs))
    BY <1>1, <1>2, Zenon DEF NewTopDone, bs
  <2>2. NewTopDone(a)[1] = (a.topDone[1] \/ 1 \in FinishedBeams(a, 1, ba))
    BY <1>1, <1>2, Zenon DEF NewTopDone, ba
  <2>3. a.topDone[1] = s.topDone[n]
    BY DEF Pair, Like
  <2>4. FinishedBeams(a, 1, ba) = FinishedBeams(s, n, bs)
    BY <1>3
  <2>5. NewTopDone(a)[1] = (s.topDone[n] \/ 1 \in FinishedBeams(s, n, bs))
    BY Zenon, <2>2, <2>3, <2>4
  <2> QED BY Zenon, <2>1, <2>5
<1>9. NewHypotheses(s)[n] = NewHypotheses(a)[1]
  <2>1. NewHypotheses(s)[n] = s.results[e] \o Registered(s, n, bs, as)
    BY <1>1, <1>2 DEF NewHypotheses, bs, as
  <2>2. NewHypotheses(a)[1] = a.results[e] \o Registered(a, 1, ba, aa)
    BY <1>1, <1>2 DEF NewHypotheses, ba, aa
  <2>3. a.results[e] = s.results[e]
    BY DEF Pair, Like
  <2> QED BY <1>7, <2>1, <2>2, <2>3
<1>10. n \in Leaving(s) <=> 1 \in Leaving(a)
  <2>1. n \in Leaving(s) <=> IsFinished(s, n, NewTopDone(s)[n], NewHypotheses(s)[n])
    BY <1>1, <1>2 DEF Leaving
  <2>2. 1 \in Leaving(a) <=> IsFinished(a, 1, NewTopDone(a)[1], NewHypotheses(a)[1])
    BY <1>1, <1>2 DEF Leaving
  <2>3. IsLastStep(s, s.offset[n]) <=> IsLastStep(a, a.offset[1])
    BY <1>1 DEF IsLastStep
  <2> QED BY Zenon, <1>8, <1>9, <2>1, <2>2, <2>3 DEF IsFinished
<1>11. NewResults(s)[e] = NewResults(a)[e]
  <2>1. ASSUME NEW x \in DOMAIN s.offset, s.offset[x] = e PROVE x = n
    BY <1>1, <1>2, <2>1 DEF Pair, Sized
  <2>2. (CHOOSE x \in DOMAIN s.offset : s.offset[x] = e) = n
    BY <1>1, <1>2, <2>1
  <2>3. ASSUME NEW x \in DOMAIN a.offset PROVE x = 1
    BY <1>2
  <2>4. (CHOOSE x \in DOMAIN a.offset : a.offset[x] = e) = 1
    BY <1>1, <1>2, <2>3
  <2>5. NewResults(s)[e] = IF n \in Leaving(s) THEN Finalized(NewHypotheses(s)[n])
                                               ELSE NewHypotheses(s)[n]
    BY <1>1, <1>2, <2>2 DEF NewResults
  <2>6. NewResults(a)[e] = IF 1 \in Leaving(a) THEN Finalized(NewHypotheses(a)[1])
                                               ELSE NewHypotheses(a)[1]
    BY <1>1, <1>2, <2>4 DEF NewResults
  <2> QED BY <1>9, <1>10, <2>5, <2>6
<1> QED BY <1>8, <1>10, <1>11

\* A search agrees with the search over entry e alone.
Together(s, e, a) ==
  /\ a.results[e] = s.results[e]
  /\ \A n \in 1..Len(s.offset) : s.offset[n] = e => Like(s, n, a)
  /\ (\A n \in 1..Len(s.offset) : s.offset[n] # e) => Len(a.offset) = 0

\* A row they both get from a sample.
LEMMA LikeRows ==
  ASSUME NaturalCosts, CallOK, ~IsGreedy, ~MinLengthMisplaced, NEW s, NEW n, NEW a, Pair(s, n, a),
         NEW j \in 1..NumCandidates, NEW u, NEW q, NEW v, NEW r,
         RowFrom(u, q, s, Sample(s, n, j)), RowFrom(v, r, a, Sample(a, 1, j))
  PROVE  SameWords(v, r, u, q) /\ v.scores[r] = u.scores[q]
<1>1. PICK b : b = Sample(s, n, j)
  OBVIOUS
<1>2. PICK c : c = Sample(a, 1, j)
  OBVIOUS
<1>3. b.word = c.word /\ b.cost = c.cost /\ b.origin = c.origin + Gap(s, n)
  BY <1>1, <1>2, LikeSamples DEF Shift
<1>4. PICK k \in 1..Width(a) : c.origin = Flat(1, k, Width(a))
  <2>1. SampleOK(a, 1, c)
    BY <1>2, PairIs, BeamCandidatesAre DEF Pair
  <2> QED BY <2>1 DEF SampleOK
<1>5. k \in 1..Width(s) /\ c.origin = Flat(1, k, Width(s)) /\ b.origin = Flat(n, k, Width(s))
  BY <1>3, <1>4, PairIs
<1>6. SameWords(a, c.origin, s, b.origin)
  BY <1>5 DEF Pair, Like
<1>7. Read(a, c.origin) = Read(s, b.origin) /\ a.alive[c.origin] = s.alive[b.origin]
  BY <1>6 DEF SameWords, Read
<1>8. RowFrom(u, q, s, b) /\ RowFrom(v, r, a, c)
  BY <1>1, <1>2
<1> QED BY <1>3, <1>7, <1>8 DEF RowFrom, SameWords

\* Entry n, if it stays, goes on alike.
LEMMA BeamLike ==
  ASSUME NaturalCosts, CallOK, ~IsGreedy, ~MinLengthMisplaced, NEW s, NEW n, NEW a, Pair(s, n, a),
         NEW m \in 1..Len(Kept(s)), Kept(s)[m] = n, Len(Kept(a)) = 1, Kept(a)[1] = 1
  PROVE  Like(BeamStep(s), m, BeamStep(a))
<1> DEFINE u == BeamStep(s)
           v == BeamStep(a)
           B == call.beamSize
<1>1. Sized(s) /\ Sized(a) /\ n \in 1..Len(s.offset) /\ a.offset[1] = s.offset[n] /\ a.step = s.step
      /\ s.step \in Nat
  BY PairIs DEF Pair
<1>2. /\ Sized(u) /\ Width(u) = B /\ u.step = s.step + 1 /\ u.results = NewResults(s)
      /\ u.offset[m] = s.offset[n] /\ u.topDone[m] = NewTopDone(s)[n]
      /\ \A k \in 1..B : RowFrom(u, Flat(m, k, B), s, Sample(s, n, Active(s, n, k)))
  BY <1>1, BeamTurn
<1>3. /\ Sized(v) /\ v.step = a.step + 1 /\ v.results = NewResults(a)
      /\ Len(v.offset) = 1 /\ v.offset[1] = a.offset[1] /\ v.topDone[1] = NewTopDone(a)[1]
      /\ \A k \in 1..B : RowFrom(v, Flat(1, k, B), a, Sample(a, 1, Active(a, 1, k)))
  <2>1. /\ Sized(v) /\ v.step = a.step + 1 /\ v.results = NewResults(a) /\ Len(v.offset) = Len(Kept(a))
        /\ \A i \in 1..Len(Kept(a)) :
             /\ v.offset[i] = a.offset[Kept(a)[i]] /\ v.topDone[i] = NewTopDone(a)[Kept(a)[i]]
             /\ \A k \in 1..B : RowFrom(v, Flat(i, k, B), a,
                                       Sample(a, Kept(a)[i], Active(a, Kept(a)[i], k)))
    BY Zenon, <1>1, BeamTurn
  <2>2. 1 \in 1..Len(Kept(a))
    OBVIOUS
  <2>3. PICK i \in 1..Len(Kept(a)) : i = 1 /\ i = Kept(a)[i] /\ Len(Kept(a)) = i
    BY <2>2
  <2> HIDE DEF v
  <2>4. /\ v.offset[i] = a.offset[i] /\ v.topDone[i] = NewTopDone(a)[i]
        /\ \A k \in 1..B : RowFrom(v, Flat(i, k, B), a, Sample(a, i, Active(a, i, k)))
    BY <2>1, <2>3
  <2> QED BY <2>1, <2>3, <2>4
<1> HIDE DEF u, v
<1>4. u.expanded /\ v.expanded /\ u.step = v.step
  <2>1. u.expanded <=> ~IsGreedy /\ (u.step > 0 \/ ~ExpandAfterFirstStep)
    BY <1>2 DEF Sized
  <2>2. v.expanded <=> ~IsGreedy /\ (v.step > 0 \/ ~ExpandAfterFirstStep)
    BY <1>3 DEF Sized
  <2>3. u.step > 0 /\ v.step > 0 /\ u.step = v.step
    BY <1>1, <1>2, <1>3
  <2> QED BY <2>1, <2>2, <2>3
<1>5. v.results[u.offset[m]] = u.results[u.offset[m]] /\ v.topDone[1] = u.topDone[m]
  BY <1>2, <1>3, LikeResults
<1>6. ASSUME NEW k \in 1..B
      PROVE  /\ SameWords(v, Flat(1, k, B), u, Flat(m, k, B))
             /\ v.scores[Flat(1, k, B)] = u.scores[Flat(m, k, B)]
  <2>1. PICK j \in 1..NumCandidates : j = Active(s, n, k)
    BY ActiveIs
  <2>2. j = Active(a, 1, k)
    BY <2>1, LikeBeams
  <2>3. RowFrom(u, Flat(m, k, B), s, Sample(s, n, j)) /\ RowFrom(v, Flat(1, k, B), a, Sample(a, 1, j))
    BY <1>2, <1>3, <2>1, <2>2
  <2> QED BY <2>3, LikeRows
<1>7. Like(u, m, v)
  <2>1. v.step = u.step /\ v.expanded = u.expanded
    BY <1>2, <1>3, <1>4 DEF Sized, State
  <2>2. Len(v.offset) = 1 /\ v.offset[1] = u.offset[m]
    BY <1>1, <1>2, <1>3
  <2> HIDE DEF B
  <2> QED BY Zenon, <1>2, <1>5, <1>6, <2>1, <2>2 DEF Like
<1> QED BY <1>7 DEF u, v

\* One turn keeps the agreement.
LEMMA BeamTogether ==
  ASSUME NaturalCosts, CallOK, ~IsGreedy, ~MinLengthMisplaced, NEW s, NEW n, NEW a, Pair(s, n, a)
  PROVE  Together(BeamStep(s), s.offset[n], BeamStep(a))
<1> DEFINE e == s.offset[n]
           u == BeamStep(s)
           v == BeamStep(a)
<1>1. Sized(s) /\ Sized(a) /\ n \in 1..Len(s.offset) /\ Len(a.offset) = 1
  BY DEF Pair, Like
<1>2. Selects(Kept(s), Len(s.offset), Leaving(s)) /\ Selects(Kept(a), 1, Leaving(a))
  BY <1>1, KeptIs
<1>3. /\ u.results = NewResults(s) /\ v.results = NewResults(a)
      /\ Len(u.offset) = Len(Kept(s)) /\ Len(v.offset) = Len(Kept(a))
      /\ \A m \in 1..Len(Kept(s)) : u.offset[m] = s.offset[Kept(s)[m]]
  BY <1>1, BeamTurn
<1>4. /\ n \in Leaving(s) <=> 1 \in Leaving(a)
      /\ NewResults(s)[e] = NewResults(a)[e]
  BY LikeResults
<1> HIDE DEF u, v
<1>5. \A m \in 1..Len(Kept(s)) : Kept(s)[m] \in 1..Len(s.offset) /\ Kept(s)[m] \notin Leaving(s)
  BY <1>2 DEF Selects
<1>6. ASSUME NEW m \in 1..Len(u.offset), u.offset[m] = e
      PROVE  Kept(s)[m] = n /\ n \notin Leaving(s)
  <2>1. Kept(s)[m] \in 1..Len(s.offset) /\ s.offset[Kept(s)[m]] = e /\ Kept(s)[m] \notin Leaving(s)
    BY <1>3, <1>5, <1>6
  <2> QED BY <1>1, <2>1 DEF Sized
<1>7. /\ Kept(a) \in Seq(1..1)
      /\ n \in Leaving(s) => Len(Kept(a)) = 0
      /\ n \notin Leaving(s) => Len(Kept(a)) = 1 /\ Kept(a)[1] = 1
  <2>1. PICK kept \in Seq(1..1) : kept = Kept(a)
    BY <1>2 DEF Selects
  <2>2. /\ \A m \in 1..Len(kept) : kept[m] \in (1..1) \ Leaving(a)
        /\ \A i, j \in 1..Len(kept) : kept[i] = kept[j] => i = j
        /\ \A x \in (1..1) \ Leaving(a) : \E m \in 1..Len(kept) : kept[m] = x
    BY <1>2, <2>1 DEF Selects
  <2>3. Len(kept) \in Nat /\ \A m \in 1..Len(kept) : kept[m] = 1
    BY <2>1
  <2>4. ASSUME n \in Leaving(s) PROVE Len(kept) = 0
    <3>1. \A m \in 1..Len(kept) : FALSE
      BY <1>4, <2>2, <2>3, <2>4
    <3> QED BY <2>3, <3>1
  <2>5. ASSUME n \notin Leaving(s) PROVE Len(kept) = 1 /\ kept[1] = 1
    <3>1. PICK m \in 1..Len(kept) : kept[m] = 1
      BY <1>4, <2>2, <2>5
    <3>2. \A i, j \in 1..Len(kept) : i = j
      BY <2>2, <2>3
    <3> QED BY <2>3, <3>1, <3>2
  <2> QED BY <2>1, <2>4, <2>5
<1>8. \A m \in 1..Len(u.offset) : u.offset[m] = e => Like(u, m, v)
  <2> SUFFICES ASSUME NEW m \in 1..Len(u.offset), u.offset[m] = e
               PROVE  Like(u, m, v)
    OBVIOUS
  <2>1. m \in 1..Len(Kept(s)) /\ Kept(s)[m] = n /\ Len(Kept(a)) = 1 /\ Kept(a)[1] = 1
    BY <1>3, <1>6, <1>7
  <2> QED BY <2>1, BeamLike DEF u, v
<1>9. (\A m \in 1..Len(u.offset) : u.offset[m] # e) => Len(v.offset) = 0
  <2> SUFFICES ASSUME \A m \in 1..Len(u.offset) : u.offset[m] # e, n \notin Leaving(s)
               PROVE  FALSE
    BY <1>3, <1>7
  <2>1. PICK m \in 1..Len(Kept(s)) : Kept(s)[m] = n
    BY <1>1, <1>2 DEF Selects
  <2> QED BY <1>3, <2>1
<1>10. v.results[e] = u.results[e]
  BY <1>3, <1>4
<1> QED BY Zenon, <1>8, <1>9, <1>10 DEF Together, u, v

\* An entry that has left stays as it is.
LEMMA BeamGone ==
  ASSUME NaturalCosts, CallOK, ~IsGreedy, NEW s, Sized(s), NEW e \in Entries,
         \A n \in 1..Len(s.offset) : s.offset[n] # e
  PROVE  /\ BeamStep(s).results[e] = s.results[e]
         /\ \A m \in 1..Len(BeamStep(s).offset) : BeamStep(s).offset[m] # e
<1>1. /\ BeamStep(s).results = NewResults(s) /\ Len(BeamStep(s).offset) = Len(Kept(s))
      /\ \A m \in 1..Len(Kept(s)) : BeamStep(s).offset[m] = s.offset[Kept(s)[m]]
  BY BeamTurn
<1>2. \A m \in 1..Len(Kept(s)) : Kept(s)[m] \in 1..Len(s.offset)
  BY KeptIs DEF Selects
<1>3. DOMAIN s.offset = 1..Len(s.offset)
  BY DEF Sized, State
<1>4. NewResults(s)[e] = s.results[e]
  BY <1>3 DEF NewResults
<1> QED BY <1>1, <1>2, <1>4

-----------------------------------------------------------------------------
(* The same for greedy search. *)

\* The sampled word and its cost are the same.
LEMMA LikeGreedyWord ==
  ASSUME NaturalCosts, CallOK, IsGreedy, ~MinLengthMisplaced, NEW s, NEW n, NEW a, Pair(s, n, a)
  PROVE  GreedyWord(s, n) = Shift(GreedyWord(a, 1), Gap(s, n))
<1> DEFINE S == GreedyChoices(a, 1)
           T == GreedyChoices(s, n)
<1>1. /\ n \in 1..Len(s.offset) /\ 1 \in 1..Len(a.offset) /\ Sized(s) /\ Sized(a) /\ s.step \in Nat
      /\ Gap(s, n) \in Nat
  BY PairIs DEF Pair
<1>2. /\ S \in SUBSET Candidate /\ OnePerWord(S) /\ IsFiniteSet(S) /\ 1 <= Cardinality(S)
      /\ Width(s) = 1 /\ n \in Nat /\ Flat(n, 1, Width(s)) = n /\ Flat(1, 1, Width(s)) = 1
  <2>1. /\ S \in SUBSET Candidate /\ OnePerWord(S) /\ IsFiniteSet(S) /\ 1 <= Cardinality(S)
        /\ Width(a) = 1 /\ Flat(1, 1, Width(a)) = 1
    BY <1>1, GreedyChoicesAre
  <2>2. Width(s) = 1 /\ n \in Nat /\ Flat(n, 1, Width(s)) = n
    BY <1>1, GreedyChoicesAre
  <2> QED BY <2>1, <2>2
<1>3. n = 1 + Gap(s, n)
  BY <1>2 DEF Gap
<1>4. PICK c : c = TopK(S, 1)[1]
  OBVIOUS
<1>5. PICK b : b = TopK(T, 1)[1]
  OBVIOUS
<1>6. s.step < Len(Prefix(s.offset[n])) \/ b = Shift(c, Gap(s, n))
  <2> SUFFICES ASSUME ~(s.step < Len(Prefix(s.offset[n]))) PROVE b = Shift(c, Gap(s, n))
    OBVIOUS
  <2>1. s.step >= Len(Prefix(s.offset[n]))
    <3>1. Len(Prefix(s.offset[n])) \in Nat
      BY PairIs, PromptIs
    <3> QED BY <1>1, <3>1
  <2>2. \A w \in Words : WordCost(s, n, w) = WordCost(a, 1, w)
    <3> SUFFICES ASSUME NEW w \in Words PROVE WordCost(s, n, w) = WordCost(a, 1, w)
      OBVIOUS
    <3>1. 1 \in 1..Width(s)
      BY <1>2
    <3>2. WordCost(s, Flat(n, 1, Width(s)), w) = WordCost(a, Flat(1, 1, Width(s)), w)
      BY <2>1, <3>1, LikeCosts
    <3> QED BY Zenon, <1>2, <3>2
  <2>3. ASSUME NEW w \in Words
        PROVE  [origin |-> n, word |-> w, cost |-> WordCost(s, n, w)]
                 = Shift([origin |-> 1, word |-> w, cost |-> WordCost(a, 1, w)], Gap(s, n))
    BY <1>3, <2>2 DEF Shift
  <2>4. T = {Shift(x, Gap(s, n)) : x \in S}
    BY <2>3 DEF GreedyChoices
  <2> HIDE DEF S, T
  <2>5. PICK d \in Nat : d = Gap(s, n)
    BY <1>1
  <2>6. PICK one \in Nat : one = 1
    OBVIOUS
  <2>7. T = {Shift(x, d) : x \in S} /\ one <= Cardinality(S) /\ one \in 1..one
    BY <1>2, <2>4, <2>5, <2>6
  <2>8. S \in SUBSET Candidate /\ OnePerWord(S) /\ IsFiniteSet(S)
    BY <1>2
  <2>9. TopK(T, one)[one] = Shift(TopK(S, one)[one], d)
    BY ONLY <2>7, <2>8, d \in Nat, one \in Nat, ShiftedTopK
  <2> QED BY <1>4, <1>5, <2>5, <2>6, <2>9
<1>7. WithPrefix(s, n, 1, b) = Shift(WithPrefix(a, 1, 1, c), Gap(s, n))
  BY <1>6, LikeWithPrefix
<1>8. GreedyWord(s, n) = WithPrefix(s, n, 1, b) /\ GreedyWord(a, 1) = WithPrefix(a, 1, 1, c)
  BY <1>4, <1>5 DEF GreedyWord, GreedyChoices
<1> QED BY <1>7, <1>8

\* The entry leaves at the same time, with the same result.
LEMMA LikeGreedyResults ==
  ASSUME NaturalCosts, CallOK, IsGreedy, ~MinLengthMisplaced, NEW s, NEW n, NEW a, Pair(s, n, a)
  PROVE  /\ n \in GreedyLeaving(s) <=> 1 \in GreedyLeaving(a)
         /\ GreedyResults(s)[s.offset[n]] = GreedyResults(a)[s.offset[n]]
<1> DEFINE e == s.offset[n]
<1>1. /\ a.offset[1] = e /\ e \in Entries /\ a.step = s.step
      /\ n \in 1..Len(s.offset) /\ 1 \in 1..Len(a.offset)
  BY PairIs
<1>2. /\ DOMAIN s.offset = 1..Len(s.offset) /\ DOMAIN a.offset = 1..Len(a.offset)
      /\ Len(s.offset) \in Nat /\ Len(a.offset) = 1
  BY DEF Pair, Like, Sized, State
<1>3. PICK b : b = GreedyWord(s, n)
  OBVIOUS
<1>4. PICK c : c = GreedyWord(a, 1)
  OBVIOUS
<1>5. b.word = c.word /\ b.cost = c.cost
  BY <1>3, <1>4, LikeGreedyWord DEF Shift
<1>6. GreedySamples(s)[n] = b /\ GreedySamples(a)[1] = c
  BY <1>1, <1>2, <1>3, <1>4 DEF GreedySamples
<1>7. n \in GreedyLeaving(s) <=> 1 \in GreedyLeaving(a)
  <2>1. n \in GreedyLeaving(s) <=> Ends(s, e, b.word) \/ IsLastStep(s, e) \/ Stopped(s, e)
    BY <1>1, <1>2, <1>6 DEF GreedyLeaving
  <2>2. 1 \in GreedyLeaving(a) <=> Ends(a, e, c.word) \/ IsLastStep(a, e) \/ Stopped(a, e)
    BY <1>1, <1>2, <1>6 DEF GreedyLeaving
  <2>3. Ends(s, e, b.word) <=> Ends(a, e, c.word)
    BY <1>1, <1>5 DEF Ends
  <2>4. IsLastStep(s, e) <=> IsLastStep(a, e)
    BY <1>1 DEF IsLastStep
  <2>5. Stopped(s, e) <=> Stopped(a, e)
    BY <1>1 DEF Stopped
  <2> QED BY <2>1, <2>2, <2>3, <2>4, <2>5
<1>8. Extended(s, n, b) = Extended(a, 1, c)
  <2>1. a.results[e] = s.results[e]
    BY DEF Pair, Like
  <2> HIDE DEF e
  <2>2. e = s.offset[n]
    BY DEF e
  <2> QED BY Zenon, <1>1, <1>5, <2>1, <2>2 DEF Extended
<1>9. GreedyResults(s)[e] = <<Extended(s, n, b)>>
  <2>1. ASSUME NEW x \in DOMAIN s.offset, s.offset[x] = e PROVE x = n
    BY <1>1, <1>2, <2>1 DEF Pair, Sized
  <2>2. {x \in DOMAIN s.offset : s.offset[x] = e} = {n}
    BY <1>1, <1>2, <2>1
  <2>3. (CHOOSE x \in {x \in DOMAIN s.offset : s.offset[x] = e} : TRUE) = n
    BY <2>2
  <2> HIDE DEF e
  <2> QED BY <1>1, <1>6, <2>2, <2>3 DEF GreedyResults
<1>10. GreedyResults(a)[e] = <<Extended(a, 1, c)>>
  <2>1. {x \in DOMAIN a.offset : a.offset[x] = e} = {1}
    BY <1>1, <1>2
  <2>2. (CHOOSE x \in {x \in DOMAIN a.offset : a.offset[x] = e} : TRUE) = 1
    BY <2>1
  <2> HIDE DEF e
  <2> QED BY <1>1, <1>6, <2>1, <2>2 DEF GreedyResults
<1> QED BY <1>7, <1>8, <1>9, <1>10

\* Entry n, if it stays, goes on alike.
LEMMA GreedyLike ==
  ASSUME NaturalCosts, CallOK, IsGreedy, ~MinLengthMisplaced, NEW s, NEW n, NEW a, Pair(s, n, a),
         NEW m \in 1..Len(GreedyKept(s)), GreedyKept(s)[m] = n,
         Len(GreedyKept(a)) = 1, GreedyKept(a)[1] = 1
  PROVE  Like(GreedyStep(s), m, GreedyStep(a))
<1> DEFINE u == GreedyStep(s)
           v == GreedyStep(a)
<1>1. /\ Sized(s) /\ Sized(a) /\ n \in 1..Len(s.offset) /\ a.offset[1] = s.offset[n]
      /\ a.step = s.step /\ Width(s) = 1 /\ Flat(n, 1, Width(s)) = n /\ Flat(1, 1, Width(s)) = 1
  <2>1. Sized(s) /\ Sized(a) /\ n \in 1..Len(s.offset) /\ 1 \in 1..Len(a.offset)
        /\ Width(a) = Width(s) /\ a.offset[1] = s.offset[n] /\ a.step = s.step
    BY PairIs DEF Pair
  <2>2. Width(s) = 1 /\ Flat(n, 1, Width(s)) = n
    BY <2>1, GreedyChoicesAre
  <2>3. Flat(1, 1, Width(a)) = 1
    BY <2>1, GreedyChoicesAre
  <2> QED BY <2>1, <2>2, <2>3
<1>2. /\ Sized(u) /\ Width(u) = 1 /\ u.step = s.step + 1 /\ u.results = GreedyResults(s)
      /\ Len(u.offset) = Len(GreedyKept(s)) /\ u.offset[m] = s.offset[n]
      /\ WordFrom(u, m, s, n, GreedyWord(s, n).word)
  BY <1>1, GreedyTurn
<1>3. /\ Sized(v) /\ v.step = a.step + 1 /\ v.results = GreedyResults(a)
      /\ Len(v.offset) = 1 /\ v.offset[1] = a.offset[1]
      /\ WordFrom(v, 1, a, 1, GreedyWord(a, 1).word)
  <2>1. /\ Sized(v) /\ v.step = a.step + 1 /\ v.results = GreedyResults(a)
        /\ Len(v.offset) = Len(GreedyKept(a))
        /\ \A i \in 1..Len(GreedyKept(a)) :
             /\ v.offset[i] = a.offset[GreedyKept(a)[i]]
             /\ WordFrom(v, i, a, GreedyKept(a)[i], GreedyWord(a, GreedyKept(a)[i]).word)
    BY Zenon, <1>1, GreedyTurn
  <2>2. PICK i \in 1..Len(GreedyKept(a)) : i = 1 /\ i = GreedyKept(a)[i] /\ Len(GreedyKept(a)) = i
    OBVIOUS
  <2> HIDE DEF v
  <2>3. v.offset[i] = a.offset[i] /\ WordFrom(v, i, a, i, GreedyWord(a, i).word)
    BY <2>1, <2>2
  <2> QED BY <2>1, <2>2, <2>3
<1> HIDE DEF u, v
<1>4. v.results[u.offset[m]] = u.results[u.offset[m]]
  BY <1>2, <1>3, LikeGreedyResults
<1>5. SameWords(v, 1, u, m)
  <2>1. PICK w : w = GreedyWord(s, n).word
    OBVIOUS
  <2>2. w = GreedyWord(a, 1).word
    BY <2>1, LikeGreedyWord DEF Shift
  <2>3. SameWords(a, 1, s, n)
    <3>1. 1 \in 1..Width(s)
      BY <1>1
    <3>2. SameWords(a, Flat(1, 1, Width(s)), s, Flat(n, 1, Width(s)))
      BY <3>1 DEF Pair, Like
    <3> QED BY Zenon, <1>1, <3>2
  <2>4. WordFrom(u, m, s, n, w) /\ WordFrom(v, 1, a, 1, w)
    BY <1>2, <1>3, <2>1, <2>2
  <2> QED BY <2>3, <2>4 DEF WordFrom, SameWords, Read
<1>6. \A k \in 1..1 : k = 1 /\ Flat(1, k, 1) = 1 /\ Flat(m, k, 1) = m
  BY DEF Flat
<1>7. v.step = u.step /\ v.expanded = u.expanded
  <2>1. ~u.expanded /\ ~v.expanded
    BY <1>2, <1>3 DEF Sized
  <2>2. u.expanded \in BOOLEAN /\ v.expanded \in BOOLEAN
    BY <1>2, <1>3 DEF Sized, State
  <2> QED BY <1>1, <1>2, <1>3, <2>1, <2>2
<1>8. Len(v.offset) = 1 /\ v.offset[1] = u.offset[m]
  BY <1>1, <1>2, <1>3
<1>9. \A k \in 1..Width(u) : SameWords(v, Flat(1, k, Width(u)), u, Flat(m, k, Width(u)))
  <2>1. \A k \in 1..1 : SameWords(v, Flat(1, k, 1), u, Flat(m, k, 1))
    BY <1>5, <1>6
  <2> QED BY Zenon, <1>2, <2>1
<1>10. Like(u, m, v)
  BY Zenon, <1>4, <1>7, <1>8, <1>9 DEF Like
<1> QED BY <1>10 DEF u, v

\* One turn keeps the agreement.
LEMMA GreedyTogether ==
  ASSUME NaturalCosts, CallOK, IsGreedy, ~MinLengthMisplaced, NEW s, NEW n, NEW a, Pair(s, n, a)
  PROVE  Together(GreedyStep(s), s.offset[n], GreedyStep(a))
<1> DEFINE e == s.offset[n]
           u == GreedyStep(s)
           v == GreedyStep(a)
<1>1. Sized(s) /\ Sized(a) /\ n \in 1..Len(s.offset) /\ Len(a.offset) = 1
  BY DEF Pair, Like
<1>2. Selects(GreedyKept(s), Len(s.offset), GreedyLeaving(s)) /\ Selects(GreedyKept(a), 1, GreedyLeaving(a))
  BY <1>1, GreedyTurn
<1>3. /\ u.results = GreedyResults(s) /\ v.results = GreedyResults(a)
      /\ Len(u.offset) = Len(GreedyKept(s)) /\ Len(v.offset) = Len(GreedyKept(a))
      /\ \A m \in 1..Len(GreedyKept(s)) : u.offset[m] = s.offset[GreedyKept(s)[m]]
  BY <1>1, GreedyTurn
<1>4. /\ n \in GreedyLeaving(s) <=> 1 \in GreedyLeaving(a)
      /\ GreedyResults(s)[e] = GreedyResults(a)[e]
  BY LikeGreedyResults
<1> HIDE DEF u, v
<1>5. \A m \in 1..Len(GreedyKept(s)) : GreedyKept(s)[m] \in 1..Len(s.offset) /\ GreedyKept(s)[m] \notin GreedyLeaving(s)
  BY <1>2 DEF Selects
<1>6. ASSUME NEW m \in 1..Len(u.offset), u.offset[m] = e
      PROVE  GreedyKept(s)[m] = n /\ n \notin GreedyLeaving(s)
  <2>1. GreedyKept(s)[m] \in 1..Len(s.offset) /\ s.offset[GreedyKept(s)[m]] = e /\ GreedyKept(s)[m] \notin GreedyLeaving(s)
    BY <1>3, <1>5, <1>6
  <2> QED BY <1>1, <2>1 DEF Sized
<1>7. /\ GreedyKept(a) \in Seq(1..1)
      /\ n \in GreedyLeaving(s) => Len(GreedyKept(a)) = 0
      /\ n \notin GreedyLeaving(s) => Len(GreedyKept(a)) = 1 /\ GreedyKept(a)[1] = 1
  <2>1. PICK kept \in Seq(1..1) : kept = GreedyKept(a)
    BY <1>2 DEF Selects
  <2>2. /\ \A m \in 1..Len(kept) : kept[m] \in (1..1) \ GreedyLeaving(a)
        /\ \A i, j \in 1..Len(kept) : kept[i] = kept[j] => i = j
        /\ \A x \in (1..1) \ GreedyLeaving(a) : \E m \in 1..Len(kept) : kept[m] = x
    BY <1>2, <2>1 DEF Selects
  <2>3. Len(kept) \in Nat /\ \A m \in 1..Len(kept) : kept[m] = 1
    BY <2>1
  <2>4. ASSUME n \in GreedyLeaving(s) PROVE Len(kept) = 0
    <3>1. \A m \in 1..Len(kept) : FALSE
      BY <1>4, <2>2, <2>3, <2>4
    <3> QED BY <2>3, <3>1
  <2>5. ASSUME n \notin GreedyLeaving(s) PROVE Len(kept) = 1 /\ kept[1] = 1
    <3>1. PICK m \in 1..Len(kept) : kept[m] = 1
      BY <1>4, <2>2, <2>5
    <3>2. \A i, j \in 1..Len(kept) : i = j
      BY <2>2, <2>3
    <3> QED BY <2>3, <3>1, <3>2
  <2> QED BY <2>1, <2>4, <2>5
<1>8. \A m \in 1..Len(u.offset) : u.offset[m] = e => Like(u, m, v)
  <2> SUFFICES ASSUME NEW m \in 1..Len(u.offset), u.offset[m] = e
               PROVE  Like(u, m, v)
    OBVIOUS
  <2>1. m \in 1..Len(GreedyKept(s)) /\ GreedyKept(s)[m] = n /\ Len(GreedyKept(a)) = 1 /\ GreedyKept(a)[1] = 1
    BY <1>3, <1>6, <1>7
  <2> QED BY <2>1, GreedyLike DEF u, v
<1>9. (\A m \in 1..Len(u.offset) : u.offset[m] # e) => Len(v.offset) = 0
  <2> SUFFICES ASSUME \A m \in 1..Len(u.offset) : u.offset[m] # e, n \notin GreedyLeaving(s)
               PROVE  FALSE
    BY <1>3, <1>7
  <2>1. PICK m \in 1..Len(GreedyKept(s)) : GreedyKept(s)[m] = n
    BY <1>1, <1>2 DEF Selects
  <2> QED BY <1>3, <2>1
<1>10. v.results[e] = u.results[e]
  BY <1>3, <1>4
<1> QED BY Zenon, <1>8, <1>9, <1>10 DEF Together, u, v

\* An entry that has left stays as it is.
LEMMA GreedyGone ==
  ASSUME NaturalCosts, CallOK, IsGreedy, NEW s, Sized(s), NEW e \in Entries,
         \A n \in 1..Len(s.offset) : s.offset[n] # e
  PROVE  /\ GreedyStep(s).results[e] = s.results[e]
         /\ \A m \in 1..Len(GreedyStep(s).offset) : GreedyStep(s).offset[m] # e
<1>1. /\ GreedyStep(s).results = GreedyResults(s) /\ Len(GreedyStep(s).offset) = Len(GreedyKept(s))
      /\ \A m \in 1..Len(GreedyKept(s)) : GreedyStep(s).offset[m] = s.offset[GreedyKept(s)[m]]
  BY GreedyTurn
<1>2. \A m \in 1..Len(GreedyKept(s)) : GreedyKept(s)[m] \in 1..Len(s.offset)
  BY GreedyTurn DEF Selects
<1>3. DOMAIN s.offset = 1..Len(s.offset)
  BY DEF Sized, State
<1>4. GreedyResults(s)[e] = s.results[e]
  BY <1>3 DEF GreedyResults
<1> QED BY <1>1, <1>2, <1>4

-----------------------------------------------------------------------------
(* The searches start alike. *)

\* The rows of an entry when nothing has been decoded.
StartRow(s, e, r, score) ==
  /\ s.ids[r] = StartWord(e) /\ s.alive[r] = <<>> /\ s.scores[r] = score
  /\ s.cache[r] = SubSeq(call.prompts[e], 1, ForwardLength)

LEMMA StartRowsAre ==
  ASSUME CallOK, NEW offset \in Seq(Entries), NEW n \in 1..Len(offset)
  PROVE  /\ SearchState(offset).results = [e \in Entries |-> <<>>]
         /\ SearchState(offset).topDone[n] = FALSE
         /\ StartRow(SearchState(offset), offset[n], n, 0)
<1>1. n \in DOMAIN offset
  OBVIOUS
<1>2. PICK s : s = SearchState(offset)
  OBVIOUS
<1> DEFINE cacheOf == [m \in DOMAIN offset |-> SubSeq(call.prompts[offset[m]], 1, ForwardLength)]
<1>3. /\ s.results = [e \in Entries |-> <<>>] /\ s.topDone = [m \in DOMAIN offset |-> FALSE]
      /\ s.ids = [m \in DOMAIN offset |-> StartWord(offset[m])]
      /\ s.alive = [m \in DOMAIN offset |-> <<>>] /\ s.scores = [m \in DOMAIN offset |-> 0]
      /\ s.cache = cacheOf
  BY <1>2 DEF SearchState
<1>4. s.topDone[n] = FALSE
  BY <1>1, <1>3
<1>5. s.ids[n] = StartWord(offset[n]) /\ s.alive[n] = <<>> /\ s.scores[n] = 0
  BY <1>1, <1>3
<1>6. s.cache[n] = SubSeq(call.prompts[offset[n]], 1, ForwardLength)
  BY <1>1, <1>3
<1> QED BY <1>2, <1>3, <1>4, <1>5, <1>6 DEF StartRow

\* Only the first beam of an entry counts at first.
StartScore(k) == IF ExpandAfterFirstStep \/ k = 1 THEN 0 ELSE Disabled

LEMMA BeamStartRows ==
  ASSUME CallOK, ~IsGreedy, NEW offset, Batch(offset), NEW n \in 1..Len(offset)
  PROVE  /\ BeamStart(offset).step = 0 /\ BeamStart(offset).expanded = ~ExpandAfterFirstStep
         /\ BeamStart(offset).results = [e \in Entries |-> <<>>]
         /\ BeamStart(offset).topDone[n] = FALSE
         /\ \A k \in 1..Width(BeamStart(offset)) :
              StartRow(BeamStart(offset), offset[n], Flat(n, k, Width(BeamStart(offset))), StartScore(k))
<1> DEFINE B == call.beamSize
<1>1. PICK u : u = BeamStart(offset)
  OBVIOUS
<1>2. PICK s : s = SearchState(offset)
  OBVIOUS
<1>3. /\ Rows(s, 1) /\ s.step = 0 /\ s.expanded = FALSE /\ s.results = [e \in Entries |-> <<>>]
      /\ s.topDone[n] = FALSE /\ StartRow(s, offset[n], n, 0) /\ s.offset = offset
  <2>1. Rows(s, 1) /\ s.step = 0 /\ ~s.expanded /\ s.offset = offset
    BY <1>2, SearchStateIs DEF Batch
  <2>2. s.results = [e \in Entries |-> <<>>] /\ s.topDone[n] = FALSE /\ StartRow(s, offset[n], n, 0)
    BY <1>2, StartRowsAre DEF Batch
  <2>3. s.expanded \in BOOLEAN
    BY <2>1 DEF Rows, State
  <2> QED BY <2>1, <2>2, <2>3
<1>4. n \in Nat \ {0} /\ Len(offset) \in Nat /\ B \in Nat \ {0}
  BY CallIs DEF Batch
<1>5. CASE ExpandAfterFirstStep
  <2>1. u = s
    BY <1>1, <1>2, <1>5 DEF BeamStart
  <2>2. Width(u) = 1
    BY <1>3, <2>1 DEF Width
  <2>3. \A k \in 1..1 : Flat(n, k, 1) = n /\ StartScore(k) = 0
    BY <1>4, <1>5 DEF Flat, StartScore
  <2>4. \A k \in 1..1 : StartRow(u, offset[n], Flat(n, k, 1), StartScore(k))
    BY Zenon, <1>3, <2>1, <2>3
  <2>5. \A k \in 1..Width(u) : StartRow(u, offset[n], Flat(n, k, Width(u)), StartScore(k))
    BY Zenon, <2>2, <2>4
  <2>6. u.expanded = ~ExpandAfterFirstStep
    BY <1>3, <1>5, <2>1
  <2> QED BY Zenon, <1>1, <1>3, <2>1, <2>5, <2>6
<1>6. CASE ~ExpandAfterFirstStep
  <2> DEFINE ids == RepeatBatch(s.ids, B)
             alive == RepeatBatch(s.alive, B)
             cache == RepeatBatch(s.cache, B)
             scores == [r \in 1..(Len(s.scores) * B) |-> IF RowOf(r, B) = 1 THEN 0 ELSE Disabled]
  <2>1. u = [s EXCEPT !.expanded = TRUE, !.ids = ids, !.alive = alive, !.cache = cache,
                      !.scores = scores]
    BY <1>1, <1>2, <1>6 DEF BeamStart
  <2>2. s = [step |-> s.step, expanded |-> s.expanded, ids |-> s.ids, scores |-> s.scores,
             alive |-> s.alive, cache |-> s.cache, memory |-> s.memory, offset |-> s.offset,
             topDone |-> s.topDone, results |-> s.results]
    BY <1>3 DEF Rows, State
  <2>3. /\ s.ids \in Seq(Words) /\ s.alive \in Seq(Seq(Words)) /\ s.cache \in Seq(Seq(Words))
        /\ Len(s.ids) = Len(offset) /\ Len(s.alive) = Len(offset) /\ Len(s.cache) = Len(offset)
        /\ Len(s.scores) = Len(offset)
    <3>1. Len(offset) * 1 = Len(offset)
      BY <1>4
    <3> QED BY <1>3, <3>1 DEF Rows, State
  <2> HIDE DEF ids, alive, cache, scores
  <2>4. u = [step |-> s.step, expanded |-> TRUE, ids |-> ids, scores |-> scores,
             alive |-> alive, cache |-> cache, memory |-> s.memory, offset |-> s.offset,
             topDone |-> s.topDone, results |-> s.results]
    BY ONLY <2>1, <2>2, RepeatedUpdate
  <2>5. /\ u.step = s.step /\ u.expanded = TRUE /\ u.ids = ids /\ u.scores = scores
        /\ u.alive = alive /\ u.cache = cache /\ u.topDone = s.topDone /\ u.results = s.results
    BY ONLY <2>4
  <2>6. ASSUME NEW k \in 1..B
        PROVE  StartRow(u, offset[n], Flat(n, k, B), StartScore(k))
    <3>1. PICK r : r = Flat(n, k, B)
      OBVIOUS
    <3>2. r \in 1..(Len(offset) * B) /\ RowOf(r, B) = k
      BY <1>4, <3>1, FlatRange, FlatBack
    <3>3. u.ids[r] = s.ids[n]
      <4>1. \A x \in 1..Len(s.ids), j \in 1..B : ids[Flat(x, j, B)] = s.ids[x]
        BY ONLY <1>4, <2>3, RepeatBatchIs DEF ids
      <4> QED BY <2>3, <2>5, <3>1, <4>1
    <3>4. u.alive[r] = s.alive[n]
      <4>1. \A x \in 1..Len(s.alive), j \in 1..B : alive[Flat(x, j, B)] = s.alive[x]
        BY ONLY <1>4, <2>3, RepeatBatchIs DEF alive
      <4> QED BY <2>3, <2>5, <3>1, <4>1
    <3>5. u.cache[r] = s.cache[n]
      <4>1. \A x \in 1..Len(s.cache), j \in 1..B : cache[Flat(x, j, B)] = s.cache[x]
        BY ONLY <1>4, <2>3, RepeatBatchIs DEF cache
      <4> QED BY <2>3, <2>5, <3>1, <4>1
    <3>6. u.scores[r] = StartScore(k)
      BY <1>6, <2>3, <2>5, <3>2 DEF scores, StartScore
    <3> QED BY <1>3, <3>1, <3>3, <3>4, <3>5, <3>6 DEF StartRow
  <2>7. Width(u) = B
    BY <2>5 DEF Width
  <2> HIDE DEF B
  <2>8. \A k \in 1..Width(u) : StartRow(u, offset[n], Flat(n, k, Width(u)), StartScore(k))
    BY Zenon, <2>6, <2>7
  <2>9. u.expanded = ~ExpandAfterFirstStep
    BY <1>6, <2>5
  <2> QED BY Zenon, <1>1, <1>3, <2>5, <2>8, <2>9
<1> QED BY Zenon, <1>5, <1>6

\* The batch starts with each entry, in a row that is like the one it has alone.
LEMMA StartTogether ==
  ASSUME CallOK, NEW e \in Entries
  PROVE  /\ Sized(Start(<<e>>)) /\ Aligned(Start(<<e>>))
         /\ Together(Start([x \in Entries |-> x]), e, Start(<<e>>))
<1>1. PICK all : all = [x \in Entries |-> x]
  OBVIOUS
<1>2. PICK one : one = <<e>>
  OBVIOUS
<1>3. Batch(all) /\ e \in 1..Len(all) /\ all[e] = e /\ \A n \in 1..Len(all) : all[n] = n
  <2>1. PICK N \in Nat : N = Len(call.prompts) /\ Entries = 1..N
    BY CallIs
  <2>2. [x \in 1..N |-> x] \in Seq(1..N) /\ Len([x \in 1..N |-> x]) = N
    OBVIOUS
  <2> QED BY <1>1, <2>1, <2>2 DEF Batch
<1>4. Batch(one) /\ Len(one) = 1 /\ one[1] = e
  BY <1>2 DEF Batch
<1>5. PICK s : s = Start(all)
  OBVIOUS
<1>6. PICK a : a = Start(one)
  OBVIOUS
<1>7. CASE IsGreedy
  <2>1. s = SearchState(all) /\ a = SearchState(one)
    BY <1>5, <1>6, <1>7 DEF Start, GreedyStart
  <2>2. Sized(a) /\ Aligned(a) /\ a.offset = one /\ Sized(s) /\ s.offset = all
    BY <1>3, <1>4, <1>7, <2>1, GreedyStartIs DEF GreedyStart
  <2>3. s.results = [x \in Entries |-> <<>>] /\ StartRow(s, e, e, 0)
    BY <1>3, <2>1, StartRowsAre DEF Batch
  <2>4. a.results = [x \in Entries |-> <<>>] /\ StartRow(a, e, 1, 0)
    <3>1. one \in Seq(Entries) /\ 1 \in 1..Len(one)
      BY <1>4 DEF Batch
    <3> QED BY <1>4, <2>1, <3>1, StartRowsAre
  <2>5. s.step = 0 /\ a.step = 0 /\ s.expanded = FALSE /\ a.expanded = FALSE
    BY <2>1 DEF SearchState
  <2>6. SameWords(a, 1, s, e)
    BY <2>3, <2>4 DEF StartRow, SameWords
  <2>7. Width(s) = 1 /\ \A k \in 1..1 : Flat(1, k, 1) = 1 /\ Flat(e, k, 1) = e
    <3>1. e \in Nat
      BY <1>3
    <3> QED BY <2>5, <3>1 DEF Width, Flat
  <2>8. \A k \in 1..Width(s) : SameWords(a, Flat(1, k, Width(s)), s, Flat(e, k, Width(s)))
    <3>1. \A k \in 1..1 : SameWords(a, Flat(1, k, 1), s, Flat(e, k, 1))
      BY <2>6, <2>7
    <3> QED BY Zenon, <2>7, <3>1
  <2>9. Like(s, e, a)
    <3>1. a.step = s.step /\ a.expanded = s.expanded /\ Len(a.offset) = 1 /\ a.offset[1] = s.offset[e]
      BY <1>3, <1>4, <2>2, <2>5
    <3>2. a.results[s.offset[e]] = s.results[s.offset[e]]
      BY <2>3, <2>4
    <3> QED BY Zenon, <1>7, <2>8, <3>1, <3>2 DEF Like
  <2>10. Together(s, e, a)
    BY <1>3, <2>2, <2>3, <2>4, <2>9 DEF Together
  <2> QED BY <1>1, <1>2, <1>5, <1>6, <2>2, <2>10
<1>8. CASE ~IsGreedy
  <2>1. s = BeamStart(all) /\ a = BeamStart(one)
    BY <1>5, <1>6, <1>8 DEF Start
  <2>2. Sized(a) /\ Aligned(a) /\ a.offset = one /\ Sized(s) /\ s.offset = all
    BY <1>3, <1>4, <1>8, <2>1, BeamStartIs
  <2>3. /\ s.step = 0 /\ s.expanded = ~ExpandAfterFirstStep /\ s.results = [x \in Entries |-> <<>>]
        /\ s.topDone[e] = FALSE
        /\ \A k \in 1..Width(s) : StartRow(s, e, Flat(e, k, Width(s)), StartScore(k))
    <3>1. PICK i \in 1..Len(all) : i = e /\ all[i] = e
      BY <1>3
    <3>2. /\ s.step = 0 /\ s.expanded = ~ExpandAfterFirstStep /\ s.results = [x \in Entries |-> <<>>]
          /\ s.topDone[i] = FALSE
          /\ \A k \in 1..Width(s) : StartRow(s, all[i], Flat(i, k, Width(s)), StartScore(k))
      BY <1>3, <1>8, <2>1, BeamStartRows
    <3> QED BY Zenon, <3>1, <3>2
  <2>4. /\ a.step = 0 /\ a.expanded = ~ExpandAfterFirstStep /\ a.results = [x \in Entries |-> <<>>]
        /\ a.topDone[1] = FALSE
        /\ \A k \in 1..Width(a) : StartRow(a, e, Flat(1, k, Width(a)), StartScore(k))
    <3>1. PICK i \in 1..Len(one) : i = 1 /\ one[i] = e
      BY <1>4
    <3>2. /\ a.step = 0 /\ a.expanded = ~ExpandAfterFirstStep /\ a.results = [x \in Entries |-> <<>>]
          /\ a.topDone[i] = FALSE
          /\ \A k \in 1..Width(a) : StartRow(a, one[i], Flat(i, k, Width(a)), StartScore(k))
      BY <1>4, <1>8, <2>1, BeamStartRows
    <3> QED BY Zenon, <3>1, <3>2
  <2>5. Width(a) = Width(s)
    BY <2>3, <2>4 DEF Width
  <2>6. \A k \in 1..Width(s) :
          /\ SameWords(a, Flat(1, k, Width(s)), s, Flat(e, k, Width(s)))
          /\ a.scores[Flat(1, k, Width(s))] = s.scores[Flat(e, k, Width(s))]
    <3> SUFFICES ASSUME NEW k \in 1..Width(s)
                 PROVE  /\ SameWords(a, Flat(1, k, Width(s)), s, Flat(e, k, Width(s)))
                        /\ a.scores[Flat(1, k, Width(s))] = s.scores[Flat(e, k, Width(s))]
      OBVIOUS
    <3>1. StartRow(s, e, Flat(e, k, Width(s)), StartScore(k))
      BY <2>3
    <3>2. StartRow(a, e, Flat(1, k, Width(s)), StartScore(k))
      BY Zenon, <2>4, <2>5
    <3> QED BY Zenon, <3>1, <3>2 DEF StartRow, SameWords
  <2>7. Like(s, e, a)
    <3>1. a.step = s.step /\ Len(a.offset) = 1 /\ a.offset[1] = s.offset[e]
      BY <1>3, <1>4, <2>2, <2>3, <2>4
    <3>2. a.results[s.offset[e]] = s.results[s.offset[e]]
      BY <2>3, <2>4
    <3>3. a.expanded = s.expanded /\ a.topDone[1] = s.topDone[e]
      BY Zenon, <2>3, <2>4
    <3> QED BY Zenon, <2>6, <3>1, <3>2, <3>3 DEF Like
  <2>8. Together(s, e, a)
    BY <1>3, <2>2, <2>3, <2>4, <2>7 DEF Together
  <2> QED BY <1>1, <1>2, <1>5, <1>6, <2>2, <2>8
<1> QED BY <1>7, <1>8

\* A search and its reference run for the same time, as long as the entry is there.
LEMMA RunTogether ==
  ASSUME NEW s, NEW n, NEW a, Pair(s, n, a), Running(s)
  PROVE  Running(a)
<1>1. a.step = s.step /\ Len(a.offset) = 1 /\ s.step < MaxStep
  BY DEF Pair, Like, Running
<1>2. a.offset # <<>>
  BY <1>1
<1> QED BY <1>1, <1>2 DEF Running

-----------------------------------------------------------------------------
(* The call that has one entry alone, where it makes the same settings. *)

\* The call of one entry has the options of the whole call.
LEMMA OwnFields ==
  /\ OwnCall.prompts = [e \in Entries |-> call.prompts[entry]]
  /\ OwnCall.memories = [e \in Entries |-> call.memories[entry]]
  /\ OwnCall.includePrompt = call.includePrompt /\ OwnCall.beamSize = call.beamSize
  /\ OwnCall.maxCandidates = call.maxCandidates /\ OwnCall.numHypotheses = call.numHypotheses
  /\ OwnCall.maxLength = call.maxLength /\ OwnCall.minLength = call.minLength
  /\ OwnCall.normalize = call.normalize /\ OwnCall.endIds = call.endIds
  /\ OwnCall.includeEos = call.includeEos /\ OwnCall.cpu = call.cpu
  /\ OwnCall.ascending = call.ascending /\ OwnCall.stops = call.stops
  /\ OwnCall.repetition = call.repetition /\ OwnCall.noRepeatNgram = call.noRepeatNgram
  /\ OwnCall.suppressed = call.suppressed /\ OwnCall.suppressedBegin = call.suppressedBegin
  /\ OwnCall.bannedSequences = call.bannedSequences
BY DEF OwnCall, Options

\* What does not read the call is the same in both.
LEMMA OwnHelpers ==
  /\ Own!Words = Words /\ Own!Disabled = Disabled
  /\ \A a, b : Own!Plus(a, b) = Plus(a, b)
  /\ \A n, k, size : Own!Flat(n, k, size) = Flat(n, k, size)
  /\ \A n, size : Own!EntryRows(n, size) = EntryRows(n, size)
  /\ \A n, size : Own!EntryOf(n, size) = EntryOf(n, size)
  /\ \A n, size : Own!RowOf(n, size) = RowOf(n, size)
  /\ \A data, indices : Own!Gather(data, indices) = Gather(data, indices)
  /\ \A data, times : Own!RepeatBatch(data, times) = RepeatBatch(data, times)
  /\ \A S : Own!Min(S) = Min(S)
  /\ \A S : Own!Max(S) = Max(S)
  /\ \A S : Own!Cardinality(S) = Cardinality(S)
  /\ \A S : Own!InOrder(S) = InOrder(S)
  /\ \A s : Own!ToSet(s) = ToSet(s)
  /\ \A s : Own!FlattenSeq(s) = FlattenSeq(s)
<1>1. Own!Words = Words /\ Own!Disabled = Disabled
  BY DEF Own!Words, Words, Own!Disabled, Disabled
<1>2. \A a, b : Own!Plus(a, b) = Plus(a, b)
  BY DEF Own!Plus, Plus, Own!Min, Min, Own!Max, Max, Own!Disabled, Disabled, Own!Penalised, Penalised, Own!Infinite, Infinite
<1>3. \A n, k, size : Own!Flat(n, k, size) = Flat(n, k, size)
  BY DEF Own!Flat, Flat
<1>4. \A n, size : Own!EntryRows(n, size) = EntryRows(n, size)
  BY DEF Own!EntryRows, EntryRows, Own!Flat, Flat
<1>5. \A n, size : Own!EntryOf(n, size) = EntryOf(n, size)
  BY DEF Own!EntryOf, EntryOf
<1>6. \A n, size : Own!RowOf(n, size) = RowOf(n, size)
  BY DEF Own!RowOf, RowOf
<1>7. \A data, indices : Own!Gather(data, indices) = Gather(data, indices)
  BY DEF Own!Gather, Gather
<1>8. \A data, times : Own!RepeatBatch(data, times) = RepeatBatch(data, times)
  BY DEF Own!RepeatBatch, RepeatBatch, Own!EntryOf, EntryOf
<1>9. \A S : Own!Min(S) = Min(S)
  BY DEF Own!Min, Min
<1>10. \A S : Own!Max(S) = Max(S)
  BY DEF Own!Max, Max
<1>11. \A S : Own!Cardinality(S) = Cardinality(S)
  BY DEF Own!Cardinality, Cardinality
<1>12. \A S : Own!InOrder(S) = InOrder(S)
  BY DEF Own!InOrder, InOrder, Own!Cardinality, Cardinality
<1>13. \A s : Own!ToSet(s) = ToSet(s)
  BY DEF Own!ToSet, ToSet
<1>14. \A s : Own!FlattenSeq(s) = FlattenSeq(s)
  BY DEF Own!FlattenSeq, FlattenSeq
<1> QED BY <1>1, <1>2, <1>3, <1>4, <1>5, <1>6, <1>7, <1>8, <1>9, <1>10, <1>11, <1>12, <1>13, <1>14

\* The compared entry, in a call of its own.
Alike == CallOK /\ entry \in Entries /\ SettingsOwn

\* So are the settings, by Alike and the options.
LEMMA OwnSettings ==
  ASSUME Alike
  PROVE  /\ Own!Entries = Entries /\ Own!IsGreedy = IsGreedy
         /\ Own!ForwardLength = ForwardLength /\ Own!ReturnPrefix = ReturnPrefix
         /\ \A e \in Entries : Own!StartWord(e) = StartWord(entry) /\ Own!Prefix(e) = Prefix(entry)
         /\ Own!HasPrefix = (Prefix(entry) # <<>>)
         /\ Own!NumCandidates = NumCandidates /\ Own!AllowEarlyExit = AllowEarlyExit
         /\ Own!ExpandAfterFirstStep = ExpandAfterFirstStep
         /\ \A s : Own!Width(s) = Width(s)
         /\ \A s, r : Own!Read(s, r) = Read(s, r)
<1>1. Own!Entries = Entries
  BY OwnFields DEF Own!Entries, Entries
<1>2. Own!IsGreedy = IsGreedy
  BY OwnFields DEF Own!IsGreedy, IsGreedy
<1>3. Own!ForwardLength = ForwardLength
  BY DEF Alike, SettingsOwn
<1>4. Own!ReturnPrefix = ReturnPrefix
  BY <1>3 DEF Own!ReturnPrefix, ReturnPrefix
<1>5. ASSUME NEW e \in Entries
      PROVE  Own!StartWord(e) = StartWord(entry) /\ Own!Prefix(e) = Prefix(entry)
  <2>1. OwnCall.prompts[e] = call.prompts[entry]
    BY OwnFields
  <2> QED BY <1>3, <2>1 DEF Own!StartWord, StartWord, Own!Prefix, Prefix
<1>6. Own!HasPrefix = (Prefix(entry) # <<>>)
  BY <1>1, <1>5 DEF Own!HasPrefix, Alike
<1>7. Own!NumCandidates = NumCandidates
  BY OwnFields DEF Own!NumCandidates, NumCandidates
<1>8. Own!AllowEarlyExit = AllowEarlyExit
  BY OwnFields DEF Own!AllowEarlyExit, AllowEarlyExit
<1>9. Own!ExpandAfterFirstStep = ExpandAfterFirstStep
  BY <1>7, OwnFields DEF Own!ExpandAfterFirstStep, ExpandAfterFirstStep
<1>10. \A s : Own!Width(s) = Width(s)
  BY OwnFields DEF Own!Width, Width
<1>11. \A s, r : Own!Read(s, r) = Read(s, r)
  BY DEF Own!Read, Read
<1> QED BY <1>1, <1>2, <1>3, <1>4, <1>5, <1>6, <1>7, <1>8, <1>9, <1>10, <1>11

\* Beam search of an entry that has its own settings has no hidden prefix.
LEMMA OwnBeam ==
  ASSUME Alike
  PROVE  IsGreedy \/ (HasPrefix = (Prefix(entry) # <<>>) /\ ~MinLengthMisplaced)
<1>1. IsGreedy \/ HasPrefix = (Prefix(entry) # <<>>)
  BY OwnSettings DEF Alike, SettingsOwn
<1>2. ASSUME ~IsGreedy, HasPrefix, ~ReturnPrefix PROVE FALSE
  <2>1. Prefix(entry) # <<>>
    BY <1>1, <1>2
  <2>2. ForwardLength = Len(call.prompts[entry]) - 1
    <3>1. {Len(OwnCall.prompts[e]) : e \in Entries} = {Len(call.prompts[entry])}
      BY OwnFields DEF Alike
    <3>2. \A n : Min({n}) = n
      BY DEF Min
    <3>3. Own!ForwardLength = IF call.includePrompt THEN 0 ELSE Min({Len(call.prompts[entry])}) - 1
      BY <3>1, OwnFields, OwnHelpers, OwnSettings DEF Own!ForwardLength
    <3> QED BY <1>2, <3>2, <3>3, OwnSettings DEF ReturnPrefix
  <2>3. Prefix(entry) \in Seq(Words) /\ Len(Prefix(entry)) = 0
    BY <2>2, PromptIs DEF Alike
  <2> QED BY <2>1, <2>3
<1> QED BY <1>1, <1>2 DEF MinLengthMisplaced, MinLengthByEntry

\* Both start an entry alike.
LEMMA OwnStart == ASSUME Alike PROVE Own!Start(<<entry>>) = Start(<<entry>>)
<1>1. Own!SearchState(<<entry>>) = SearchState(<<entry>>)
  <2>1. \A n \in DOMAIN <<entry>> : /\ Own!StartWord(<<entry>>[n]) = StartWord(<<entry>>[n])
                                   /\ OwnCall.prompts[<<entry>>[n]] = call.prompts[<<entry>>[n]]
                                   /\ OwnCall.memories[<<entry>>[n]] = call.memories[<<entry>>[n]]
    <3>1. \A n \in DOMAIN <<entry>> : <<entry>>[n] = entry
      OBVIOUS
    <3> QED BY <3>1, OwnFields, OwnSettings DEF Alike
  <2>2. Own!ForwardLength = ForwardLength /\ Own!Entries = Entries
    BY OwnSettings
  <2> QED BY Zenon, <2>1, <2>2 DEF Own!SearchState, SearchState
<1>2. Own!BeamStart(<<entry>>) = BeamStart(<<entry>>)
  <2>1. OwnCall.beamSize = call.beamSize
    BY OwnFields
  <2>2. Own!ExpandAfterFirstStep = ExpandAfterFirstStep
    BY OwnSettings
  <2>3. Own!Disabled = Disabled /\ (\A n, size : Own!RowOf(n, size) = RowOf(n, size))
         /\ \A data, times : Own!RepeatBatch(data, times) = RepeatBatch(data, times)
    BY OwnHelpers
  <2> QED BY Zenon, <1>1, <2>1, <2>2, <2>3 DEF Own!BeamStart, BeamStart
<1> QED BY <1>1, <1>2, OwnSettings DEF Own!Start, Start, Own!GreedyStart, GreedyStart

\* A search over the compared entry.
Single(s) == Sized(s) /\ s.offset = <<entry>>

\* A search of one entry has its rows only.
LEMMA SingleRows ==
  ASSUME Alike, NEW s, Single(s)
  PROVE  /\ Width(s) \in Nat \ {0} /\ s.step \in Nat
         /\ DOMAIN s.offset = {1} /\ s.offset[1] = entry
         /\ Prefix(entry) \in Seq(Words) /\ Len(Prefix(entry)) \in Nat
         /\ Own!Prefix(entry) = Prefix(entry)
         /\ DOMAIN s.cache = 1..Width(s) /\ (IsGreedy => Width(s) = 1)
         /\ \A r \in 1..Width(s) : EntryOf(r, Width(s)) = 1 /\ s.memory[EntryOf(r, Width(s))] = s.memory[1]
         /\ \A k \in 1..Width(s) : Flat(1, k, Width(s)) = k
<1>1. CallOK /\ entry \in Entries
  BY DEF Alike
<1>2. Sized(s) /\ s.offset = <<entry>>
  BY DEF Single
<1>3. s.step \in Nat /\ s.expanded \in BOOLEAN /\ call.beamSize \in Nat \ {0}
  BY <1>1, <1>2, CallIs DEF Sized, State
<1>4. Width(s) \in Nat \ {0}
  BY <1>3 DEF Width
<1>5. DOMAIN s.offset = {1} /\ s.offset[1] = entry /\ Len(s.offset) = 1
  BY <1>2
<1>6. Prefix(entry) \in Seq(Words) /\ Len(Prefix(entry)) \in Nat
  BY <1>1, PromptIs
<1>7. DOMAIN s.cache = 1..Width(s)
  <2>1. Size(s) = Width(s)
    BY <1>4, <1>5 DEF Size
  <2> QED BY <1>2, <2>1 DEF Sized, State
<1>8. IsGreedy => Width(s) = 1
  BY <1>2 DEF Sized, Width
<1>9. \A r \in 1..Width(s) : EntryOf(r, Width(s)) = 1 /\ Flat(1, r, Width(s)) = r
  <2> SUFFICES ASSUME NEW r \in 1..Width(s)
               PROVE  EntryOf(r, Width(s)) = 1 /\ Flat(1, r, Width(s)) = r
    OBVIOUS
  <2>1. Flat(1, r, Width(s)) = r
    BY <1>4 DEF Flat
  <2>2. EntryOf(Flat(1, r, Width(s)), Width(s)) = 1
    BY <1>1, <1>2, <1>5, RowsOf
  <2> QED BY <2>1, <2>2
<1>10. Own!Prefix(entry) = Prefix(entry)
  BY <1>1, OwnSettings
<1> QED BY <1>3, <1>4, <1>5, <1>6, <1>7, <1>8, <1>9, <1>10

\* The least length is imposed on the same words.
LEMMA OwnMinLength ==
  ASSUME Alike, NEW s, Single(s)
  PROVE  Own!MinLengthRows(s) = MinLengthRows(s)
<1>1. /\ s.step \in Nat /\ DOMAIN s.offset = {1} /\ s.offset[1] = entry
      /\ Prefix(entry) \in Seq(Words) /\ Len(Prefix(entry)) \in Nat /\ Own!Prefix(entry) = Prefix(entry)
      /\ DOMAIN s.cache = 1..Width(s) /\ (IsGreedy => Width(s) = 1) /\ entry \in Entries
  BY SingleRows DEF Alike
<1>2. OwnCall.minLength = call.minLength /\ call.minLength \in Nat
  BY OwnFields, CallIs DEF Alike
<1>3. Own!MinLengthByEntry = (Prefix(entry) # <<>> /\ ~ReturnPrefix)
  <2>1. Own!HasPrefix = (Prefix(entry) # <<>>) /\ Own!ReturnPrefix = ReturnPrefix
    BY OwnSettings
  <2> QED BY Zenon, <2>1 DEF Own!MinLengthByEntry
<1>4. CASE MinLengthByEntry = Own!MinLengthByEntry
  BY <1>1, <1>2, <1>4 DEF Own!MinLengthRows, MinLengthRows
<1>5. CASE MinLengthByEntry # Own!MinLengthByEntry
  <2>1. MinLengthByEntry /\ ~Own!MinLengthByEntry /\ Prefix(entry) = <<>>
    BY <1>1, <1>3, <1>5 DEF MinLengthByEntry, HasPrefix
  <2>2. IsGreedy /\ Len(Prefix(entry)) = 0
    BY <1>3, <2>1, OwnBeam DEF MinLengthByEntry
  <2>3. DOMAIN s.cache = {1}
    BY <1>1, <2>2
  <2> QED BY <1>1, <1>2, <2>1, <2>2, <2>3 DEF Own!MinLengthRows, MinLengthRows
<1> QED BY <1>4, <1>5

\* The same words end a hypothesis.
LEMMA OwnFinals ==
  /\ \A words : Own!NgramFinals(words) = NgramFinals(words)
  /\ \A words : Own!SequenceFinals(words) = SequenceFinals(words)
<1>1. OwnCall.noRepeatNgram = call.noRepeatNgram /\ OwnCall.bannedSequences = call.bannedSequences
  BY OwnFields
<1>2. \A words : Own!NgramFinals(words) = NgramFinals(words)
  BY <1>1 DEF Own!NgramFinals, NgramFinals
<1>3. \A words : Own!SequenceFinals(words) = SequenceFinals(words)
  BY <1>1 DEF Own!SequenceFinals, SequenceFinals, Own!Last, Last, Own!Front, Front, Own!IsSuffix,
              IsSuffix, Own!IsPrefix, IsPrefix, Own!Reverse, Reverse
<1> QED BY <1>2, <1>3

\* The same words are disabled.
LEMMA OwnDisabled ==
  ASSUME Alike, NEW s, Single(s), NEW r \in 1..Width(s)
  PROVE  Own!DisabledWords(s, r) = DisabledWords(s, r)
<1>1. Own!BeginWords(s, r) = BeginWords(s, r)
  <2>1. EntryOf(r, Width(s)) = 1 /\ s.offset[1] = entry /\ Own!Prefix(entry) = Prefix(entry)
    BY SingleRows
  <2>2. Own!EntryOf(r, Own!Width(s)) = 1 /\ OwnCall.suppressedBegin = call.suppressedBegin
    BY <2>1, OwnFields, OwnHelpers, OwnSettings
  <2> QED BY <2>1, <2>2 DEF Own!BeginWords, BeginWords
<1>2. Own!MinLengthRows(s) = MinLengthRows(s)
  BY OwnMinLength
<1>3. OwnCall.endIds = call.endIds /\ OwnCall.suppressed = call.suppressed
  BY OwnFields
<1> QED BY Zenon, <1>1, <1>2, <1>3, OwnFinals DEF Own!DisabledWords, DisabledWords

\* A word costs the same.
LEMMA OwnCost ==
  ASSUME Alike, NEW s, Single(s), NEW r \in 1..Width(s), NEW w
  PROVE  Own!WordCost(s, r, w) = WordCost(s, r, w)
<1>1. Own!DisabledWords(s, r) = DisabledWords(s, r)
  BY OwnDisabled
<1>2. Own!Words = Words /\ Own!Disabled = Disabled /\ Own!ToSet(s.alive[r]) = ToSet(s.alive[r])
      /\ Own!EntryOf(r, Own!Width(s)) = EntryOf(r, Width(s))
  BY OwnHelpers, OwnSettings
<1>3. Own!Read(s, r) = Read(s, r) /\ OwnCall.repetition = call.repetition /\ Own!Uniform = Uniform
  BY OwnFields, OwnSettings DEF Own!Uniform, Uniform
<1> QED BY Zenon, <1>1, <1>2, <1>3 DEF Own!WordCost, WordCost

\* TopK for a given order of equal scores.
TopKBy(ascending, candidates, count) ==
  LET id(c) == c.origin * VocabularySize + c.word
      before(c, d) ==
        \/ c.cost < d.cost
        \/ c.cost = d.cost /\ IF ascending THEN id(c) < id(d) ELSE id(c) > id(d)
      rank(c) == Cardinality({d \in candidates : before(d, c)}) + 1
  IN SubSeq([k \in 1..count |-> CHOOSE c \in candidates : rank(c) = k], 1, count)

\* The best candidates are the same.
LEMMA OwnTopK == \A candidates, count : Own!TopK(candidates, count) = TopK(candidates, count)
<1>1. OwnCall.ascending = call.ascending
  BY OwnFields
<1> SUFFICES ASSUME NEW candidates, NEW count
             PROVE  Own!TopK(candidates, count) = TopK(candidates, count)
  OBVIOUS
<1>2. TopK(candidates, count) = TopKBy(call.ascending, candidates, count)
  BY Zenon DEF TopK, TopKBy
<1>3. Own!TopK(candidates, count) = TopKBy(OwnCall.ascending, candidates, count)
  BY Zenon DEF Own!TopK, TopKBy, Own!Cardinality, Cardinality
<1> QED BY Zenon, <1>1, <1>2, <1>3

\* A prefix replaces the same candidates.
LEMMA OwnPrefix ==
  ASSUME Alike, NEW s, Single(s), NEW k, NEW candidate, IsGreedy => k = 1
  PROVE  Own!WithPrefix(s, 1, k, candidate) = WithPrefix(s, 1, k, candidate)
<1>1. s.offset[1] = entry /\ Own!Prefix(entry) = Prefix(entry)
  BY SingleRows
<1>2. Own!Flat(1, 1, Own!Width(s)) = Flat(1, 1, Width(s)) /\ OwnCall.endIds = call.endIds
      /\ Own!Penalised = Penalised
  BY OwnFields, OwnHelpers, OwnSettings DEF Own!Penalised, Penalised
<1>3. (k > 1) = FALSE \/ Own!HasPrefix = HasPrefix
  BY DEF Alike, SettingsOwn
<1>4. CASE (k > 1) = FALSE
  BY Zenon, <1>1, <1>2, <1>4 DEF Own!WithPrefix, WithPrefix
<1>5. CASE Own!HasPrefix = HasPrefix
  BY Zenon, <1>1, <1>2, <1>5 DEF Own!WithPrefix, WithPrefix
<1> QED BY <1>3, <1>4, <1>5

\* An entry ends with the same words and at the same step.
LEMMA OwnEnds ==
  ASSUME Alike
  PROVE  /\ \A s : Own!IsLastStep(s, entry) = IsLastStep(s, entry)
         /\ \A s, word : Own!Ends(s, entry, word) = Ends(s, entry, word)
<1>1. /\ Own!Prefix(entry) = Prefix(entry) /\ Own!ReturnPrefix = ReturnPrefix
      /\ OwnCall.maxLength = call.maxLength /\ OwnCall.endIds = call.endIds
  BY OwnFields, OwnSettings DEF Alike
<1>2. \A s : Own!IsLastStep(s, entry) = IsLastStep(s, entry)
  BY Zenon, <1>1 DEF Own!IsLastStep, IsLastStep
<1>3. \A s, word : Own!Ends(s, entry, word) = Ends(s, entry, word)
  BY Zenon, <1>1 DEF Own!Ends, Ends
<1> QED BY <1>2, <1>3

\* The candidates of the entry, as its own call has them.
OwnChoices(s, n) ==
  {[origin |-> r, word |-> w, cost |-> Own!Plus(s.scores[r], Own!WordCost(s, r, w))] :
     r \in Own!ToSet(Own!EntryRows(n, Own!Width(s))), w \in Own!Words}
OwnBest(s, n) == Own!TopK(OwnChoices(s, n), Own!NumCandidates)

\* The candidates of beam search are the same.
LEMMA OwnCandidates ==
  ASSUME Alike, ~IsGreedy, NEW s, Single(s)
  PROVE  Own!BeamCandidates(s) = BeamCandidates(s)
<1> DEFINE R == ToSet(EntryRows(1, Width(s)))
<1>1. R = 1..Width(s)
  <2>1. EntryRows(1, Width(s)) = [k \in 1..Width(s) |-> k]
    BY SingleRows DEF EntryRows
  <2> QED BY <2>1 DEF ToSet
<1>2. OwnChoices(s, 1) = RowChoices(s, 1)
  <2>1. Own!ToSet(Own!EntryRows(1, Own!Width(s))) = R /\ Own!Words = Words
    BY OwnHelpers, OwnSettings
  <2>2. \A r \in R, w \in Words : Own!Plus(s.scores[r], Own!WordCost(s, r, w))
                                 = Plus(s.scores[r], WordCost(s, r, w))
    BY <1>1, OwnCost, OwnHelpers
  <2>3. RowChoices(s, 1) = {[origin |-> r, word |-> w, cost |-> Plus(s.scores[r], WordCost(s, r, w))] :
                              r \in R, w \in Words}
    BY DEF RowChoices, Choice
  <2> HIDE DEF R
  <2> QED BY <2>1, <2>2, <2>3 DEF OwnChoices
<1>3. Own!NumCandidates = NumCandidates
  BY OwnSettings
<1>4. OwnBest(s, 1) = Best(s, 1)
  BY Zenon, <1>2, <1>3, OwnTopK DEF OwnBest, Best
<1> DEFINE own(n) == [k \in 1..Own!NumCandidates |-> Own!WithPrefix(s, n, k, OwnBest(s, n)[k])]
           of(n) == [k \in 1..NumCandidates |-> WithPrefix(s, n, k, Best(s, n)[k])]
<1>5. own(1) = of(1)
  <2>1. \A k : Own!WithPrefix(s, 1, k, Best(s, 1)[k]) = WithPrefix(s, 1, k, Best(s, 1)[k])
    BY OwnPrefix
  <2> QED BY Zenon, <1>3, <1>4, <2>1
<1>6. BeamCandidates(s) = FlattenSeq([n \in DOMAIN s.offset |-> of(n)])
  BY DEF BeamCandidates, Best, RowChoices, Choice
<1>7. Own!BeamCandidates(s) = Own!FlattenSeq([n \in DOMAIN s.offset |-> own(n)])
  BY DEF Own!BeamCandidates, OwnBest, OwnChoices
<1>8. [n \in DOMAIN s.offset |-> own(n)] = [n \in DOMAIN s.offset |-> of(n)]
  <2> HIDE DEF own, of
  <2>1. DOMAIN s.offset = {1}
    BY SingleRows
  <2> QED BY <1>5, <2>1
<1> HIDE DEF own, of
<1> QED BY <1>6, <1>7, <1>8, OwnHelpers

\* The same beams are finished.
LEMMA OwnFinished ==
  ASSUME Alike, NEW s, Single(s), NEW candidates
  PROVE  Own!FinishedBeams(s, 1, candidates) = FinishedBeams(s, 1, candidates)
<1>1. s.offset[1] = entry
  BY SingleRows
<1>2. OwnCall.beamSize = call.beamSize /\ Own!NumCandidates = NumCandidates
  BY OwnFields, OwnSettings
<1>3. Own!IsLastStep(s, entry) = IsLastStep(s, entry)
  BY OwnEnds
<1>4. \A k : Own!Ends(s, entry, candidates[Own!Flat(1, k, NumCandidates)].word) = Ends(s, entry, candidates[Flat(1, k, NumCandidates)].word)
  BY OwnEnds, OwnHelpers
<1> QED BY Zenon, <1>1, <1>2, <1>3, <1>4 DEF Own!FinishedBeams, FinishedBeams

\* The same candidates replace them.
LEMMA OwnActive ==
  ASSUME Alike, NEW s, Single(s), NEW k, NEW candidates
  PROVE  Own!ActiveCandidate(s, 1, k, candidates) = ActiveCandidate(s, 1, k, candidates)
<1>1. Own!FinishedBeams(s, 1, candidates) = FinishedBeams(s, 1, candidates)
  BY OwnFinished
<1>2. /\ OwnCall.beamSize = call.beamSize /\ Own!NumCandidates = NumCandidates
      /\ OwnCall.endIds = call.endIds
  BY OwnFields, OwnSettings
<1>3. /\ \A j, size : Own!Flat(1, j, size) = Flat(1, j, size)
      /\ (\A S : Own!Cardinality(S) = Cardinality(S)) /\ \A S : Own!InOrder(S) = InOrder(S)
  BY OwnHelpers
<1>4. {j \in (OwnCall.beamSize + 1)..Own!NumCandidates : candidates[Own!Flat(1, j, Own!NumCandidates)].word \notin OwnCall.endIds}
      = {j \in (call.beamSize + 1)..NumCandidates : candidates[Flat(1, j, NumCandidates)].word \notin call.endIds}
  BY Zenon, <1>2, <1>3
<1> QED BY Zenon, <1>1, <1>3, <1>4 DEF Own!ActiveCandidate, ActiveCandidate

\* The same hypotheses are registered.
LEMMA OwnRegistered ==
  ASSUME Alike, NEW s, Single(s), NEW candidates, NEW alive
  PROVE  Own!Registered(s, 1, candidates, alive) = Registered(s, 1, candidates, alive)
<1>1. /\ Own!FinishedBeams(s, 1, candidates) = FinishedBeams(s, 1, candidates)
      /\ s.offset[1] = entry /\ Own!Prefix(entry) = Prefix(entry)
  BY OwnFinished, SingleRows
<1>2. /\ Own!ReturnPrefix = ReturnPrefix /\ Own!NumCandidates = NumCandidates
      /\ OwnCall.endIds = call.endIds /\ OwnCall.includeEos = call.includeEos
  BY OwnFields, OwnSettings
<1>3. (\A j, size : Own!Flat(1, j, size) = Flat(1, j, size)) /\ \A S : Own!InOrder(S) = InOrder(S)
  BY OwnHelpers
<1>4. Own!InOrder(Own!FinishedBeams(s, 1, candidates)) = InOrder(FinishedBeams(s, 1, candidates))
  BY <1>1, <1>3
<1> QED BY Zenon, <1>1, <1>2, <1>3, <1>4 DEF Own!Registered, Registered

\* Finalized for given options.
FinalizedBy(normalize, number, hypotheses) ==
  LET length(h) == IF normalize THEN Len(h.words) ELSE 1
      better(i, j) ==
        LET left == hypotheses[i].cost * length(hypotheses[j])
            right == hypotheses[j].cost * length(hypotheses[i])
        IN left < right \/ (left = right /\ i < j)
      rank(i) == Cardinality({j \in DOMAIN hypotheses : better(j, i)}) + 1
  IN [k \in 1..Min({Len(hypotheses), number}) |->
        hypotheses[CHOOSE i \in DOMAIN hypotheses : rank(i) = k]]

\* The results of an entry are the same.
LEMMA OwnResults ==
  ASSUME Alike, NEW s, Single(s)
  PROVE  /\ \A topDone, hypotheses : Own!IsFinished(s, 1, topDone, hypotheses) = IsFinished(s, 1, topDone, hypotheses)
         /\ \A hypotheses : Own!Finalized(hypotheses) = Finalized(hypotheses)
         /\ \A t, kept : Own!Compact(t, kept) = Compact(t, kept)
<1>1. s.offset[1] = entry /\ Own!IsLastStep(s, entry) = IsLastStep(s, entry)
  BY OwnEnds, SingleRows
<1>2. /\ OwnCall.numHypotheses = call.numHypotheses /\ OwnCall.maxCandidates = call.maxCandidates
      /\ OwnCall.normalize = call.normalize /\ OwnCall.beamSize = call.beamSize
      /\ Own!AllowEarlyExit = AllowEarlyExit
  BY OwnFields, OwnSettings
<1>3. \A topDone, hypotheses : Own!IsFinished(s, 1, topDone, hypotheses) = IsFinished(s, 1, topDone, hypotheses)
  BY Zenon, <1>1, <1>2 DEF Own!IsFinished, IsFinished
<1>4. \A t, kept : Own!Compact(t, kept) = Compact(t, kept)
  <2> SUFFICES ASSUME NEW t, NEW kept PROVE Own!Compact(t, kept) = Compact(t, kept)
    OBVIOUS
  <2>1. /\ \A n, size : Own!EntryRows(n, size) = EntryRows(n, size)
        /\ \A r : Own!FlattenSeq(r) = FlattenSeq(r)
        /\ \A data, indices : Own!Gather(data, indices) = Gather(data, indices)
    BY OwnHelpers
  <2>2. Own!FlattenSeq([m \in DOMAIN kept |-> Own!EntryRows(kept[m], OwnCall.beamSize)])
        = FlattenSeq([m \in DOMAIN kept |-> EntryRows(kept[m], call.beamSize)])
    BY Zenon, <1>2, <2>1
  <2> QED BY Zenon, <2>1, <2>2 DEF Own!Compact, Compact
<1>5. \A hypotheses : Own!Finalized(hypotheses) = Finalized(hypotheses)
  <2> SUFFICES ASSUME NEW hypotheses PROVE Own!Finalized(hypotheses) = Finalized(hypotheses)
    OBVIOUS
  <2>1. Finalized(hypotheses) = FinalizedBy(call.normalize, call.numHypotheses, hypotheses)
    BY Zenon DEF Finalized, FinalizedBy
  <2>2. Own!Finalized(hypotheses) = FinalizedBy(OwnCall.normalize, OwnCall.numHypotheses, hypotheses)
    BY Zenon DEF Own!Finalized, FinalizedBy, Own!Cardinality, Cardinality, Own!Min, Min
  <2> QED BY Zenon, <1>2, <2>1, <2>2
<1> QED BY <1>3, <1>4, <1>5

\* One turn of beam search gives the same state in both calls.
LEMMA OwnBeamStep ==
  ASSUME Alike, ~IsGreedy, NEW s, Single(s)
  PROVE  Own!BeamStep(s) = BeamStep(s)
<1>1. PICK c : c = BeamCandidates(s)
  OBVIOUS
<1>2. Own!BeamCandidates(s) = c
  BY <1>1, OwnCandidates
<1> DEFINE origins(x) == [p \in DOMAIN x |-> x[p].origin]
           alive(x) == [p \in DOMAIN x |-> Append(s.alive[origins(x)[p]], x[p].word)]
           active(x) == FlattenSeq([n \in DOMAIN s.offset |->
                       [k \in 1..call.beamSize |-> Flat(n, ActiveCandidate(s, n, k, x), NumCandidates)]])
           topDone(x) == [n \in DOMAIN s.offset |-> s.topDone[n] \/ 1 \in FinishedBeams(s, n, x)]
           hypotheses(x) == [n \in DOMAIN s.offset |->
                            s.results[s.offset[n]] \o Registered(s, n, x, alive(x))]
           finished(x) == {n \in DOMAIN s.offset : IsFinished(s, n, topDone(x)[n], hypotheses(x)[n])}
           results(x) == [e \in Entries |->
                         IF \E n \in DOMAIN s.offset : s.offset[n] = e
                         THEN LET n == CHOOSE n \in DOMAIN s.offset : s.offset[n] = e
                              IN IF n \in finished(x) THEN Finalized(hypotheses(x)[n]) ELSE hypotheses(x)[n]
                         ELSE s.results[e]]
           ownActive(x) == Own!FlattenSeq([n \in DOMAIN s.offset |->
                          [k \in 1..OwnCall.beamSize |->
                             Own!Flat(n, Own!ActiveCandidate(s, n, k, x), Own!NumCandidates)]])
           ownTopDone(x) == [n \in DOMAIN s.offset |-> s.topDone[n] \/ 1 \in Own!FinishedBeams(s, n, x)]
           ownHypotheses(x) == [n \in DOMAIN s.offset |->
                               s.results[s.offset[n]] \o Own!Registered(s, n, x, alive(x))]
           ownFinished(x) == {n \in DOMAIN s.offset : Own!IsFinished(s, n, ownTopDone(x)[n], ownHypotheses(x)[n])}
           ownResults(x) == [e \in Own!Entries |->
                            IF \E n \in DOMAIN s.offset : s.offset[n] = e
                            THEN LET n == CHOOSE n \in DOMAIN s.offset : s.offset[n] = e
                                 IN IF n \in ownFinished(x) THEN Own!Finalized(ownHypotheses(x)[n])
                                                         ELSE ownHypotheses(x)[n]
                            ELSE s.results[e]]
<1>3. DOMAIN s.offset = {1}
  BY SingleRows
<1>4. OwnCall.beamSize = call.beamSize /\ Own!NumCandidates = NumCandidates /\ Own!Entries = Entries
  BY OwnFields, OwnSettings
<1>5. ownActive(c) = active(c)
  <2> DEFINE of(n) == [k \in 1..call.beamSize |-> Flat(n, ActiveCandidate(s, n, k, c), NumCandidates)]
             own(n) == [k \in 1..OwnCall.beamSize |->
                          Own!Flat(n, Own!ActiveCandidate(s, n, k, c), Own!NumCandidates)]
  <2>1. \A k : Own!Flat(1, Own!ActiveCandidate(s, 1, k, c), Own!NumCandidates)
              = Flat(1, ActiveCandidate(s, 1, k, c), NumCandidates)
    BY <1>4, OwnActive, OwnHelpers
  <2>2. own(1) = of(1)
    BY Zenon, <1>4, <2>1
  <2>3. [n \in DOMAIN s.offset |-> own(n)] = [n \in DOMAIN s.offset |-> of(n)]
    <3> HIDE DEF own, of
    <3> QED BY <1>3, <2>2
  <2> QED BY Zenon, <2>3, OwnHelpers
<1>6. ownTopDone(c) = topDone(c)
  BY Zenon, <1>3, OwnFinished
<1>7. ownHypotheses(c) = hypotheses(c)
  <2>1. \A n \in DOMAIN s.offset : Own!Registered(s, n, c, alive(c)) = Registered(s, n, c, alive(c))
    <3> HIDE DEF alive
    <3> QED BY <1>3, OwnRegistered
  <2> HIDE DEF alive
  <2> QED BY Zenon, <2>1
<1>8. ownFinished(c) = finished(c)
  <2>1. \A n \in DOMAIN s.offset : \A t, h : Own!IsFinished(s, n, t, h) = IsFinished(s, n, t, h)
    BY <1>3, OwnResults
  <2> HIDE DEF topDone, ownTopDone, hypotheses, ownHypotheses
  <2> QED BY Zenon, <1>6, <1>7, <2>1
<1>9. ownResults(c) = results(c)
  <2>1. \A h : Own!Finalized(h) = Finalized(h)
    BY OwnResults
  <2> HIDE DEF finished, ownFinished, hypotheses, ownHypotheses
  <2> QED BY Zenon, <1>4, <1>7, <1>8, <2>1
<1> DEFINE with(x, a, r, d) ==
             [s EXCEPT !.step = @ + 1, !.expanded = TRUE, !.results = r, !.topDone = d,
                       !.ids = [q \in DOMAIN a |-> x[a[q]].word],
                       !.scores = [q \in DOMAIN a |-> x[a[q]].cost],
                       !.alive = Gather(alive(x), a),
                       !.cache = [q \in DOMAIN a |-> Read(s, origins(x)[a[q]])]]
           ownWith(x, a, r, d) ==
             [s EXCEPT !.step = @ + 1, !.expanded = TRUE, !.results = r, !.topDone = d,
                       !.ids = [q \in DOMAIN a |-> x[a[q]].word],
                       !.scores = [q \in DOMAIN a |-> x[a[q]].cost],
                       !.alive = Own!Gather(alive(x), a),
                       !.cache = [q \in DOMAIN a |-> Own!Read(s, origins(x)[a[q]])]]
<1> DEFINE turn(x) == Compact(with(x, active(x), results(x), topDone(x)),
                            InOrder(DOMAIN s.offset \ finished(x)))
           ownTurn(x) == Own!Compact(ownWith(x, ownActive(x), ownResults(x), ownTopDone(x)),
                                     Own!InOrder(DOMAIN s.offset \ ownFinished(x)))
<1>10. BeamStep(s) = turn(BeamCandidates(s))
  BY Zenon DEF BeamStep
<1>11. Own!BeamStep(s) = ownTurn(Own!BeamCandidates(s))
  BY Zenon DEF Own!BeamStep
<1>12. \A a, r, d : ownWith(c, a, r, d) = with(c, a, r, d)
  <2>1. /\ \A data, indices : Own!Gather(data, indices) = Gather(data, indices)
        /\ \A r : Own!Read(s, r) = Read(s, r)
    BY OwnHelpers, OwnSettings
  <2> HIDE DEF alive, origins
  <2> QED BY Zenon, <2>1
<1> HIDE DEF with, ownWith, active, results, topDone, finished, ownActive, ownResults, ownTopDone, ownFinished
<1>13. /\ Own!InOrder(DOMAIN s.offset \ finished(c)) = InOrder(DOMAIN s.offset \ finished(c))
       /\ \A t, kept : Own!Compact(t, kept) = Compact(t, kept)
  BY OwnHelpers, OwnResults
<1>14. ownTurn(c) = turn(c)
  BY Zenon, <1>5, <1>6, <1>8, <1>9, <1>12, <1>13
<1> HIDE DEF turn, ownTurn
<1> QED BY Zenon, <1>1, <1>2, <1>10, <1>11, <1>14

\* One turn of greedy search gives the same state in both calls.
LEMMA OwnGreedyStep ==
  ASSUME Alike, IsGreedy, NEW s, Single(s)
  PROVE  Own!GreedyStep(s) = GreedyStep(s)
<1>1. /\ DOMAIN s.offset = {1} /\ s.offset[1] = entry /\ 1 \in 1..Width(s)
      /\ Own!Prefix(entry) = Prefix(entry)
  BY SingleRows
<1>2. Own!GreedyWord(s, 1) = GreedyWord(s, 1)
  <2>1. \A w : Own!WordCost(s, 1, w) = WordCost(s, 1, w)
    BY <1>1, OwnCost
  <2>2. {[origin |-> 1, word |-> w, cost |-> Own!WordCost(s, 1, w)] : w \in Own!Words}
        = {[origin |-> 1, word |-> w, cost |-> WordCost(s, 1, w)] : w \in Words}
    BY Zenon, <2>1, OwnHelpers
  <2>3. \A c : Own!WithPrefix(s, 1, 1, c) = WithPrefix(s, 1, 1, c)
    BY OwnPrefix
  <2> QED BY Zenon, <2>2, <2>3, OwnTopK DEF Own!GreedyWord, GreedyWord
<1>3. \A sample : Own!Extended(s, 1, sample) = Extended(s, 1, sample)
  <2>1. /\ OwnCall.endIds = call.endIds /\ OwnCall.includeEos = call.includeEos
        /\ Own!ReturnPrefix = ReturnPrefix /\ \A a, b : Own!Plus(a, b) = Plus(a, b)
    BY OwnFields, OwnHelpers, OwnSettings
  <2> QED BY Zenon, <1>1, <2>1 DEF Own!Extended, Extended
<1>4. Own!Stopped(s, entry) = Stopped(s, entry)
  <2>1. OwnCall.stops = call.stops /\ Own!ReturnPrefix = ReturnPrefix
    BY OwnFields, OwnSettings
  <2> QED BY Zenon, <1>1, <2>1 DEF Own!Stopped, Stopped
<1> DEFINE sample == [n \in DOMAIN s.offset |-> GreedyWord(s, n)]
           ownSample == [n \in DOMAIN s.offset |-> Own!GreedyWord(s, n)]
           finished == {n \in DOMAIN s.offset : \/ Ends(s, s.offset[n], sample[n].word)
                                                \/ IsLastStep(s, s.offset[n])
                                                \/ Stopped(s, s.offset[n])}
           ownFinished == {n \in DOMAIN s.offset : \/ Own!Ends(s, s.offset[n], ownSample[n].word)
                                                   \/ Own!IsLastStep(s, s.offset[n])
                                                   \/ Own!Stopped(s, s.offset[n])}
           rowOf(e) == {n \in DOMAIN s.offset : s.offset[n] = e}
           results == [e \in Entries |-> IF rowOf(e) = {} THEN s.results[e]
                                         ELSE LET n == CHOOSE n \in rowOf(e) : TRUE
                                              IN <<Extended(s, n, sample[n])>>]
           ownResults == [e \in Own!Entries |-> IF rowOf(e) = {} THEN s.results[e]
                                                ELSE LET n == CHOOSE n \in rowOf(e) : TRUE
                                                     IN <<Own!Extended(s, n, ownSample[n])>>]
<1>5. ownSample = sample
  BY Zenon, <1>1, <1>2
<1>6. ownFinished = finished
  <2>1. \A n \in DOMAIN s.offset : s.offset[n] = entry
    BY <1>1
  <2> HIDE DEF sample, ownSample
  <2> QED BY Zenon, <1>4, <1>5, <2>1, OwnEnds
<1>7. ownResults = results
  <2>1. ASSUME NEW e, rowOf(e) # {}
        PROVE  <<Own!Extended(s, CHOOSE n \in rowOf(e) : TRUE, ownSample[CHOOSE n \in rowOf(e) : TRUE])>>
               = <<Extended(s, CHOOSE n \in rowOf(e) : TRUE, sample[CHOOSE n \in rowOf(e) : TRUE])>>
    <3>1. PICK first : first = CHOOSE n \in rowOf(e) : TRUE
      OBVIOUS
    <3>2. first = 1
      BY <1>1, <2>1, <3>1
    <3> HIDE DEF sample, ownSample
    <3> QED BY Zenon, <1>3, <1>5, <3>1, <3>2
  <2>2. Own!Entries = Entries
    BY OwnSettings
  <2> HIDE DEF rowOf, sample, ownSample
  <2> QED BY Zenon, <2>1, <2>2
<1> DEFINE next(r, m) ==
             [s EXCEPT !.step = @ + 1, !.ids = [n \in DOMAIN s.offset |-> m[n].word],
                       !.alive = [n \in DOMAIN s.offset |-> Append(s.alive[n], m[n].word)],
                       !.cache = [n \in DOMAIN s.offset |-> Read(s, n)], !.results = r]
           ownNext(r, m) ==
             [s EXCEPT !.step = @ + 1, !.ids = [n \in DOMAIN s.offset |-> m[n].word],
                       !.alive = [n \in DOMAIN s.offset |-> Append(s.alive[n], m[n].word)],
                       !.cache = [n \in DOMAIN s.offset |-> Own!Read(s, n)], !.results = r]
<1>8. GreedyStep(s) = KeepAlive(next(results, sample), InOrder(DOMAIN s.offset \ finished))
  BY Zenon DEF GreedyStep
<1>9. Own!GreedyStep(s) = Own!KeepAlive(ownNext(ownResults, ownSample),
                                        Own!InOrder(DOMAIN s.offset \ ownFinished))
  BY Zenon DEF Own!GreedyStep
<1>10. \A r, m : ownNext(r, m) = next(r, m)
  BY Zenon, OwnSettings
<1>11. \A t, kept : Own!KeepAlive(t, kept) = KeepAlive(t, kept)
  BY Zenon DEF Own!KeepAlive, KeepAlive, Own!Gather, Gather
<1>12. Own!InOrder(DOMAIN s.offset \ finished) = InOrder(DOMAIN s.offset \ finished)
  BY OwnHelpers
<1> HIDE DEF next, ownNext, sample, ownSample, finished, ownFinished, results, ownResults
<1> QED BY Zenon, <1>5, <1>6, <1>7, <1>8, <1>9, <1>10, <1>11, <1>12

-----------------------------------------------------------------------------
(* The results of an entry do not depend on the others. *)

\* The length of the longest sequence of entry e, and a search that is not there yet.
LastLength(e) == call.maxLength + IF ReturnPrefix THEN 0 ELSE Len(Prefix(e))
Waiting(s) == \A n \in 1..Len(s.offset) : s.step < LastLength(s.offset[n])

\* The reference search is well formed and agrees with the batch on its entry.
Agree == Sized(alone) /\ Aligned(alone) /\ Together(search, entry, alone) /\ Waiting(alone)

BatchInv == SearchInv /\ entry \in Entries /\ (SettingsOwn => Agree)

\* The state of the reference search, and what it has in common with the batch, in
\* the next state.
LEMMA AloneStays ==
  ASSUME NEW u, search' = u, NEW v, alone' = v, UNCHANGED <<call, entry>>
  PROVE  /\ Sized(v) => Sized(alone)'
         /\ Aligned(v) => Aligned(alone)'
         /\ Together(u, entry, v) => Together(search, entry, alone)'
         /\ Waiting(v) => Waiting(alone)'
<1>0. call' = call /\ entry' = entry
  OBVIOUS
<1>1. Sized(v) => Sized(alone)'
  BY Zenon, <1>0 DEF Sized, State, Entries, Width, IsGreedy, ExpandAfterFirstStep, NumCandidates, Size
<1>2. \A x, words : History(x, words)' = History(x, words)
  BY <1>0 DEF History, ForwardLength, Entries
<1>3. Aligned(v) => Aligned(alone)'
  BY Zenon, <1>0, <1>2 DEF Aligned, Width, RowOK, Read
<1>4. Together(u, entry, v) => Together(search, entry, alone)'
  <2>1. \A n : Like(u, n, v) => Like(search, n, alone)'
    <3> SUFFICES ASSUME NEW n, Like(u, n, v) PROVE Like(search, n, alone)'
      OBVIOUS
    <3>1. Width(search)' = Width(u) /\ IsGreedy' = IsGreedy
      BY Zenon, <1>0 DEF Width, IsGreedy
    <3>2. /\ v.step = u.step /\ v.expanded = u.expanded /\ Len(v.offset) = 1
          /\ v.offset[1] = u.offset[n] /\ v.results[u.offset[n]] = u.results[u.offset[n]]
          /\ IsGreedy \/ v.topDone[1] = u.topDone[n]
      BY DEF Like
    <3>3. ASSUME NEW k \in 1..Width(u)
          PROVE  /\ SameWords(alone, Flat(1, k, Width(u)), search, Flat(n, k, Width(u)))'
                 /\ IsGreedy' \/ alone'.scores[Flat(1, k, Width(u))] = search'.scores[Flat(n, k, Width(u))]
      BY <3>1 DEF Like, SameWords
    <3> QED BY Zenon, <3>1, <3>2, <3>3 DEF Like
  <2> QED BY Zenon, <1>0, <2>1 DEF Together
<1>5. Waiting(v) => Waiting(alone)'
  BY Zenon, <1>0 DEF Waiting, LastLength, ReturnPrefix, ForwardLength, Prefix, Entries
<1> QED BY <1>1, <1>3, <1>4, <1>5

\* The searches of the batch and of the entry alone start together.
LEMMA BatchInit == ASSUME Init PROVE BatchInv
<1>1. SearchInv /\ entry \in Entries
  BY SearchInit DEF Init
<1>2. ASSUME SettingsOwn PROVE Agree
  <2>1. CallOK /\ Alike
    BY <1>1, <1>2 DEF SearchInv, Alike
  <2>2. alone = Start(<<entry>>) /\ search = Start([x \in Entries |-> x])
    BY <2>1, OwnStart DEF Init
  <2>3. Sized(alone) /\ Aligned(alone) /\ Together(search, entry, alone)
    BY <1>1, <2>1, <2>2, StartTogether
  <2>4. Waiting(alone)
    <3>1. alone.step = 0 /\ alone.offset = <<entry>>
      <4>1. CASE IsGreedy
        BY <2>2, <4>1 DEF Start, GreedyStart, SearchState
      <4>2. CASE ~IsGreedy
        <5>1. Batch(<<entry>>) /\ 1 \in 1..Len(<<entry>>)
          BY <1>1 DEF Batch
        <5> QED BY <2>1, <2>2, <4>2, <5>1, BeamStartIs, BeamStartRows DEF Start
      <4> QED BY <4>1, <4>2
    <3>2. call.maxLength \in Nat /\ call.maxLength > 0 /\ Len(Prefix(entry)) \in Nat
      BY <1>1, <2>1, CallIs, PromptIs DEF CallOK, Valid
    <3> QED BY <3>1, <3>2 DEF Waiting, LastLength
  <2> QED BY <2>3, <2>4 DEF Agree
<1> QED BY <1>1, <1>2 DEF BatchInv

\* One turn of beam search for the batch and the reference of an entry.
LEMMA BeamTurnTogether ==
  ASSUME NaturalCosts, CallOK, ~IsGreedy, ~MinLengthMisplaced, NEW s, Sized(s), Aligned(s), Running(s),
         NEW e \in Entries, NEW a, Sized(a), Aligned(a), Together(s, e, a),
         NEW v, v = IF Running(a) THEN BeamStep(a) ELSE a
  PROVE  Sized(v) /\ Aligned(v) /\ Together(BeamStep(s), e, v)
<1>1. Sized(v) /\ Aligned(v)
  <2>1. Sized(BeamStep(a)) /\ Aligned(BeamStep(a))
    BY BeamTurn, BeamAligned
  <2> QED BY <2>1
<1>2. CASE \E n \in 1..Len(s.offset) : s.offset[n] = e
  <2>1. PICK n \in 1..Len(s.offset) : s.offset[n] = e
    BY <1>2
  <2>2. Pair(s, n, a)
    BY <2>1 DEF Pair, Together
  <2>3. v = BeamStep(a)
    BY <2>2, RunTogether
  <2> QED BY <1>1, <2>1, <2>2, <2>3, BeamTogether
<1>3. CASE \A n \in 1..Len(s.offset) : s.offset[n] # e
  <2>1. Len(a.offset) = 0 /\ a.results[e] = s.results[e]
    BY <1>3 DEF Together
  <2>2. a.offset = <<>>
    BY <2>1 DEF Sized, State
  <2>3. v = a
    BY <2>2 DEF Running
  <2>4. /\ BeamStep(s).results[e] = s.results[e]
        /\ \A m \in 1..Len(BeamStep(s).offset) : BeamStep(s).offset[m] # e
    BY <1>3, BeamGone
  <2> QED BY <1>1, <2>1, <2>3, <2>4 DEF Together
<1> QED BY <1>2, <1>3

\* One turn of greedy search for the batch and the reference of an entry.
LEMMA GreedyTurnTogether ==
  ASSUME NaturalCosts, CallOK, IsGreedy, ~MinLengthMisplaced, NEW s, Sized(s), Aligned(s), Running(s),
         NEW e \in Entries, NEW a, Sized(a), Aligned(a), Together(s, e, a),
         NEW v, v = IF Running(a) THEN GreedyStep(a) ELSE a
  PROVE  Sized(v) /\ Aligned(v) /\ Together(GreedyStep(s), e, v)
<1>1. Sized(v) /\ Aligned(v)
  <2>1. Sized(GreedyStep(a)) /\ Aligned(GreedyStep(a))
    BY GreedyTurn, GreedyAligned
  <2> QED BY <2>1
<1>2. CASE \E n \in 1..Len(s.offset) : s.offset[n] = e
  <2>1. PICK n \in 1..Len(s.offset) : s.offset[n] = e
    BY <1>2
  <2>2. Pair(s, n, a)
    BY <2>1 DEF Pair, Together
  <2>3. v = GreedyStep(a)
    BY <2>2, RunTogether
  <2> QED BY <1>1, <2>1, <2>2, <2>3, GreedyTogether
<1>3. CASE \A n \in 1..Len(s.offset) : s.offset[n] # e
  <2>1. Len(a.offset) = 0 /\ a.results[e] = s.results[e]
    BY <1>3 DEF Together
  <2>2. a.offset = <<>>
    BY <2>1 DEF Sized, State
  <2>3. v = a
    BY <2>2 DEF Running
  <2>4. /\ GreedyStep(s).results[e] = s.results[e]
        /\ \A m \in 1..Len(GreedyStep(s).offset) : GreedyStep(s).offset[m] # e
    BY <1>3, GreedyGone
  <2> QED BY <1>1, <2>1, <2>3, <2>4 DEF Together
<1> QED BY <1>2, <1>3

\* The entries that stay have not had their last step.
LEMMA WaitingStays ==
  ASSUME NaturalCosts, CallOK, NEW s, Sized(s), Waiting(s), NEW u,
         u = IF IsGreedy THEN GreedyStep(s) ELSE BeamStep(s)
  PROVE  Waiting(u)
<1>1. PICK kept : kept = IF IsGreedy THEN GreedyKept(s) ELSE Kept(s)
  OBVIOUS
<1>2. /\ u.step = s.step + 1 /\ Len(u.offset) = Len(kept)
      /\ \A m \in 1..Len(kept) : u.offset[m] = s.offset[kept[m]]
  BY <1>1, BeamTurn, GreedyTurn
<1>3. /\ s.step \in Nat /\ Len(s.offset) \in Nat /\ DOMAIN s.offset = 1..Len(s.offset)
      /\ \A n \in 1..Len(s.offset) : s.offset[n] \in Entries
  BY DEF Sized, State
<1>4. \A m \in 1..Len(kept) : kept[m] \in 1..Len(s.offset) /\ ~IsLastStep(s, s.offset[kept[m]])
  <2>1. CASE IsGreedy
    <3>1. \A m \in 1..Len(kept) : kept[m] \in (1..Len(s.offset)) \ GreedyLeaving(s)
      BY <1>1, <2>1, GreedyTurn DEF Selects
    <3> QED BY <1>3, <3>1 DEF GreedyLeaving
  <2>2. CASE ~IsGreedy
    <3>1. \A m \in 1..Len(kept) : kept[m] \in (1..Len(s.offset)) \ Leaving(s)
      BY <1>1, <2>2, KeptIs DEF Selects
    <3> QED BY <1>3, <3>1 DEF Leaving, IsFinished
  <2> QED BY <2>1, <2>2
<1>5. ASSUME NEW m \in 1..Len(kept) PROVE u.step < LastLength(u.offset[m])
  <2>1. PICK e \in Entries : e = s.offset[kept[m]] /\ u.offset[m] = e
    BY <1>2, <1>3, <1>4
  <2>2. s.step < LastLength(e) /\ ~IsLastStep(s, e)
    BY <1>4, <2>1 DEF Waiting
  <2>3. LastLength(e) \in Nat /\ s.step + 1 # LastLength(e)
    <3>1. call.maxLength \in Nat /\ Len(Prefix(e)) \in Nat
      BY CallIs, PromptIs
    <3> QED BY <2>2, <3>1 DEF LastLength, IsLastStep
  <2> QED BY <1>2, <1>3, <2>1, <2>2, <2>3
<1> QED BY <1>2, <1>5 DEF Waiting

\* The turn of the reference search is one of the batch's search.
LEMMA OwnTurnIs ==
  ASSUME Alike, Sized(search), Aligned(search), Running(search), Agree
  PROVE  OwnTurn = IF Running(alone) THEN (IF IsGreedy THEN GreedyStep(alone) ELSE BeamStep(alone))
                                     ELSE alone
<1>1. CASE \E n \in 1..Len(search.offset) : search.offset[n] = entry
  <2>1. PICK n \in 1..Len(search.offset) : search.offset[n] = entry
    BY <1>1
  <2>2. Pair(search, n, alone)
    BY <2>1 DEF Pair, Agree, Together
  <2>3. Running(alone) /\ Len(alone.offset) = 1 /\ alone.offset[1] = entry
    BY <2>1, <2>2, RunTogether DEF Pair, Like
  <2>4. Single(alone)
    <3>1. Sized(alone) /\ alone.offset \in Seq(Entries)
      BY DEF Agree, Sized, State
    <3> QED BY <2>3, <3>1 DEF Single
  <2>5. Own!Running(alone)
    <3>1. Own!MaxStep = LastLength(entry)
      <4>1. \A x : Max({x}) = x
        <5> SUFFICES ASSUME NEW x PROVE Max({x}) = x
          OBVIOUS
        <5> QED BY DEF Max
      <4>2. {Len(Own!Prefix(e)) : e \in Own!Entries} = {Len(Prefix(entry))}
        BY OwnSettings DEF Alike
      <4>3. Own!Max({Len(Own!Prefix(e)) : e \in Own!Entries}) = Len(Prefix(entry))
        BY Zenon, <4>1, <4>2, OwnHelpers
      <4>4. OwnCall.maxLength = call.maxLength /\ Own!ReturnPrefix = ReturnPrefix
        BY OwnFields, OwnSettings
      <4> QED BY Zenon, <4>3, <4>4 DEF Own!MaxStep, LastLength
    <3>2. alone.step < LastLength(entry)
      BY <2>3 DEF Agree, Waiting
    <3> QED BY <2>3, <3>1, <3>2 DEF Own!Running, Running
  <2>6. Own!Turn(alone) = IF IsGreedy THEN GreedyStep(alone) ELSE BeamStep(alone)
    <3>1. Own!IsGreedy = IsGreedy
      BY OwnSettings
    <3>2. CASE IsGreedy
      BY Zenon, <2>4, <3>1, <3>2, OwnGreedyStep DEF Own!Turn
    <3>3. CASE ~IsGreedy
      BY Zenon, <2>4, <3>1, <3>3, OwnBeamStep DEF Own!Turn
    <3> QED BY <3>2, <3>3
  <2> QED BY Zenon, <2>3, <2>5, <2>6 DEF OwnTurn
<1>2. CASE \A n \in 1..Len(search.offset) : search.offset[n] # entry
  <2>1. Len(alone.offset) = 0 /\ Sized(alone)
    BY <1>2 DEF Agree, Together
  <2>2. alone.offset = <<>>
    BY <2>1 DEF Sized, State
  <2>3. ~Running(alone) /\ ~Own!Running(alone)
    BY <2>2 DEF Running, Own!Running
  <2> QED BY Zenon, <2>3 DEF OwnTurn
<1> QED BY <1>1, <1>2

\* A turn of both leaves the entry the same in both.
LEMMA AgreeNext ==
  ASSUME NaturalCosts, BatchInv, SettingsOwn, [Next]_vars
  PROVE  Agree'
<1>1. CallOK /\ Sized(search) /\ Aligned(search) /\ Alike /\ Agree
  BY DEF BatchInv, SearchInv, Alike
<1>2. UNCHANGED <<call, entry>>
  BY DEF Next, GreedySearchStep, BeamSearchStep, vars
<1>3. PICK a : a = alone
  OBVIOUS
<1>4. Sized(a) /\ Aligned(a) /\ Together(search, entry, a) /\ Waiting(a) /\ entry \in Entries
  BY <1>1, <1>3 DEF Agree, Alike
<1>5. PICK u : search' = u
  OBVIOUS
<1>6. PICK v : alone' = v
  OBVIOUS
<1>7. Sized(v) /\ Aligned(v) /\ Together(u, entry, v) /\ Waiting(v)
  <2>1. CASE GreedySearchStep
    <3>1. IsGreedy /\ Running(search) /\ u = GreedyStep(search)
      BY <1>5, <2>1 DEF GreedySearchStep
    <3>2. v = IF Running(a) THEN GreedyStep(a) ELSE a
      <4>1. v = OwnTurn
        BY <1>6, <2>1 DEF GreedySearchStep
      <4> QED BY Zenon, <1>1, <1>3, <3>1, <4>1, OwnTurnIs
    <3>3. Waiting(v)
      BY <1>1, <1>4, <3>1, <3>2, WaitingStays
    <3>4. ~MinLengthMisplaced
      BY <3>1 DEF MinLengthMisplaced
    <3> QED BY <1>1, <1>4, <3>1, <3>2, <3>3, <3>4, GreedyTurnTogether
  <2>2. CASE BeamSearchStep
    <3>1. ~IsGreedy /\ Running(search) /\ u = BeamStep(search)
      BY <1>5, <2>2 DEF BeamSearchStep
    <3>2. v = IF Running(a) THEN BeamStep(a) ELSE a
      <4>1. v = OwnTurn
        BY <1>6, <2>2 DEF BeamSearchStep
      <4> QED BY Zenon, <1>1, <1>3, <3>1, <4>1, OwnTurnIs
    <3>3. Waiting(v)
      BY <1>1, <1>4, <3>1, <3>2, WaitingStays
    <3>4. ~MinLengthMisplaced
      BY <1>1, <3>1, OwnBeam
    <3> QED BY <1>1, <1>4, <3>1, <3>2, <3>3, <3>4, BeamTurnTogether
  <2>3. CASE UNCHANGED vars
    <3>1. u = search /\ v = a
      BY <1>3, <1>5, <1>6, <2>3 DEF vars
    <3> QED BY <1>4, <3>1
  <2> QED BY <2>1, <2>2, <2>3 DEF Next
<1> QED BY <1>2, <1>5, <1>6, <1>7, AloneStays DEF Agree

\* Every step keeps the invariant of the two calls.
LEMMA BatchNext == ASSUME NaturalCosts, BatchInv, [Next]_vars PROVE BatchInv'
<1>1. SearchInv'
  BY SearchNext DEF BatchInv
<1>2. UNCHANGED <<call, entry>>
  BY DEF Next, GreedySearchStep, BeamSearchStep, vars
<1>3. (entry \in Entries)'
  BY <1>2 DEF BatchInv, Entries
<1>4. SettingsOwn' = SettingsOwn
  <2>1. IsGreedy' = IsGreedy /\ ForwardLength' = ForwardLength /\ HasPrefix' = HasPrefix
    BY Zenon, <1>2 DEF Entries, ForwardLength, HasPrefix, Prefix, IsGreedy
  <2>2. OwnCall' = OwnCall
    BY Zenon, <1>2 DEF OwnCall, Entries, Options
  <2>3. (Own!ForwardLength)' = Own!ForwardLength
    BY <2>2 DEF Own!ForwardLength, Own!Entries
  <2>4. (Own!HasPrefix)' = Own!HasPrefix
    BY Zenon, <2>2, <2>3 DEF Own!HasPrefix, Own!Prefix, Own!Entries
  <2> QED BY Zenon, <2>1, <2>3, <2>4 DEF SettingsOwn
<1>5. SettingsOwn => Agree'
  BY AgreeNext
<1> QED BY <1>1, <1>3, <1>4, <1>5 DEF BatchInv

\* For every decoder that returns numbers, every vocabulary and every call, an entry of
\* a batch has at every step the hypotheses it has in a call of its own, whichever
\* entries share the batch and whenever they leave it, unless the call of its own has
\* another number of tokens to forward at once or (in beam search) has no prefix where
\* the batch has one.
THEOREM EntriesIndependent == ASSUME NaturalCosts PROVE Spec => []BatchIndependent
<1>1. Init => BatchInv
  BY BatchInit
<1>2. BatchInv /\ [Next]_vars => BatchInv'
  BY BatchNext
<1>3. BatchInv => BatchIndependent
  BY DEF BatchInv, Agree, Together, BatchIndependent
<1> QED BY <1>1, <1>2, <1>3, PTL DEF Spec

-----------------------------------------------------------------------------
(* The words of the hypotheses. *)

\* Where the hypotheses of entry e start.
FirstReturned(e) == IF ReturnPrefix THEN 1 ELSE Len(Prefix(e)) + 1

\* The words are those of the prefix, as far as it goes.
Follows(e, words) == \A i \in 1..Len(words) : i <= Len(Prefix(e)) => words[i] = Prefix(e)[i]

\* What the options forbid at place i.
ForbiddenAt(e, words, i) == Forbidden(e, SubSeq(words, 1, i - 1))
Allowed(e, words) ==
  \A i \in 1..Len(words) :
    i > Len(Prefix(e)) /\ words[i] \in ForbiddenAt(e, words, i) => ForbiddenAt(e, words, i) = Words

\* There is no end token after the prefix, up to a place.
EndFree(e, words, last) == \A i \in 1..last : i > Len(Prefix(e)) => words[i] \notin call.endIds

\* The words of a row of entry e whose score is not a penalty.
OwnWords(e, words) ==
  words \in Seq(Words) /\ Follows(e, words) /\ (MinLengthMisplaced \/ Allowed(e, words))

\* The words of such a row when it makes a hypothesis.
Complete(e, full) ==
  /\ OwnWords(e, full)
  /\ FirstReturned(e) <= Len(full) /\ Len(full) <= LastLength(e)
  /\ IsGreedy \/ ~SeveralEnds => EndFree(e, full, Len(full) - 1)
  /\ \/ Len(full) = LastLength(e) \/ call.stops # {}
     \/ Len(full) > Len(Prefix(e)) /\ full[Len(full)] \in call.endIds

\* The words of the hypothesis: up to a place that leaves out an end token.
LastReturned(full) ==
  IF full[Len(full)] \in call.endIds /\ ~call.includeEos THEN Len(full) - 1 ELSE Len(full)
Returned(e, full) == SubSeq(full, FirstReturned(e), LastReturned(full))

\* The numbers of a call, for an entry.
LEMMA LimitsAre ==
  ASSUME CallOK, NEW e \in Entries
  PROVE  /\ call.maxLength \in Nat /\ call.maxLength > 0
         /\ call.minLength \in Nat /\ call.minLength <= call.maxLength
         /\ Prefix(e) \in Seq(Words) /\ Len(Prefix(e)) \in Nat
         /\ FirstReturned(e) = (IF ReturnPrefix THEN 1 ELSE Len(Prefix(e)) + 1)
         /\ LastLength(e) = (IF ReturnPrefix THEN call.maxLength ELSE call.maxLength + Len(Prefix(e)))
         /\ call.beamSize \in Nat /\ call.numHypotheses \in Nat /\ call.maxCandidates \in Nat
         /\ call.beamSize > 0 /\ call.numHypotheses > 0 /\ call.numHypotheses <= call.maxCandidates
         /\ call.endIds \subseteq Words
<1>1. call.maxLength \in Nat /\ call.minLength \in Nat /\ call.beamSize \in Nat
  BY CallIs
<1>2. call.numHypotheses \in Nat /\ call.maxCandidates \in Nat /\ call.endIds \subseteq Words
  BY CallIs
<1>3. Prefix(e) \in Seq(Words)
  BY PromptIs
<1>4. Len(Prefix(e)) \in Nat
  BY <1>3
<1>5. /\ call.maxLength > 0 /\ call.minLength <= call.maxLength /\ call.beamSize > 0
      /\ call.numHypotheses > 0 /\ call.numHypotheses <= call.maxCandidates
  BY DEF CallOK, Valid
<1>6. LastLength(e) = (IF ReturnPrefix THEN call.maxLength ELSE call.maxLength + Len(Prefix(e)))
  BY <1>1, <1>4 DEF LastLength
<1> QED BY <1>1, <1>2, <1>3, <1>4, <1>5, <1>6 DEF FirstReturned

\* A hypothesis has the words of its row, from the place where it starts.
LEMMA ReturnedIs ==
  ASSUME CallOK, NEW e \in Entries, NEW full, Complete(e, full)
  PROVE  /\ full \in Seq(Words) /\ Len(full) \in Nat /\ LastReturned(full) \in Nat
         /\ FirstReturned(e) <= LastReturned(full) + 1 /\ LastReturned(full) <= Len(full)
         /\ Returned(e, full) \in Seq(Words)
         /\ Len(Returned(e, full)) = LastReturned(full) - FirstReturned(e) + 1
         /\ \A i \in 1..Len(Returned(e, full)) :
              Returned(e, full)[i] = full[FirstReturned(e) + i - 1]
<1>1. full \in Seq(Words) /\ FirstReturned(e) <= Len(full)
  BY DEF Complete, OwnWords
<1>2. PICK F \in Nat \ {0} : F = FirstReturned(e)
  BY LimitsAre
<1>3. PICK L \in Nat : L = Len(full)
  BY <1>1
<1>4. PICK K \in Nat : K = LastReturned(full) /\ K <= L /\ F <= K + 1
  <2>1. L >= 1 /\ F <= L
    BY <1>1, <1>2, <1>3
  <2> QED BY <2>1, <1>2, <1>3 DEF LastReturned
<1>5. /\ SubSeq(full, F, K) \in Seq(Words) /\ Len(SubSeq(full, F, K)) = K - F + 1
      /\ \A i \in 1..(K - F + 1) : SubSeq(full, F, K)[i] = full[F + i - 1]
  BY <1>1, <1>2, <1>3, <1>4, SubSeqIs
<1>6. Returned(e, full) = SubSeq(full, F, K)
  BY <1>2, <1>4 DEF Returned
<1> QED BY <1>1, <1>2, <1>3, <1>4, <1>5, <1>6

\* No end token of a returned prefix is left out.
LEMMA PrefixKept ==
  ASSUME CallOK, NEW e \in Entries, ~EndInPrefix(e), ReturnPrefix
  PROVE  /\ ReturnedPrefix(e) \in Seq(Words)
         /\ Len(ReturnedPrefix(e))
              = (IF Len(Prefix(e)) <= call.maxLength THEN Len(Prefix(e)) ELSE call.maxLength)
         /\ \A i \in 1..Len(ReturnedPrefix(e)) :
              /\ ReturnedPrefix(e)[i] = Prefix(e)[i]
              /\ call.includeEos \/ Prefix(e)[i] \notin call.endIds
<1>1. PICK P \in Nat, X \in Nat : P = Len(Prefix(e)) /\ X = call.maxLength
  BY LimitsAre
<1>2. PICK M \in Nat : M = (IF P <= X THEN P ELSE X) /\ M <= P
  OBVIOUS
<1>3. Min({Len(Prefix(e)), call.maxLength}) = M
  <2>1. Min({P, X}) = M
    BY <1>2, MinOfTwo
  <2> QED BY <2>1, <1>1
<1>4. ReturnedPrefix(e) = SubSeq(Prefix(e), 1, M)
  BY <1>3 DEF ReturnedPrefix
<1>5. Prefix(e) \in Seq(Words)
  BY LimitsAre
<1>6. /\ SubSeq(Prefix(e), 1, M) \in Seq(Words) /\ Len(SubSeq(Prefix(e), 1, M)) = M
      /\ \A i \in 1..M : SubSeq(Prefix(e), 1, M)[i] = Prefix(e)[i]
  BY <1>1, <1>2, <1>5
<1>7. ASSUME NEW i \in 1..M PROVE call.includeEos \/ Prefix(e)[i] \notin call.endIds
  <2>1. ReturnedPrefix(e)[i] \in ToSet(ReturnedPrefix(e))
    BY <1>4, <1>6 DEF ToSet
  <2>2. ReturnedPrefix(e)[i] = Prefix(e)[i]
    BY <1>4, <1>6
  <2>3. call.includeEos \/ ToSet(ReturnedPrefix(e)) \cap call.endIds = {}
    BY DEF EndInPrefix
  <2> QED BY <2>1, <2>2, <2>3
<1> QED BY <1>1, <1>2, <1>4, <1>6, <1>7

\* A hypothesis that ends within the prefix has the words of it.
LEMMA ShortIs ==
  ASSUME CallOK, NEW e \in Entries, ~EndInPrefix(e), NEW full, Complete(e, full),
         Len(full) <= Len(Prefix(e))
  PROVE  /\ ReturnPrefix /\ Returned(e, full) \in Seq(Words)
         /\ Len(Returned(e, full)) = Len(full)
         /\ \A i \in 1..Len(full) : Returned(e, full)[i] = Prefix(e)[i]
         /\ Continuation(e, Returned(e, full)) = <<>>
<1>1. PICK P \in Nat, L \in Nat, X \in Nat : P = Len(Prefix(e)) /\ L = Len(full) /\ X = call.maxLength
  BY LimitsAre, ReturnedIs
<1>2. FirstReturned(e) <= L /\ L <= LastLength(e) /\ L <= P
  BY <1>1 DEF Complete
<1>3. ReturnPrefix /\ FirstReturned(e) = 1 /\ L <= X
  BY <1>1, <1>2, LimitsAre
<1>4. \A i \in 1..L : full[i] = Prefix(e)[i]
  BY <1>1, <1>2 DEF Complete, OwnWords, Follows
<1>5. call.includeEos \/ full[L] \notin call.endIds
  <2>1. L \in 1..L
    BY <1>2, <1>3
  <2>2. L \in 1..Len(ReturnedPrefix(e))
    BY <1>1, <1>2, <1>3, PrefixKept
  <2> QED BY <2>1, <2>2, <1>3, <1>4, PrefixKept
<1>6. LastReturned(full) = L
  BY <1>1, <1>5 DEF LastReturned
<1>7. PICK words \in Seq(Words) : /\ words = Returned(e, full) /\ Len(words) = L
                                  /\ \A i \in 1..L : words[i] = full[i]
  <2>1. PICK words \in Seq(Words) : words = Returned(e, full)
    BY ReturnedIs
  <2>2. Len(words) = L - 1 + 1 /\ \A i \in 1..Len(words) : words[i] = full[1 + i - 1]
    BY <1>3, <1>6, <2>1, ReturnedIs
  <2>3. Len(words) = L /\ \A i \in 1..L : 1 + i - 1 = i
    BY <1>1, <2>2
  <2> QED BY <2>1, <2>2, <2>3
<1>8. SubSeq(words, P + 1, Len(words)) = <<>>
  BY <1>1, <1>2, <1>7
<1>9. Continuation(e, words) = <<>>
  BY <1>1, <1>3, <1>8 DEF Continuation
<1> QED BY <1>1, <1>3, <1>4, <1>7, <1>9

\* A longer one goes on after the prefix with the words of its row.
LEMMA LongIs ==
  ASSUME CallOK, NEW e \in Entries, NEW full, Complete(e, full), Len(full) > Len(Prefix(e))
  PROVE  /\ Len(Prefix(e)) <= LastReturned(full)
         /\ Continuation(e, Returned(e, full)) \in Seq(Words)
         /\ Len(Continuation(e, Returned(e, full))) = LastReturned(full) - Len(Prefix(e))
         /\ \A t \in 1..Len(Continuation(e, Returned(e, full))) :
              Continuation(e, Returned(e, full))[t] = full[Len(Prefix(e)) + t]
<1>1. PICK P \in Nat, L \in Nat, K \in Nat :
        P = Len(Prefix(e)) /\ L = Len(full) /\ K = LastReturned(full) /\ P < L
  BY LimitsAre, ReturnedIs
<1>2. P <= K /\ K <= L
  BY <1>1 DEF LastReturned
<1>3. PICK words \in Seq(Words) : words = Returned(e, full)
  BY ReturnedIs
<1>4. CASE ReturnPrefix
  <2>1. /\ Len(words) = K
        /\ \A i \in 1..K : words[i] = full[i]
    BY <1>1, <1>3, <1>4, LimitsAre, ReturnedIs
  <2>2. Continuation(e, words) = SubSeq(words, P + 1, K)
    BY <1>1, <1>4, <2>1 DEF Continuation
  <2>3. /\ SubSeq(words, P + 1, K) \in Seq(Words) /\ Len(SubSeq(words, P + 1, K)) = K - P
        /\ \A i \in 1..(K - P) : SubSeq(words, P + 1, K)[i] = words[P + i]
    BY <1>2, <2>1
  <2>4. \A i \in 1..(K - P) : P + i \in 1..K
    BY <1>2
  <2> QED BY <1>1, <1>2, <1>3, <2>1, <2>2, <2>3, <2>4
<1>5. CASE ~ReturnPrefix
  <2>4. FirstReturned(e) = P + 1
    BY <1>1, <1>5, LimitsAre
  <2>5. /\ Len(words) = K - (P + 1) + 1
        /\ \A i \in 1..Len(words) : words[i] = full[P + 1 + i - 1]
    BY <1>1, <1>3, <2>4, ReturnedIs
  <2>1. /\ Len(words) = K - P
        /\ \A i \in 1..(K - P) : words[i] = full[P + 1 + i - 1]
    BY <1>1, <2>5
  <2>2. \A i \in 1..(K - P) : P + 1 + i - 1 = P + i
    OBVIOUS
  <2>3. Continuation(e, words) = words
    BY <1>5 DEF Continuation
  <2> QED BY <1>1, <1>2, <1>3, <2>1, <2>2, <2>3
<1> QED BY <1>4, <1>5

\* What is forbidden to it is what is forbidden to the row.
LEMMA ForbiddenIs ==
  ASSUME CallOK, NEW e \in Entries, NEW full, Complete(e, full), Len(full) > Len(Prefix(e)),
         NEW t \in 1..(LastReturned(full) - Len(Prefix(e)) + 1)
  PROVE  Prefix(e) \o SubSeq(Continuation(e, Returned(e, full)), 1, t - 1)
           = SubSeq(full, 1, Len(Prefix(e)) + t - 1)
<1>1. PICK P \in Nat, L \in Nat, K \in Nat :
        P = Len(Prefix(e)) /\ L = Len(full) /\ K = LastReturned(full) /\ P <= K /\ K <= L
  BY LimitsAre, ReturnedIs, LongIs
<1>2. PICK free \in Seq(Words) : free = Continuation(e, Returned(e, full))
  BY LongIs
<1>3. Len(free) = K - P /\ \A i \in 1..(K - P) : free[i] = full[P + i]
  BY SMTT(20), <1>1, <1>2, LongIs
<1>4. PICK u \in Nat : u = t - 1 /\ u <= K - P
  BY <1>1
<1>5. PICK part \in Seq(Words) : /\ part = SubSeq(free, 1, u) /\ Len(part) = u
                                 /\ \A i \in 1..u : part[i] = free[i]
  <2>1. /\ SubSeq(free, 1, u) \in Seq(Words) /\ Len(SubSeq(free, 1, u)) = u - 1 + 1
        /\ \A i \in 1..(u - 1 + 1) : SubSeq(free, 1, u)[i] = free[1 + i - 1]
    BY <1>1, <1>3, <1>4, SubSeqIs
  <2>2. u - 1 + 1 = u /\ \A i \in 1..u : 1 + i - 1 = i
    BY <1>4
  <2> QED BY <2>1, <2>2
<1>6. Prefix(e) \in Seq(Words) /\ full \in Seq(Words)
  BY LimitsAre, ReturnedIs
<1>7. /\ Prefix(e) \o part \in Seq(Words) /\ Len(Prefix(e) \o part) = P + u
      /\ \A i \in 1..P : (Prefix(e) \o part)[i] = Prefix(e)[i]
      /\ \A i \in 1..u : (Prefix(e) \o part)[P + i] = part[i]
  BY <1>1, <1>5, <1>6, JoinElements
<1>8. /\ SubSeq(full, 1, P + u) \in Seq(Words) /\ Len(SubSeq(full, 1, P + u)) = P + u
      /\ \A i \in 1..(P + u) : SubSeq(full, 1, P + u)[i] = full[i]
  BY SMTT(20), <1>1, <1>4, <1>6
<1>9. ASSUME NEW i \in 1..(P + u) PROVE (Prefix(e) \o part)[i] = SubSeq(full, 1, P + u)[i]
  <2>1. CASE i <= P
    <3>1. i \in 1..P /\ i \in 1..L
      BY <1>1, <2>1
    <3>2. full[i] = Prefix(e)[i]
      BY <1>1, <3>1 DEF Complete, OwnWords, Follows
    <3> QED BY <1>7, <1>8, <3>1, <3>2
  <2>2. CASE i > P
    <3>1. PICK j \in 1..u : i = P + j
      <4>1. i - P \in 1..u /\ i = P + (i - P)
        BY <2>2
      <4> QED BY <4>1
    <3>2. j \in 1..(K - P)
      BY <1>1, <1>4
    <3>3. (Prefix(e) \o part)[i] = part[j]
      BY <1>7, <3>1
    <3> QED BY <1>3, <1>5, <1>8, <3>1, <3>2, <3>3
  <2>3. i <= P \/ i > P
    OBVIOUS
  <2> QED BY Zenon, <2>1, <2>2, <2>3
<1>10. Prefix(e) \o part = SubSeq(full, 1, P + u)
  BY <1>7, <1>8, <1>9, SameElements
<1>11. P + u = P + t - 1
  BY <1>4
<1> QED BY <1>1, <1>2, <1>4, <1>5, <1>10, <1>11

\* What the minimum length says of an end token that is not forbidden at its place.
LEMMA EndAllowed ==
  ASSUME CallOK, NEW e \in Entries, NEW before \in Seq(Words), Len(before) >= Len(Prefix(e)),
         NEW w \in call.endIds, w \notin Forbidden(e, before)
  PROVE  (IF ReturnPrefix THEN Len(before) + 1 ELSE Len(before) + 1 - Len(Prefix(e))) > call.minLength
<1>1. w \in Words
  BY LimitsAre
<1>2. PICK r \in Nat, P \in Nat, m \in Nat : r = Len(before) /\ P = Len(Prefix(e)) /\ m = call.minLength
  BY LimitsAre
<1>3. ~((IF ReturnPrefix THEN Len(before) + 1 ELSE Len(before) + 1 - Len(Prefix(e))) <= call.minLength)
  BY <1>1 DEF Forbidden
<1> QED BY <1>2, <1>3

\* A hypothesis without a penalty has the words it should have.
LEMMA CompleteWords ==
  ASSUME CallOK, NEW e \in Entries, ~EndInPrefix(e), NEW full, Complete(e, full)
  PROVE  WordsComplete(e, Returned(e, full))
<1>1. PICK P \in Nat, L \in Nat, K \in Nat, X \in Nat, m \in Nat :
        /\ P = Len(Prefix(e)) /\ L = Len(full) /\ K = LastReturned(full) /\ K <= L
        /\ X = call.maxLength /\ m = call.minLength /\ m <= X
  BY LimitsAre, ReturnedIs
<1>2. PICK F \in Nat : /\ F = FirstReturned(e) /\ F <= L /\ L <= LastLength(e)
                       /\ F = (IF ReturnPrefix THEN 1 ELSE P + 1)
                       /\ LastLength(e) = (IF ReturnPrefix THEN X ELSE X + P)
  BY <1>1, LimitsAre DEF Complete
<1>3. PICK words \in Seq(Words) : words = Returned(e, full) /\ Len(words) = K - F + 1
  BY <1>1, <1>2, ReturnedIs
<1>4. PICK free \in Seq(Words) : free = Continuation(e, words)
  <2>1. Continuation(e, words) \in Seq(Words)
    <3>1. L <= P \/ L > P
      BY <1>1
    <3>2. CASE L <= P
      <4>1. Continuation(e, words) = <<>>
        BY <1>1, <1>3, <3>2, ShortIs
      <4> QED BY <4>1
    <3>3. CASE L > P
      BY <1>1, <1>3, <3>3, LongIs
    <3> QED BY <3>1, <3>2, <3>3
  <2> QED BY <2>1
<1> DEFINE forbidden(t) == Forbidden(e, Prefix(e) \o SubSeq(free, 1, t - 1))
<1>5. L > P => /\ P <= K /\ Len(free) = K - P
               /\ \A t \in 1..Len(free) : free[t] = full[P + t]
               /\ \A t \in 1..(K - P + 1) : forbidden(t) = Forbidden(e, SubSeq(full, 1, P + t - 1))
  <2> SUFFICES ASSUME L > P
               PROVE  /\ P <= K /\ Len(free) = K - P
                      /\ \A t \in 1..Len(free) : free[t] = full[P + t]
                      /\ \A t \in 1..(K - P + 1) : forbidden(t) = Forbidden(e, SubSeq(full, 1, P + t - 1))
    OBVIOUS
  <2>1. P <= K /\ Len(free) = K - P /\ \A t \in 1..Len(free) : free[t] = full[P + t]
    BY <1>1, <1>3, <1>4, LongIs
  <2>2. ASSUME NEW t \in 1..(K - P + 1)
        PROVE  Prefix(e) \o SubSeq(free, 1, t - 1) = SubSeq(full, 1, P + t - 1)
    BY <1>1, <1>3, <1>4, ForbiddenIs
  <2> QED BY <2>1, <2>2
<1>6. L <= P => /\ free = <<>> /\ ReturnPrefix /\ Len(words) = L
                /\ \A i \in 1..L : words[i] = Prefix(e)[i]
  BY <1>1, <1>3, <1>4, ShortIs
<1>7. P < L => \A t \in 1..(K - P) : t \in 1..(K - P + 1) /\ P + t \in 1..L
  BY <1>1, <1>5
<1> HIDE DEF forbidden
<1>8. Len(words) <= X
  BY <1>1, <1>2, <1>3
<1>9. \/ Len(words) >= m
      \/ call.stops # {} \/ MinLengthMisplaced
      \/ \E t \in 1..(Len(free) + 1) : forbidden(t) = Words
  <2> SUFFICES ASSUME call.stops = {}, ~MinLengthMisplaced
               PROVE  Len(words) >= m \/ \E t \in 1..(Len(free) + 1) : forbidden(t) = Words
    OBVIOUS
  <2>1. CASE L > P /\ full[L] \in call.endIds
    <3>1. PICK before \in Seq(Words) : before = SubSeq(full, 1, L - 1) /\ Len(before) = L - 1
      <4>1. full \in Seq(Words)
        BY ReturnedIs
      <4>2. SubSeq(full, 1, L - 1) \in Seq(Words) /\ Len(SubSeq(full, 1, L - 1)) = L - 1
        BY <1>1, <2>1, <4>1
      <4> QED BY <4>2
    <3>2. K = L \/ K = L - 1
      BY <1>1 DEF LastReturned
    <3>3. CASE Forbidden(e, before) = Words
      <4>1. PICK t \in 1..(K - P + 1) : t = L - P
        <5>1. L - P \in 1..(K - P + 1)
          BY <1>1, <2>1, <3>2
        <5> QED BY <5>1
      <4>2. P + t - 1 = L - 1
        BY <4>1
      <4>3. forbidden(t) = Words
        BY <1>5, <2>1, <3>1, <3>3, <4>1, <4>2
      <4> QED BY <1>5, <2>1, <4>1, <4>3
    <3>4. CASE Forbidden(e, before) # Words
      <4>1. L \in 1..Len(full) /\ L > Len(Prefix(e))
        BY <1>1, <2>1
      <4>2. full[L] \notin Forbidden(e, before)
        BY <3>1, <3>4, <4>1 DEF Complete, OwnWords, Allowed, ForbiddenAt
      <4>4. Len(before) >= Len(Prefix(e))
        BY <1>1, <2>1, <3>1
      <4>5. (IF ReturnPrefix THEN Len(before) + 1 ELSE Len(before) + 1 - Len(Prefix(e))) > call.minLength
        BY <2>1, <4>2, <4>4, EndAllowed
      <4>3. (IF ReturnPrefix THEN L - 1 + 1 ELSE L - 1 + 1 - P) > m
        BY <1>1, <3>1, <4>5
      <4> QED BY SMTT(20), <1>1, <1>2, <1>3, <2>1, <3>2, <4>3
    <3> QED BY <3>3, <3>4
  <2>2. CASE ~(L > P /\ full[L] \in call.endIds)
    <3>1. L = LastLength(e)
      BY <1>1, <2>2 DEF Complete
    <3>2. CASE L <= P
      BY <1>1, <1>2, <1>6, <3>1, <3>2
    <3>3. CASE L > P
      <4>1. K = L
        BY <1>1, <2>2, <3>3 DEF LastReturned
      <4> QED BY <1>1, <1>2, <1>3, <3>1, <4>1
    <3> QED BY <3>2, <3>3
  <2> QED BY <2>1, <2>2
<1>10. ReturnPrefix => \/ IsPrefix(ReturnedPrefix(e), words)
                       \/ call.stops # {} /\ IsPrefix(words, Prefix(e))
  <2> SUFFICES ASSUME ReturnPrefix
               PROVE  \/ IsPrefix(ReturnedPrefix(e), words)
                      \/ call.stops # {} /\ IsPrefix(words, Prefix(e))
    OBVIOUS
  <2>1. PICK kept \in Seq(Words) : /\ kept = ReturnedPrefix(e)
                                   /\ Len(kept) = (IF P <= X THEN P ELSE X)
                                   /\ \A i \in 1..Len(kept) : kept[i] = Prefix(e)[i]
    BY <1>1, PrefixKept
  <2>2. CASE L <= P
    <3>1. CASE L = X
      <4>1. Len(kept) = L
        BY <1>1, <2>1, <2>2, <3>1
      <4>2. kept = words
        BY <1>6, <2>1, <2>2, <4>1, SameElements
      <4>3. SubSeq(words, 1, Len(kept)) = kept
        BY <4>2
      <4> QED BY <2>1, <4>2, <4>3 DEF IsPrefix
    <3>2. CASE L # X
      <4>1. call.stops # {}
        BY <1>1, <1>2, <2>2, <3>2 DEF Complete
      <4>2. Prefix(e) \in Seq(Words)
        BY LimitsAre
      <4>3. /\ SubSeq(Prefix(e), 1, L) \in Seq(Words) /\ Len(SubSeq(Prefix(e), 1, L)) = L
            /\ \A i \in 1..L : SubSeq(Prefix(e), 1, L)[i] = Prefix(e)[i]
        BY <1>1, <2>2, <4>2
      <4>4. SubSeq(Prefix(e), 1, L) = words
        BY <1>6, <2>2, <4>3, SameElements
      <4> QED BY <1>1, <1>6, <2>2, <4>1, <4>4 DEF IsPrefix
    <3> QED BY <3>1, <3>2
  <2>3. CASE L > P
    <3>1. Len(kept) = P /\ P <= K /\ Len(words) = K
      BY <1>1, <1>2, <1>3, <1>5, <2>1, <2>3
    <3>2. /\ SubSeq(words, 1, P) \in Seq(Words) /\ Len(SubSeq(words, 1, P)) = P
          /\ \A i \in 1..P : SubSeq(words, 1, P)[i] = words[i]
      BY <3>1
    <3>3. ASSUME NEW i \in 1..P PROVE SubSeq(words, 1, P)[i] = kept[i]
      <4>1. i \in 1..Len(words) /\ i \in 1..L /\ 1 + i - 1 = i
        BY <1>1, <2>3, <3>1
      <4>2. words[i] = full[F + i - 1]
        BY <1>2, <1>3, <4>1, ReturnedIs
      <4>3. words[i] = full[i]
        BY <1>2, <4>1, <4>2
      <4>4. full[i] = Prefix(e)[i]
        BY <1>1, <4>1 DEF Complete, OwnWords, Follows
      <4> QED BY <2>1, <3>1, <3>2, <4>3, <4>4
    <3>4. SubSeq(words, 1, P) = kept
      BY <2>1, <3>1, <3>2, <3>3, SameElements
    <3> QED BY <2>1, <3>1, <3>4 DEF IsPrefix
  <2> QED BY <1>1, <2>2, <2>3
<1>11. ASSUME NEW t \in DOMAIN free
       PROVE  /\ IsGreedy \/ ~SeveralEnds =>
                   (free[t] \in call.endIds => call.includeEos /\ t = Len(free))
              /\ free[t] \in forbidden(t) => forbidden(t) = Words \/ MinLengthMisplaced
  <2>1. L > P
    BY <1>1, <1>6
  <2>6. t \in 1..Len(free)
    OBVIOUS
  <2>2. /\ t \in 1..(K - P) /\ Len(free) = K - P /\ free[t] = full[P + t]
        /\ t \in 1..(K - P + 1) /\ P + t \in 1..L
    BY <1>1, <1>5, <1>7, <2>1, <2>6
  <2>3. forbidden(t) = Forbidden(e, SubSeq(full, 1, P + t - 1))
    BY <1>5, <2>1, <2>2
  <2>4. free[t] \in forbidden(t) => forbidden(t) = Words \/ MinLengthMisplaced
    <3>1. P + t > Len(Prefix(e)) /\ P + t \in 1..Len(full)
      BY <1>1, <2>2
    <3> QED BY SMTT(20), <2>2, <2>3, <3>1 DEF Complete, OwnWords, Allowed, ForbiddenAt
  <2>5. ASSUME IsGreedy \/ ~SeveralEnds, free[t] \in call.endIds
        PROVE  call.includeEos /\ t = Len(free)
    <3>1. P + t = L
      <4>2. EndFree(e, full, L - 1)
        BY <1>1, <2>5 DEF Complete
      <4>3. P + t > Len(Prefix(e))
        BY <1>1, <2>2
      <4>1. P + t \in 1..(L - 1) => full[P + t] \notin call.endIds
        BY <4>2, <4>3 DEF EndFree
      <4> QED BY SMTT(20), <1>1, <2>2, <2>5, <4>1
    <3>2. K = L
      BY <1>1, <2>2, <3>1
    <3>3. call.includeEos
      BY <1>1, <2>2, <2>5, <3>1, <3>2 DEF LastReturned
    <3> QED BY <1>1, <2>2, <3>1, <3>2, <3>3
  <2> QED BY <2>4, <2>5
<1> QED BY <1>1, <1>3, <1>4, <1>8, <1>9, <1>10, <1>11 DEF WordsComplete, forbidden

-----------------------------------------------------------------------------
(* The order of the hypotheses. *)

Hypothesis == [words : Seq(Words), cost : Nat]

\* What the score of a hypothesis is divided by.
Divisor(h) == IF call.normalize THEN Len(h.words) ELSE 1

\* The positions of a sequence of hypotheses, by their normalized scores.
FirstOf(hs, i, j) ==
  \/ hs[i].cost * Divisor(hs[j]) < hs[j].cost * Divisor(hs[i])
  \/ hs[i].cost * Divisor(hs[j]) = hs[j].cost * Divisor(hs[i]) /\ i < j
InFront(hs) == {x \in (DOMAIN hs) \X (DOMAIN hs) : FirstOf(hs, x[1], x[2])}

\* No score is zero divided by zero.
Divisible(hs) == \A i \in DOMAIN hs : hs[i].cost > 0 \/ Divisor(hs[i]) > 0

\* An element in front of another one has a lower rank.
LEMMA RankGrows ==
  ASSUME NEW S, IsFiniteSet(S), NEW less, Orders(S, less), NEW x \in S, NEW y \in S, <<x, y>> \in less
  PROVE  Rank(S, less, x) < Rank(S, less, y)
<1>1. PICK A : A = {z \in S : <<z, x>> \in less}
  OBVIOUS
<1>2. PICK B : B = {z \in S : <<z, y>> \in less}
  OBVIOUS
<1>3. B \in SUBSET S /\ A \in SUBSET B /\ x \in B /\ x \notin A
  BY <1>1, <1>2 DEF Orders
<1>4. IsFiniteSet(B)
  BY <1>3, FS_Subset
<1>5. IsFiniteSet(A) /\ Cardinality(A) <= Cardinality(B) /\ Cardinality(A) # Cardinality(B)
  BY <1>3, <1>4, FS_Subset
<1>6. Cardinality(A) \in Nat /\ Cardinality(B) \in Nat
  BY <1>4, <1>5, FS_CardinalityType
<1>7. Rank(S, less, x) = Cardinality(A) + 1 /\ Rank(S, less, y) = Cardinality(B) + 1
  BY <1>1, <1>2 DEF Rank
<1> QED BY <1>5, <1>6, <1>7

\* Fractions are compared by their cross products: a/k <= b/l <= c/m.
LEMMA CrossLeq ==
  ASSUME NEW a \in Nat, NEW k \in Nat, NEW b \in Nat, NEW l \in Nat, NEW c \in Nat, NEW m \in Nat,
         b > 0 \/ l > 0, a * l <= b * k, b * m <= c * l
  PROVE  a * m <= c * k
<1>1. CASE l = 0
  <2>1. b > 0 /\ c * l = 0 /\ b * m \in Nat
    BY <1>1
  <2>2. b * m = 0
    BY <2>1
  <2>3. m = 0
    BY <2>1, <2>2
  <2>4. a * m = 0 /\ c * k \in Nat
    BY <2>3
  <2> QED BY <2>4
<1>2. CASE l > 0
  <2>1. (a * l) * m <= (b * k) * m
    BY TimesLeq
  <2>2. (b * m) * k <= (c * l) * k
    BY TimesLeq
  <2>3. (b * k) * m = (b * m) * k /\ (a * l) * m = (a * m) * l /\ (c * l) * k = (c * k) * l
    OBVIOUS
  <2>4. PICK am \in Nat, ck \in Nat : am = a * m /\ ck = c * k
    OBVIOUS
  <2>5. am * l <= ck * l
    <3>1. (a * l) * m \in Nat /\ (b * k) * m \in Nat /\ (b * m) * k \in Nat /\ (c * l) * k \in Nat
      OBVIOUS
    <3> QED BY <2>1, <2>2, <2>3, <2>4, <3>1
  <2>6. ~(ck + 1 <= am)
    <3>1. ck + 1 <= am => (ck + 1) * l <= am * l
      BY TimesLeq
    <3>2. (ck + 1) * l = ck * l + l /\ ck * l \in Nat /\ am * l \in Nat
      OBVIOUS
    <3> QED BY <1>2, <2>5, <3>1, <3>2
  <2> QED BY <2>4, <2>6
<1> QED BY <1>1, <1>2

\* And it is strict if one of the comparisons is.
LEMMA CrossLess ==
  ASSUME NEW a \in Nat, NEW k \in Nat, NEW b \in Nat, NEW l \in Nat, NEW c \in Nat, NEW m \in Nat,
         a > 0 \/ k > 0, b > 0 \/ l > 0, c > 0 \/ m > 0, a * l <= b * k, b * m <= c * l,
         a * l < b * k \/ b * m < c * l
  PROVE  a * m < c * k
<1>1. a * l \in Nat /\ b * k \in Nat /\ b * m \in Nat /\ c * l \in Nat /\ a * m \in Nat /\ c * k \in Nat
  OBVIOUS
\* Otherwise c/m <= a/k, and all three are equal.
<1>2. ASSUME c * k <= a * m PROVE FALSE
  <2>1. c * l <= b * m
    BY <1>2, CrossLeq
  <2>2. b * k <= a * l
    BY <1>2, CrossLeq
  <2> QED BY <1>1, <2>1, <2>2
<1> QED BY <1>1, <1>2

\* The positions are ordered.
LEMMA InFrontOrders ==
  ASSUME CallOK, NEW hs \in Seq(Hypothesis), Divisible(hs)
  PROVE  /\ Orders(DOMAIN hs, InFront(hs)) /\ IsFiniteSet(DOMAIN hs)
         /\ Cardinality(DOMAIN hs) = Len(hs)
         /\ \A i, j \in DOMAIN hs : <<i, j>> \in InFront(hs) <=> FirstOf(hs, i, j)
<1>1. \A i, j \in DOMAIN hs : <<i, j>> \in InFront(hs) <=> FirstOf(hs, i, j)
  BY DEF InFront
<1>2. DOMAIN hs = 1..Len(hs) /\ Len(hs) \in Nat
  OBVIOUS
<1>3. IsFiniteSet(DOMAIN hs) /\ Cardinality(DOMAIN hs) = Len(hs)
  BY <1>2, FS_Interval
<1>4. ASSUME NEW i \in DOMAIN hs
      PROVE  /\ hs[i].cost \in Nat /\ Divisor(hs[i]) \in Nat /\ i \in Nat
             /\ hs[i].cost > 0 \/ Divisor(hs[i]) > 0
  <2>1. hs[i] \in Hypothesis
    OBVIOUS
  <2>2. hs[i].cost \in Nat /\ hs[i].words \in Seq(Words)
    BY <2>1 DEF Hypothesis
  <2>3. Len(hs[i].words) \in Nat
    BY <2>2
  <2> QED BY <1>2, <2>2, <2>3 DEF Divisor, Divisible
<1>5. \A i \in DOMAIN hs : ~FirstOf(hs, i, i)
  <2> SUFFICES ASSUME NEW i \in DOMAIN hs PROVE ~FirstOf(hs, i, i)
    OBVIOUS
  <2>1. hs[i].cost * Divisor(hs[i]) \in Nat /\ i \in Nat
    BY <1>4
  <2> QED BY <2>1 DEF FirstOf
<1>6. ASSUME NEW i \in DOMAIN hs, NEW j \in DOMAIN hs, i # j
      PROVE  FirstOf(hs, i, j) \/ FirstOf(hs, j, i)
  <2>1. PICK a \in Nat, b \in Nat : a = hs[i].cost * Divisor(hs[j]) /\ b = hs[j].cost * Divisor(hs[i])
    BY <1>4
  <2>2. i \in Nat /\ j \in Nat
    BY <1>4
  <2> QED BY <1>6, <2>1, <2>2 DEF FirstOf
<1>7. ASSUME NEW i \in DOMAIN hs, NEW j \in DOMAIN hs, NEW n \in DOMAIN hs,
             FirstOf(hs, i, j), FirstOf(hs, j, n)
      PROVE  FirstOf(hs, i, n)
  <2>1. PICK a \in Nat, b \in Nat, c \in Nat :
          a = hs[i].cost /\ b = hs[j].cost /\ c = hs[n].cost
    BY <1>4
  <2>2. PICK k \in Nat, l \in Nat, m \in Nat :
          k = Divisor(hs[i]) /\ l = Divisor(hs[j]) /\ m = Divisor(hs[n])
    BY <1>4
  <2>3. (a > 0 \/ k > 0) /\ (b > 0 \/ l > 0) /\ (c > 0 \/ m > 0)
    BY <1>4, <2>1, <2>2
  <2>4. /\ a * l \in Nat /\ b * k \in Nat /\ b * m \in Nat /\ c * l \in Nat
        /\ i \in Nat /\ j \in Nat /\ n \in Nat
    BY <1>4
  <2>5. a * l < b * k \/ (a * l = b * k /\ i < j)
    BY <1>7, <2>1, <2>2 DEF FirstOf
  <2>6. b * m < c * l \/ (b * m = c * l /\ j < n)
    BY <1>7, <2>1, <2>2 DEF FirstOf
  <2>7. a * l <= b * k /\ b * m <= c * l
    BY <2>4, <2>5, <2>6
  <2>8. CASE a * l < b * k \/ b * m < c * l
    <3>1. a * m < c * k
      BY <2>3, <2>7, <2>8, CrossLess
    <3> QED BY <2>1, <2>2, <3>1 DEF FirstOf
  <2>9. CASE ~(a * l < b * k \/ b * m < c * l)
    <3>1. a * l = b * k /\ b * m = c * l /\ i < n
      BY <2>4, <2>5, <2>6, <2>9
    <3>2. a * m <= c * k
      BY <2>3, <2>7, CrossLeq
    <3>3. b * k <= a * l /\ c * l <= b * m
      BY <2>4, <3>1
    <3>4. c * k <= a * m
      BY <2>3, <3>3, CrossLeq
    <3>5. a * m \in Nat /\ c * k \in Nat
      OBVIOUS
    <3>6. a * m = c * k
      BY <3>2, <3>4, <3>5
    <3> QED BY <2>1, <2>2, <3>1, <3>6 DEF FirstOf
  <2> QED BY <2>8, <2>9
<1>8. Orders(DOMAIN hs, InFront(hs))
  BY <1>1, <1>5, <1>6, <1>7 DEF Orders
<1> QED BY <1>1, <1>3, <1>8

\* The positions that are kept, best first.
Chosen(hs, k) == CHOOSE i \in DOMAIN hs : Rank(DOMAIN hs, InFront(hs), i) = k

\* It is a function on positions.
LEMMA FinalizedForm ==
  ASSUME NEW hs
  PROVE  Finalized(hs) = [k \in DOMAIN Finalized(hs) |-> Finalized(hs)[k]]
<1> DEFINE better(i, j) == FirstOf(hs, i, j)
           rank(i) == Cardinality({j \in DOMAIN hs : better(j, i)}) + 1
           best(n) == hs[CHOOSE i \in DOMAIN hs : rank(i) = n]
<1>1. Finalized(hs) = [n \in 1..Min({Len(hs), call.numHypotheses}) |-> best(n)]
  BY Zenon DEF Finalized, FirstOf, Divisor
<1> HIDE DEF best
<1> QED BY <1>1

\* How many there are.
LEMMA FinalizedLength ==
  ASSUME CallOK, NEW hs \in Seq(Hypothesis)
  PROVE  /\ Len(Finalized(hs)) \in Nat /\ DOMAIN Finalized(hs) = 1..Len(Finalized(hs))
         /\ Len(Finalized(hs)) <= Len(hs)
         /\ Len(Finalized(hs)) = (IF Len(hs) <= call.numHypotheses THEN Len(hs)
                                                                   ELSE call.numHypotheses)
<1>1. PICK M \in Nat : /\ M = (IF Len(hs) <= call.numHypotheses THEN Len(hs) ELSE call.numHypotheses)
                       /\ M <= Len(hs)
  BY CallIs
<1>2. Min({Len(hs), call.numHypotheses}) = M
  <2>1. Len(hs) \in Nat /\ call.numHypotheses \in Nat
    BY CallIs
  <2> QED BY <1>1, <2>1, MinOfTwo
<1>3. DOMAIN Finalized(hs) = 1..M
  BY <1>2 DEF Finalized
<1>4. Len(Finalized(hs)) = M
  <2>1. Finalized(hs) = [k \in 1..M |-> Finalized(hs)[k]]
    BY <1>3, FinalizedForm
  <2> QED BY <1>1, <2>1
<1> QED BY <1>1, <1>3, <1>4

\* Each of its positions has the hypothesis of that rank.
LEMMA FinalizedElements ==
  ASSUME CallOK, NEW hs \in Seq(Hypothesis), Divisible(hs)
  PROVE  \A k \in 1..Len(Finalized(hs)) :
           /\ Chosen(hs, k) \in DOMAIN hs /\ Rank(DOMAIN hs, InFront(hs), Chosen(hs, k)) = k
           /\ Finalized(hs)[k] = hs[Chosen(hs, k)]
<1> SUFFICES ASSUME NEW k \in 1..Len(Finalized(hs))
             PROVE  /\ Chosen(hs, k) \in DOMAIN hs
                    /\ Rank(DOMAIN hs, InFront(hs), Chosen(hs, k)) = k
                    /\ Finalized(hs)[k] = hs[Chosen(hs, k)]
  OBVIOUS
<1> DEFINE better(i, j) == FirstOf(hs, i, j)
           rank(i) == Cardinality({j \in DOMAIN hs : better(j, i)}) + 1
<1>1. /\ Orders(DOMAIN hs, InFront(hs)) /\ IsFiniteSet(DOMAIN hs) /\ Cardinality(DOMAIN hs) = Len(hs)
      /\ \A i, j \in DOMAIN hs : <<i, j>> \in InFront(hs) <=> FirstOf(hs, i, j)
  BY InFrontOrders
<1>2. k \in 1..Cardinality(DOMAIN hs) /\ k \in DOMAIN Finalized(hs)
  BY <1>1, FinalizedLength
<1>3. \E i \in DOMAIN hs : Rank(DOMAIN hs, InFront(hs), i) = k
  BY <1>1, <1>2, Ranked
<1>4. Chosen(hs, k) \in DOMAIN hs /\ Rank(DOMAIN hs, InFront(hs), Chosen(hs, k)) = k
  BY <1>3 DEF Chosen
<1>5. \A i \in DOMAIN hs : Rank(DOMAIN hs, InFront(hs), i) = rank(i)
  <2> SUFFICES ASSUME NEW i \in DOMAIN hs PROVE Rank(DOMAIN hs, InFront(hs), i) = rank(i)
    OBVIOUS
  <2>1. {j \in DOMAIN hs : <<j, i>> \in InFront(hs)} = {j \in DOMAIN hs : better(j, i)}
    BY <1>1
  <2> QED BY <2>1 DEF Rank
<1>6. Finalized(hs) = [n \in 1..Min({Len(hs), call.numHypotheses}) |->
                         hs[CHOOSE i \in DOMAIN hs : rank(i) = n]]
  BY Zenon DEF Finalized, FirstOf, Divisor
<1> HIDE DEF rank
<1>7. DOMAIN Finalized(hs) = 1..Min({Len(hs), call.numHypotheses})
  BY <1>6
<1>8. Finalized(hs)[k] = hs[CHOOSE i \in DOMAIN hs : rank(i) = k]
  BY <1>2, <1>6, <1>7
<1>9. (CHOOSE i \in DOMAIN hs : rank(i) = k) = Chosen(hs, k)
  <2>1. PICK i \in DOMAIN hs : i = (CHOOSE j \in DOMAIN hs : rank(j) = k) /\ rank(i) = k
    BY <1>3, <1>5
  <2>2. Rank(DOMAIN hs, InFront(hs), i) = Rank(DOMAIN hs, InFront(hs), Chosen(hs, k))
    BY <1>4, <1>5, <2>1
  <2>3. \A x, y \in DOMAIN hs :
          Rank(DOMAIN hs, InFront(hs), x) = Rank(DOMAIN hs, InFront(hs), y) => x = y
    BY ONLY <1>1, Ranked
  <2>4. i = Chosen(hs, k)
    BY <1>4, <2>2, <2>3
  <2> QED BY <2>1, <2>4
<1> QED BY <1>4, <1>8, <1>9

\* finalize_result keeps some of the hypotheses, each once and best first.
LEMMA FinalizedIs ==
  ASSUME CallOK, NEW hs \in Seq(Hypothesis), Divisible(hs)
  PROVE  /\ Finalized(hs) \in Seq(Hypothesis)
         /\ \A k \in DOMAIN Finalized(hs) :
              Chosen(hs, k) \in DOMAIN hs /\ Finalized(hs)[k] = hs[Chosen(hs, k)]
         /\ \A k, m \in DOMAIN Finalized(hs) : k < m =>
              /\ Chosen(hs, k) # Chosen(hs, m)
              /\ Finalized(hs)[k].cost * Divisor(Finalized(hs)[m])
                   <= Finalized(hs)[m].cost * Divisor(Finalized(hs)[k])
<1>1. /\ Orders(DOMAIN hs, InFront(hs)) /\ IsFiniteSet(DOMAIN hs)
      /\ \A i, j \in DOMAIN hs : <<i, j>> \in InFront(hs) <=> FirstOf(hs, i, j)
  BY InFrontOrders
<1>2. \A k \in DOMAIN Finalized(hs) :
        /\ Chosen(hs, k) \in DOMAIN hs /\ Rank(DOMAIN hs, InFront(hs), Chosen(hs, k)) = k
        /\ Finalized(hs)[k] = hs[Chosen(hs, k)]
  BY FinalizedLength, FinalizedElements
<1>3. Finalized(hs) \in Seq(Hypothesis)
  <2>1. PICK M \in Nat : DOMAIN Finalized(hs) = 1..M
    BY FinalizedLength
  <2>2. Finalized(hs) = [k \in 1..M |-> Finalized(hs)[k]]
    BY <2>1, FinalizedForm
  <2>3. \A k \in 1..M : Finalized(hs)[k] \in Hypothesis
    BY <1>2, <2>1
  <2> QED BY <2>2, <2>3
<1>4. ASSUME NEW k \in DOMAIN Finalized(hs), NEW m \in DOMAIN Finalized(hs), k < m
      PROVE  /\ Chosen(hs, k) # Chosen(hs, m)
             /\ Finalized(hs)[k].cost * Divisor(Finalized(hs)[m])
                  <= Finalized(hs)[m].cost * Divisor(Finalized(hs)[k])
  <2>1. PICK i \in DOMAIN hs : i = Chosen(hs, k) /\ Finalized(hs)[k] = hs[i]
    BY <1>2
  <2>2. PICK j \in DOMAIN hs : j = Chosen(hs, m) /\ Finalized(hs)[m] = hs[j]
    BY <1>2
  <2>3. k \in Nat /\ m \in Nat
    BY FinalizedLength
  <2>4. Rank(DOMAIN hs, InFront(hs), i) = k /\ Rank(DOMAIN hs, InFront(hs), j) = m
    BY <1>2, <2>1, <2>2
  <2>5. i # j
    BY <1>4, <2>3, <2>4
  <2>6. <<i, j>> \in InFront(hs)
    <3>1. <<i, j>> \in InFront(hs) \/ <<j, i>> \in InFront(hs)
      BY <1>1, <2>5 DEF Orders
    <3>2. <<j, i>> \in InFront(hs) =>
            Rank(DOMAIN hs, InFront(hs), j) < Rank(DOMAIN hs, InFront(hs), i)
      BY <1>1, RankGrows
    <3> QED BY <1>4, <2>3, <2>4, <3>1, <3>2
  <2>7. FirstOf(hs, i, j)
    BY <1>1, <2>6
  <2>8. hs[i].cost * Divisor(hs[j]) \in Nat /\ hs[j].cost * Divisor(hs[i]) \in Nat
    <3>1. hs[i] \in Hypothesis /\ hs[j] \in Hypothesis
      OBVIOUS
    <3>2. hs[i].cost \in Nat /\ hs[j].cost \in Nat /\ hs[i].words \in Seq(Words) /\ hs[j].words \in Seq(Words)
      BY <3>1 DEF Hypothesis
    <3>3. Len(hs[i].words) \in Nat /\ Len(hs[j].words) \in Nat
      BY <3>2
    <3>4. Divisor(hs[i]) \in Nat /\ Divisor(hs[j]) \in Nat
      BY <3>3 DEF Divisor
    <3> QED BY <3>2, <3>4
  <2>9. hs[i].cost * Divisor(hs[j]) <= hs[j].cost * Divisor(hs[i])
    BY <2>7, <2>8 DEF FirstOf
  <2> QED BY <2>1, <2>2, <2>5, <2>9
<1> QED BY <1>2, <1>3, <1>4

-----------------------------------------------------------------------------
(* A row goes on with a word that is allowed. *)

\* A sequence with one more element.
LEMMA AppendIs ==
  ASSUME NEW S, NEW s \in Seq(S), NEW x \in S
  PROVE  /\ Append(s, x) \in Seq(S) /\ Len(Append(s, x)) = Len(s) + 1
         /\ Append(s, x)[Len(s) + 1] = x /\ \A i \in 1..Len(s) : Append(s, x)[i] = s[i]
OBVIOUS

\* A word after words without a penalty.
LEMMA OwnExtends ==
  ASSUME CallOK, NEW e \in Entries, NEW words, OwnWords(e, words), NEW w \in Words,
         Len(words) < Len(Prefix(e)) => w = Prefix(e)[Len(words) + 1],
         \/ Len(words) < Len(Prefix(e)) \/ MinLengthMisplaced
         \/ w \notin Forbidden(e, words) \/ Forbidden(e, words) = Words
  PROVE  OwnWords(e, Append(words, w))
<1>1. words \in Seq(Words)
  BY DEF OwnWords
<1>2. PICK P \in Nat, L \in Nat : P = Len(Prefix(e)) /\ L = Len(words)
  BY <1>1, LimitsAre
<1>3. PICK more \in Seq(Words) :
        /\ more = Append(words, w) /\ Len(more) = L + 1 /\ more[L + 1] = w
        /\ \A i \in 1..L : more[i] = words[i]
  <2>1. /\ Append(words, w) \in Seq(Words) /\ Len(Append(words, w)) = Len(words) + 1
        /\ Append(words, w)[Len(words) + 1] = w
        /\ \A i \in 1..Len(words) : Append(words, w)[i] = words[i]
    BY <1>1, AppendIs
  <2>2. Len(words) = L
    BY <1>2
  <2> QED BY <2>1, <2>2
<1>4. Follows(e, more)
  <2> SUFFICES ASSUME NEW i \in 1..(L + 1), i <= P PROVE more[i] = Prefix(e)[i]
    BY <1>2, <1>3 DEF Follows
  <2>1. CASE i = L + 1
    BY <1>2, <1>3, <2>1
  <2>2. CASE i # L + 1
    <3>1. i \in 1..L
      BY <2>2
    <3> QED BY <1>2, <1>3, <3>1 DEF OwnWords, Follows
  <2> QED BY <2>1, <2>2
<1>5. ASSUME NEW i \in 1..(L + 1) PROVE SubSeq(more, 1, i - 1) = SubSeq(words, 1, i - 1)
  <2>1. PICK j \in Nat : j = i - 1 /\ j <= L
    OBVIOUS
  <2>2. /\ SubSeq(more, 1, j) \in Seq(Words) /\ Len(SubSeq(more, 1, j)) = j
        /\ \A k \in 1..j : SubSeq(more, 1, j)[k] = more[k]
    BY <1>3, <2>1
  <2>3. /\ SubSeq(words, 1, j) \in Seq(Words) /\ Len(SubSeq(words, 1, j)) = j
        /\ \A k \in 1..j : SubSeq(words, 1, j)[k] = words[k]
    BY <1>1, <1>2, <2>1
  <2>4. \A k \in 1..j : SubSeq(more, 1, j)[k] = SubSeq(words, 1, j)[k]
    BY <1>3, <2>1, <2>2, <2>3
  <2>5. SubSeq(more, 1, j) = SubSeq(words, 1, j)
    BY <2>2, <2>3, <2>4, SameElements
  <2> QED BY <2>1, <2>5
<1>6. MinLengthMisplaced \/ Allowed(e, more)
  <2> SUFFICES ASSUME ~MinLengthMisplaced, NEW i \in 1..(L + 1), i > P, more[i] \in ForbiddenAt(e, more, i)
               PROVE  ForbiddenAt(e, more, i) = Words
    BY <1>2, <1>3 DEF Allowed
  <2>1. ForbiddenAt(e, more, i) = ForbiddenAt(e, words, i)
    BY <1>5 DEF ForbiddenAt
  <2>2. CASE i = L + 1
    <3>1. SubSeq(words, 1, i - 1) = words
      BY <1>1, <1>2, <2>2
    <3>2. ForbiddenAt(e, words, i) = Forbidden(e, words)
      BY <3>1 DEF ForbiddenAt
    <3> QED BY <1>2, <1>3, <2>1, <2>2, <3>2
  <2>3. CASE i # L + 1
    <3>1. i \in 1..L
      BY <2>3
    <3> QED BY <1>2, <1>3, <2>1, <3>1 DEF OwnWords, Allowed
  <2> QED BY <2>2, <2>3
<1> QED BY <1>3, <1>4, <1>6 DEF OwnWords

\* A word that is no end token, or within the prefix, leaves the words without one.
LEMMA EndFreeExtends ==
  ASSUME CallOK, NEW e \in Entries, NEW words \in Seq(Words), NEW w \in Words,
         EndFree(e, words, Len(words))
  PROVE  /\ EndFree(e, Append(words, w), Len(Append(words, w)) - 1)
         /\ Len(words) < Len(Prefix(e)) \/ w \notin call.endIds
              => EndFree(e, Append(words, w), Len(Append(words, w)))
<1>1. PICK P \in Nat, L \in Nat : P = Len(Prefix(e)) /\ L = Len(words)
  BY LimitsAre
<1>2. PICK more \in Seq(Words) :
        /\ more = Append(words, w) /\ Len(more) = L + 1 /\ more[L + 1] = w
        /\ \A i \in 1..L : more[i] = words[i]
  <2>1. /\ Append(words, w) \in Seq(Words) /\ Len(Append(words, w)) = Len(words) + 1
        /\ Append(words, w)[Len(words) + 1] = w
        /\ \A i \in 1..Len(words) : Append(words, w)[i] = words[i]
    BY <1>1, AppendIs
  <2>2. Len(words) = L
    BY <1>1
  <2> QED BY <2>1, <2>2
<1>3. \A i \in 1..L : i > P => more[i] \notin call.endIds
  BY <1>1, <1>2 DEF EndFree
<1>4. EndFree(e, more, L) /\ Len(more) - 1 = L
  BY <1>1, <1>2, <1>3 DEF EndFree
<1>5. ASSUME L < P \/ w \notin call.endIds PROVE EndFree(e, more, L + 1)
  <2> SUFFICES ASSUME NEW i \in 1..(L + 1), i > P PROVE more[i] \notin call.endIds
    BY <1>1 DEF EndFree
  <2>1. CASE i = L + 1
    BY <1>2, <1>5, <2>1
  <2>2. CASE i # L + 1
    <3>1. i \in 1..L
      BY <2>2
    <3> QED BY <1>3, <3>1
  <2> QED BY <2>1, <2>2
<1> QED BY <1>1, <1>2, <1>4, <1>5

\* A word whose cost in a row is no penalty.
LEMMA WordAllowed ==
  ASSUME NaturalCosts, CallOK, NEW s, Sized(s), Aligned(s),
         NEW n \in 1..Len(s.offset), NEW k \in 1..Width(s), s.step >= Len(Prefix(s.offset[n])),
         NEW w \in Words, WordCost(s, Flat(n, k, Width(s)), w) < Penalised
  PROVE  /\ \/ MinLengthMisplaced
            \/ w \notin Forbidden(s.offset[n], s.alive[Flat(n, k, Width(s))])
            \/ Forbidden(s.offset[n], s.alive[Flat(n, k, Width(s))]) = Words
         /\ WordCost(s, Flat(n, k, Width(s)), w) = 0 =>
              Cost(call.memories[s.offset[n]],
                   History(s.offset[n], s.alive[Flat(n, k, Width(s))]), w) = 0
<1>1. PICK r : r = Flat(n, k, Width(s))
  OBVIOUS
<1>2. EntryOf(r, Width(s)) = n
  BY <1>1, RowsOf
<1>3. s.memory[n] = call.memories[s.offset[n]] /\ Read(s, r) = History(s.offset[n], s.alive[r])
  BY <1>1 DEF Aligned, RowOK
<1>4. PICK cost : cost = Cost(call.memories[s.offset[n]], History(s.offset[n], s.alive[r]), w)
  OBVIOUS
<1>5. cost \in Nat
  <2>1. s.memory[n] \in Nat /\ Read(s, r) \in Seq(Words)
    BY <1>1, RowsOf
  <2> QED BY <1>3, <1>4, <2>1 DEF NaturalCosts
<1>6. PICK more \in Nat : more = (IF w \in ToSet(s.alive[r]) THEN call.repetition ELSE 0)
  <2>1. call.repetition \in Nat
    BY CallIs
  <2> QED BY <2>1
<1>7. WordCost(s, r, w) = IF DisabledWords(s, r) = Words THEN Uniform
                          ELSE IF w \in DisabledWords(s, r) THEN Disabled ELSE cost + more
  BY Zenon, <1>2, <1>3, <1>4, <1>6 DEF WordCost
<1>8. DisabledWords(s, r) = Words \/ w \notin DisabledWords(s, r)
  BY <1>1, <1>7 DEF Disabled, Penalised
<1>9. WordCost(s, r, w) = 0 => cost = 0
  BY <1>5, <1>6, <1>7, <1>8 DEF Uniform
<1>10. \/ MinLengthMisplaced
       \/ w \notin Forbidden(s.offset[n], s.alive[r]) \/ Forbidden(s.offset[n], s.alive[r]) = Words
  <2>1. ~MinLengthMisplaced => DisabledWords(s, r) = Forbidden(s.offset[n], s.alive[r])
    BY <1>1, DisabledIs
  <2> QED BY <1>8, <2>1
<1> QED BY <1>1, <1>4, <1>9, <1>10

-----------------------------------------------------------------------------
(* The rows of a beam without a penalty. *)

BeamRowsOK(s, n) ==
  /\ s.step < LastLength(s.offset[n])
  /\ s.step <= Len(Prefix(s.offset[n])) => s.scores[Flat(n, 1, Width(s))] = 0
  /\ \A k \in 1..Width(s) :
       /\ s.scores[Flat(n, k, Width(s))] < Penalised =>
            OwnWords(s.offset[n], s.alive[Flat(n, k, Width(s))])
       /\ SeveralEnds \/ EndFree(s.offset[n], s.alive[Flat(n, k, Width(s))], s.step)
  /\ \A j, k \in 1..Width(s) :
       /\ s.scores[Flat(n, j, Width(s))] < Penalised /\ s.scores[Flat(n, k, Width(s))] < Penalised
       /\ s.alive[Flat(n, j, Width(s))] = s.alive[Flat(n, k, Width(s))]
       => j = k

\* The candidates of an entry.
LEMMA SampleIs ==
  ASSUME NaturalCosts, CallOK, ~IsGreedy, NEW s, Sized(s), NEW n \in 1..Len(s.offset),
         NEW p \in 1..NumCandidates
  PROVE  /\ s.step < Len(Prefix(s.offset[n])) =>
              /\ Sample(s, n, p).origin = Flat(n, 1, Width(s))
              /\ Sample(s, n, p).word = Prefix(s.offset[n])[s.step + 1]
              /\ Sample(s, n, p).cost = IF p = 1 THEN 0 ELSE Penalised
         /\ s.step >= Len(Prefix(s.offset[n])) =>
              \/ Sample(s, n, p) = Best(s, n)[p]
              \/ Sample(s, n, p).cost = Penalised /\ Best(s, n)[p].word \in call.endIds
<1>1. PICK prefix : prefix = Prefix(s.offset[n])
  OBVIOUS
<1>2. PICK b : b = Best(s, n)[p]
  OBVIOUS
<1>3. Sample(s, n, p) =
        IF s.step < Len(prefix)
        THEN [origin |-> Flat(n, 1, Width(s)), word |-> prefix[s.step + 1],
              cost |-> IF p = 1 THEN 0 ELSE Penalised]
        ELSE IF HasPrefix /\ s.step = Len(prefix) /\ p > 1 /\ b.word \in call.endIds
        THEN [origin |-> Flat(n, 1, Width(s)), word |-> 0, cost |-> Penalised]
        ELSE b
  BY Zenon, <1>1, <1>2 DEF Sample, WithPrefix
<1>4. 1 \in 1..Width(s)
  BY CallIs DEF Width
<1>5. s.step \in Nat /\ s.offset[n] \in Entries
  BY <1>4, RowsOf
<1>6. Len(prefix) \in Nat
  BY <1>1, <1>5, LimitsAre
<1>7. s.step >= Len(prefix) => ~(s.step < Len(prefix))
  BY <1>5, <1>6
<1>8. s.step < Len(prefix) => /\ Sample(s, n, p).origin = Flat(n, 1, Width(s))
                              /\ Sample(s, n, p).word = prefix[s.step + 1]
                              /\ Sample(s, n, p).cost = IF p = 1 THEN 0 ELSE Penalised
  BY <1>3
<1>9. s.step >= Len(prefix) => \/ Sample(s, n, p) = b
                               \/ Sample(s, n, p).cost = Penalised /\ b.word \in call.endIds
  BY <1>3, <1>7
<1> QED BY Zenon, <1>1, <1>2, <1>8, <1>9

\* A candidate without a penalty comes from a row without one.
LEMMA OwnSample ==
  ASSUME NaturalCosts, CallOK, ~IsGreedy, NEW s, Sized(s), Aligned(s),
         NEW n \in 1..Len(s.offset), BeamRowsOK(s, n),
         NEW p \in 1..NumCandidates, Sample(s, n, p).cost < Penalised
  PROVE  \E j \in 1..Width(s) :
           /\ Sample(s, n, p).origin = Flat(n, j, Width(s)) /\ Sample(s, n, p).word \in Words
           /\ s.scores[Flat(n, j, Width(s))] < Penalised
           /\ s.alive[Flat(n, j, Width(s))] \in Seq(Words)
           /\ Len(s.alive[Flat(n, j, Width(s))]) = s.step
           /\ OwnWords(s.offset[n], Append(s.alive[Flat(n, j, Width(s))], Sample(s, n, p).word))
           /\ s.step < Len(Prefix(s.offset[n])) => p = 1
           /\ s.step >= Len(Prefix(s.offset[n])) =>
                /\ Sample(s, n, p) = Best(s, n)[p]
                /\ Sample(s, n, p).cost = 0 =>
                     Cost(call.memories[s.offset[n]],
                          History(s.offset[n], s.alive[Flat(n, j, Width(s))]),
                          Sample(s, n, p).word) = 0
<1>1. PICK e \in Entries, P \in Nat, T \in Nat :
        /\ e = s.offset[n] /\ P = Len(Prefix(e)) /\ T = s.step
  <2>1. 1 \in 1..Width(s)
    BY CallIs DEF Width
  <2>2. s.step \in Nat /\ s.offset[n] \in Entries
    BY <2>1, RowsOf
  <2>3. Len(Prefix(s.offset[n])) \in Nat
    BY <2>2, LimitsAre
  <2> QED BY <2>2, <2>3
<1>2. PICK c : c = Sample(s, n, p)
  OBVIOUS
<1>3. \A j \in 1..Width(s) : /\ s.alive[Flat(n, j, Width(s))] \in Seq(Words)
                             /\ s.scores[Flat(n, j, Width(s))] \in Nat
                             /\ Len(s.alive[Flat(n, j, Width(s))]) = T
  BY <1>1, RowsOf DEF Aligned, RowOK
<1>4. SampleOK(s, n, c)
  BY <1>2, BestIs, WithPrefixOK DEF Sample
<1>5. c.word \in Words /\ c.cost \in Nat
  BY <1>4 DEF SampleOK, Candidate
<1>6. CASE T < P
  <2>1. /\ c.origin = Flat(n, 1, Width(s)) /\ c.word = Prefix(e)[T + 1]
        /\ c.cost = IF p = 1 THEN 0 ELSE Penalised
    BY Zenon, <1>1, <1>2, <1>6, SampleIs
  <2>2. p = 1
    BY <1>2, <2>1 DEF Penalised
  <2>3. PICK j \in 1..Width(s) : j = 1
    BY CallIs DEF Width
  <2>4. s.scores[Flat(n, j, Width(s))] = 0
    BY <1>1, <1>6, <2>3 DEF BeamRowsOK
  <2>5. PICK words \in Seq(Words) : words = s.alive[Flat(n, j, Width(s))] /\ Len(words) = T
    BY <1>3
  <2>6. OwnWords(e, words)
    BY <1>1, <2>4, <2>5 DEF BeamRowsOK, Penalised
  <2>7. OwnWords(e, Append(words, c.word))
    BY <1>1, <1>5, <1>6, <2>1, <2>5, <2>6, OwnExtends
  <2>8. s.scores[Flat(n, j, Width(s))] < Penalised
    BY <2>4 DEF Penalised
  <2>9. ~(s.step >= Len(Prefix(s.offset[n])))
    BY <1>1, <1>6
  <2> QED BY Zenon, <1>1, <1>2, <1>5, <2>1, <2>2, <2>3, <2>5, <2>7, <2>8, <2>9
<1>7. CASE T >= P
  <2>1. c = Best(s, n)[p]
    <3>1. c = Best(s, n)[p] \/ c.cost = Penalised
      BY <1>1, <1>2, <1>7, SampleIs
    <3> QED BY <1>2, <3>1 DEF Penalised
  <2>2. PICK j \in 1..Width(s), w \in Words : c = Choice(s, Flat(n, j, Width(s)), w)
    <3>1. c \in RowChoices(s, n)
      BY <2>1, BestIs
    <3> QED BY <3>1, RowChoicesAre
  <2>3. PICK r : r = Flat(n, j, Width(s))
    OBVIOUS
  <2>4. c.origin = r /\ c.word = w /\ c.cost = Plus(s.scores[r], WordCost(s, r, w))
    BY <2>2, <2>3 DEF Choice
  <2>5. PICK a \in Nat, b \in Nat : a = s.scores[r] /\ b = WordCost(s, r, w)
    BY <1>3, <2>3, WordCostType
  <2>6. Plus(a, b) < Penalised /\ Plus(a, b) = c.cost
    BY <1>2, <2>4, <2>5
  <2>7. a < Penalised /\ b < Penalised /\ c.cost = a + b
    BY ONLY <2>6, PlusIs, a \in Nat, b \in Nat
  <2>8. /\ \/ MinLengthMisplaced
           \/ w \notin Forbidden(e, s.alive[r]) \/ Forbidden(e, s.alive[r]) = Words
        /\ WordCost(s, r, w) = 0 => Cost(call.memories[e], History(e, s.alive[r]), w) = 0
    <3>1. WordCost(s, Flat(n, j, Width(s)), w) < Penalised
      BY <2>3, <2>5, <2>7
    <3> QED BY <1>1, <1>7, <2>3, <3>1, WordAllowed
  <2>9. PICK words \in Seq(Words) : words = s.alive[r] /\ Len(words) = T
    BY <1>3, <2>3
  <2>10. OwnWords(e, words)
    BY <1>1, <2>3, <2>5, <2>7, <2>9 DEF BeamRowsOK
  <2>11. OwnWords(e, Append(words, w))
    <3>1. ~(Len(words) < Len(Prefix(e)))
      BY <1>1, <1>7, <2>9
    <3> QED BY <2>8, <2>9, <2>10, <3>1, OwnExtends
  <2>12. c.cost = 0 => b = 0
    BY <2>7
  <2>13. ~(s.step < Len(Prefix(s.offset[n])))
    BY <1>1, <1>7
  <2> QED BY Zenon, <1>1, <1>2, <2>1, <2>3, <2>4, <2>5, <2>7, <2>8, <2>9, <2>11, <2>12, <2>13
<1>8. T < P \/ T >= P
  BY <1>1
<1> QED BY <1>6, <1>7, <1>8

\* Two of them make different sequences of words.
LEMMA OwnDistinct ==
  ASSUME NaturalCosts, CallOK, ~IsGreedy, NEW s, Sized(s), Aligned(s),
         NEW n \in 1..Len(s.offset), BeamRowsOK(s, n),
         NEW p \in 1..NumCandidates, Sample(s, n, p).cost < Penalised,
         NEW q \in 1..NumCandidates, Sample(s, n, q).cost < Penalised,
         Append(s.alive[Sample(s, n, p).origin], Sample(s, n, p).word)
           = Append(s.alive[Sample(s, n, q).origin], Sample(s, n, q).word)
  PROVE  p = q
<1>1. PICK c : c = Sample(s, n, p)
  OBVIOUS
<1>2. PICK d : d = Sample(s, n, q)
  OBVIOUS
<1>3. PICK i \in 1..Width(s) :
        /\ c.origin = Flat(n, i, Width(s)) /\ c.word \in Words
        /\ s.scores[Flat(n, i, Width(s))] < Penalised
        /\ s.alive[Flat(n, i, Width(s))] \in Seq(Words)
        /\ s.step < Len(Prefix(s.offset[n])) => p = 1
        /\ s.step >= Len(Prefix(s.offset[n])) => c = Best(s, n)[p]
  BY <1>1, OwnSample
<1>4. PICK j \in 1..Width(s) :
        /\ d.origin = Flat(n, j, Width(s)) /\ d.word \in Words
        /\ s.scores[Flat(n, j, Width(s))] < Penalised
        /\ s.alive[Flat(n, j, Width(s))] \in Seq(Words)
        /\ s.step < Len(Prefix(s.offset[n])) => q = 1
        /\ s.step >= Len(Prefix(s.offset[n])) => d = Best(s, n)[q]
  BY <1>2, OwnSample
<1>5. PICK u \in Seq(Words), v \in Seq(Words) :
        u = s.alive[Flat(n, i, Width(s))] /\ v = s.alive[Flat(n, j, Width(s))]
  BY <1>3, <1>4
<1>6. Append(u, c.word) = Append(v, d.word)
  BY <1>1, <1>2, <1>3, <1>4, <1>5
<1>7. u = v /\ c.word = d.word
  <2>1. /\ Len(Append(u, c.word)) = Len(u) + 1 /\ Append(u, c.word)[Len(u) + 1] = c.word
        /\ \A k \in 1..Len(u) : Append(u, c.word)[k] = u[k]
    <3>1. u \in Seq(Words) /\ c.word \in Words
      BY <1>3, <1>5
    <3> QED BY ONLY <3>1, AppendIs
  <2>2. /\ Len(Append(v, d.word)) = Len(v) + 1 /\ Append(v, d.word)[Len(v) + 1] = d.word
        /\ \A k \in 1..Len(v) : Append(v, d.word)[k] = v[k]
    <3>1. v \in Seq(Words) /\ d.word \in Words
      BY <1>4, <1>5
    <3> QED BY ONLY <3>1, AppendIs
  <2>6. u \in Seq(Words) /\ v \in Seq(Words) /\ Len(u) \in Nat /\ Len(v) \in Nat
    <3>1. u \in Seq(Words) /\ v \in Seq(Words)
      BY Zenon, <1>5
    <3>2. \A words \in Seq(Words) : Len(words) \in Nat
      OBVIOUS
    <3> QED BY Zenon, <3>1, <3>2
  <2>3. Len(u) = Len(v)
    BY ONLY <1>6, <2>1, <2>2, <2>6
  <2>4. c.word = d.word
    BY ONLY <1>6, <2>1, <2>2, <2>3
  <2>5. \A k \in 1..Len(u) : u[k] = v[k]
    BY ONLY <1>6, <2>1, <2>2, <2>3
  <2> QED BY ONLY <2>3, <2>4, <2>5, <2>6, SameElements
<1>8. i = j
  BY <1>3, <1>4, <1>5, <1>7 DEF BeamRowsOK
<1>9. CASE s.step < Len(Prefix(s.offset[n]))
  BY <1>3, <1>4, <1>9
<1>10. CASE ~(s.step < Len(Prefix(s.offset[n])))
  <2>1. s.step \in Nat /\ s.offset[n] \in Entries
    BY <1>3, RowsOf
  <2>2. Len(Prefix(s.offset[n])) \in Nat
    BY <2>1, LimitsAre
  <2>3. c = Best(s, n)[p] /\ d = Best(s, n)[q]
    BY <1>3, <1>4, <1>10, <2>1, <2>2
  <2>4. c \in RowChoices(s, n) /\ d \in RowChoices(s, n) /\ OnePerWord(RowChoices(s, n))
    BY <2>3, BestIs, RowChoicesAre
  <2>5. c = d
    BY <1>3, <1>4, <1>7, <1>8, <2>4 DEF OnePerWord
  <2>6. Rank(RowChoices(s, n), Better(RowChoices(s, n)), c) = p
    BY <2>3, BestIs
  <2>7. Rank(RowChoices(s, n), Better(RowChoices(s, n)), d) = q
    BY <2>3, BestIs
  <2> QED BY <2>5, <2>6, <2>7
<1> QED BY <1>9, <1>10


-----------------------------------------------------------------------------
(* The candidates that go on. *)

\* The finished beams, the candidates that may replace them, and the place of a
\* finished beam among them.
Done(s, n) == FinishedBeams(s, n, BeamCandidates(s))
Spare(s, n) ==
  {p \in (call.beamSize + 1)..NumCandidates : Sample(s, n, p).word \notin call.endIds}
Place(s, n, k) == Cardinality({j \in Done(s, n) : j <= k})

\* A finished beam goes on with the spare candidate in its place, if there is one.
LEMMA ActiveForm ==
  ASSUME NaturalCosts, CallOK, ~IsGreedy, NEW s, Sized(s), NEW n \in 1..Len(s.offset),
         NEW k \in 1..call.beamSize
  PROVE  /\ Done(s, n) = {j \in 1..call.beamSize :
                            \/ Ends(s, s.offset[n], Sample(s, n, j).word)
                            \/ IsLastStep(s, s.offset[n])}
         /\ Active(s, n, k) =
              IF k \in Done(s, n) /\ Place(s, n, k) <= Len(InOrder(Spare(s, n)))
              THEN InOrder(Spare(s, n))[Place(s, n, k)] ELSE k
<1>1. call.beamSize \in Nat /\ NumCandidates = 2 * call.beamSize
  BY CallIs DEF NumCandidates
<1>2. \A p \in 1..NumCandidates : BeamCandidates(s)[Flat(n, p, NumCandidates)] = Sample(s, n, p)
  BY BeamCandidatesAre
<1>3. Done(s, n) = {j \in 1..call.beamSize :
                      \/ Ends(s, s.offset[n], Sample(s, n, j).word)
                      \/ IsLastStep(s, s.offset[n])}
  <2>1. 1..call.beamSize \subseteq 1..NumCandidates
    BY <1>1
  <2> QED BY <1>2, <2>1 DEF Done, FinishedBeams
<1>4. Spare(s, n) = {j \in (call.beamSize + 1)..NumCandidates :
                       BeamCandidates(s)[Flat(n, j, NumCandidates)].word \notin call.endIds}
  <2>1. (call.beamSize + 1)..NumCandidates \subseteq 1..NumCandidates
    BY <1>1
  <2> QED BY <1>2, <2>1 DEF Spare
<1>5. Active(s, n, k) =
        IF k \in Done(s, n) /\ Place(s, n, k) <= Len(InOrder(Spare(s, n)))
        THEN InOrder(Spare(s, n))[Place(s, n, k)] ELSE k
  BY Zenon, <1>4 DEF Active, ActiveCandidate, Done, Place
<1> QED BY <1>3, <1>5

\* The finished beams are taken in order.
LEMMA PlaceIs ==
  ASSUME NaturalCosts, CallOK, ~IsGreedy, NEW s, Sized(s), NEW n \in 1..Len(s.offset)
  PROVE  /\ IsFiniteSet(Done(s, n)) /\ Cardinality(Done(s, n)) \in Nat
         /\ \A k \in Done(s, n) : Place(s, n, k) \in 1..Cardinality(Done(s, n))
         /\ \A j, k \in Done(s, n) : Place(s, n, j) = Place(s, n, k) => j = k
<1>1. PICK B \in Nat : B = call.beamSize
  BY CallIs
<1>2. PICK D \in SUBSET (1..B) : D = Done(s, n)
  BY <1>1 DEF Done, FinishedBeams
<1>3. \A T \in SUBSET (1..B) : IsFiniteSet(T) /\ Cardinality(T) \in Nat
  <2>1. \A T \in SUBSET (1..B) : IsFiniteSet(T)
    BY <1>1, FinitePositions
  <2> QED BY <2>1, FS_CardinalityType
<1> DEFINE upTo(k) == {j \in D : j <= k}
<1>4. \A k \in D : /\ upTo(k) \in SUBSET (1..B) /\ upTo(k) \in SUBSET D /\ k \in upTo(k)
                   /\ Place(s, n, k) = Cardinality(upTo(k))
  BY <1>2 DEF Place
<1>5. \A j, k \in D : j < k => upTo(j) \in SUBSET upTo(k) /\ upTo(j) # upTo(k)
  BY <1>2
<1> HIDE DEF upTo
<1>6. ASSUME NEW k \in D PROVE Place(s, n, k) \in 1..Cardinality(D)
  <2>1. Cardinality(upTo(k)) <= Cardinality(D) /\ Cardinality(upTo(k)) \in Nat
    BY <1>2, <1>3, <1>4, FS_Subset
  <2>2. Cardinality(upTo(k)) # 0
    BY <1>3, <1>4, FS_EmptySet
  <2>3. Cardinality(D) \in Nat
    BY <1>2, <1>3
  <2> QED BY <1>4, <2>1, <2>2, <2>3
<1>7. ASSUME NEW j \in D, NEW k \in D, j < k PROVE Place(s, n, j) # Place(s, n, k)
  <2>1. IsFiniteSet(upTo(k)) /\ upTo(j) \in SUBSET upTo(k) /\ upTo(j) # upTo(k)
    BY <1>3, <1>4, <1>5, <1>7
  <2>2. Cardinality(upTo(j)) # Cardinality(upTo(k))
    BY <2>1, FS_Subset
  <2> QED BY <1>4, <2>2
<1>8. \A j, k \in D : j < k \/ k < j \/ j = k
  BY <1>1, <1>2
<1>9. \A j, k \in D : Place(s, n, j) = Place(s, n, k) => j = k
  BY <1>7, <1>8
<1>10. IsFiniteSet(D) /\ Cardinality(D) \in Nat
  BY <1>2, <1>3
<1> QED BY <1>2, <1>6, <1>9, <1>10

\* The candidates that may replace them.
LEMMA SpareIs ==
  ASSUME CallOK, NEW s, NEW n
  PROVE  /\ IsFiniteSet(Spare(s, n)) /\ Len(InOrder(Spare(s, n))) = Cardinality(Spare(s, n))
         /\ Cardinality(Spare(s, n)) \in Nat
         /\ \A i \in 1..Len(InOrder(Spare(s, n))) : InOrder(Spare(s, n))[i] \in Spare(s, n)
         /\ \A i, j \in 1..Len(InOrder(Spare(s, n))) :
              InOrder(Spare(s, n))[i] = InOrder(Spare(s, n))[j] => i = j
<1>1. call.beamSize \in Nat /\ NumCandidates \in Nat /\ call.beamSize + 1 \in Nat
  BY CallIs DEF NumCandidates
<1>2. Spare(s, n) \in SUBSET ((call.beamSize + 1)..NumCandidates)
  BY DEF Spare
<1>3. IsFiniteSet(Spare(s, n))
  BY <1>1, <1>2, FinitePositions
<1>4. Spare(s, n) \in SUBSET Nat
  BY <1>1, <1>2
<1>5. InOrder(Spare(s, n)) \in Seq(Spare(s, n))
  BY <1>3, <1>4, InOrderIs
<1>6. \A i \in 1..Len(InOrder(Spare(s, n))) : InOrder(Spare(s, n))[i] \in Spare(s, n)
  BY <1>5
<1> QED BY <1>3, <1>4, <1>6, InOrderIs

\* Two beams go on with different candidates.
LEMMA ActiveDistinct ==
  ASSUME NaturalCosts, CallOK, ~IsGreedy, NEW s, Sized(s), NEW n \in 1..Len(s.offset),
         NEW j \in 1..call.beamSize, NEW k \in 1..call.beamSize, Active(s, n, j) = Active(s, n, k)
  PROVE  j = k
<1>1. PICK B \in Nat : B = call.beamSize
  BY CallIs
<1>2. PICK D : D = Done(s, n)
  OBVIOUS
<1>3. PICK spare : spare = InOrder(Spare(s, n))
  OBVIOUS
<1>4. /\ Active(s, n, j) = IF j \in D /\ Place(s, n, j) <= Len(spare)
                           THEN spare[Place(s, n, j)] ELSE j
      /\ Active(s, n, k) = IF k \in D /\ Place(s, n, k) <= Len(spare)
                           THEN spare[Place(s, n, k)] ELSE k
  BY Zenon, <1>2, <1>3, ActiveForm
<1>5. /\ \A i \in D : Place(s, n, i) \in Nat \ {0}
      /\ \A i, m \in D : Place(s, n, i) = Place(s, n, m) => i = m
  <2>1. \A i \in D : Place(s, n, i) \in 1..Cardinality(D)
    BY <1>2, PlaceIs
  <2>2. \A i, m \in D : Place(s, n, i) = Place(s, n, m) => i = m
    BY <1>2, PlaceIs
  <2> QED BY <2>1, <2>2
<1>6. /\ Len(spare) \in Nat /\ \A i \in 1..Len(spare) : spare[i] \in Spare(s, n)
      /\ \A i, m \in 1..Len(spare) : spare[i] = spare[m] => i = m
  BY <1>3, SpareIs
<1>7. \A p \in Spare(s, n) : p > B
  BY <1>1 DEF Spare
<1>8. ASSUME NEW i \in 1..B, i \in D, Place(s, n, i) <= Len(spare)
      PROVE  Place(s, n, i) \in 1..Len(spare) /\ spare[Place(s, n, i)] > B
  BY <1>5, <1>6, <1>7, <1>8
<1>9. CASE (j \in D /\ Place(s, n, j) <= Len(spare)) /\ (k \in D /\ Place(s, n, k) <= Len(spare))
  <2>1. Place(s, n, j) \in 1..Len(spare) /\ Place(s, n, k) \in 1..Len(spare)
    BY <1>1, <1>8, <1>9
  <2>2. spare[Place(s, n, j)] = spare[Place(s, n, k)]
    BY <1>4, <1>9
  <2>3. Place(s, n, j) = Place(s, n, k)
    BY <1>6, <2>1, <2>2
  <2> QED BY <1>5, <1>9, <2>3
<1>10. CASE (j \in D /\ Place(s, n, j) <= Len(spare)) /\ ~(k \in D /\ Place(s, n, k) <= Len(spare))
  <2>1. Active(s, n, j) = spare[Place(s, n, j)] /\ Active(s, n, k) = k
    BY <1>4, <1>10
  <2>2. spare[Place(s, n, j)] > B
    BY <1>1, <1>8, <1>10
  <2>3. k > B
    BY Zenon, <2>1, <2>2
  <2> QED BY <1>1, <2>3
<1>11. CASE ~(j \in D /\ Place(s, n, j) <= Len(spare)) /\ (k \in D /\ Place(s, n, k) <= Len(spare))
  <2>1. Active(s, n, k) = spare[Place(s, n, k)] /\ Active(s, n, j) = j
    BY <1>4, <1>11
  <2> QED BY <1>1, <1>8, <1>11, <2>1
<1>12. CASE ~(j \in D /\ Place(s, n, j) <= Len(spare)) /\ ~(k \in D /\ Place(s, n, k) <= Len(spare))
  BY <1>4, <1>12
<1> QED BY <1>9, <1>10, <1>11, <1>12

\* A row has one candidate for a word, so the candidates of an entry with the same
\* end token are at most as many as its rows.
LEMMA EndTokensCounted ==
  ASSUME NaturalCosts, CallOK, ~IsGreedy, ~SeveralEnds, NEW s, Sized(s),
         NEW n \in 1..Len(s.offset), s.step >= Len(Prefix(s.offset[n])),
         NEW E, E = {p \in 1..NumCandidates : Sample(s, n, p).word \in call.endIds}
  PROVE  IsFiniteSet(E) /\ Cardinality(E) \in Nat /\ Cardinality(E) <= call.beamSize
<1>1. PICK B \in Nat, W \in Nat, N \in Nat :
        B = call.beamSize /\ W = Width(s) /\ W <= B /\ N = NumCandidates
  BY CallIs DEF Width, NumCandidates
<1>2. E \in SUBSET (1..N)
  BY <1>1
<1>3. \A p \in E : Best(s, n)[p].word \in call.endIds
  <2>1. \A p \in 1..NumCandidates : Sample(s, n, p) = Best(s, n)[p] \/ Best(s, n)[p].word \in call.endIds
    BY SampleIs
  <2> QED BY <2>1
<1>4. \A p \in 1..N : /\ Best(s, n)[p] \in RowChoices(s, n)
                      /\ Rank(RowChoices(s, n), Better(RowChoices(s, n)), Best(s, n)[p]) = p
  BY <1>1, BestIs
<1>5. OnePerWord(RowChoices(s, n))
  BY RowChoicesAre
<1>6. \A p \in 1..N : \E j \in 1..W : Best(s, n)[p].origin = Flat(n, j, W)
  <2> SUFFICES ASSUME NEW p \in 1..N PROVE \E j \in 1..W : Best(s, n)[p].origin = Flat(n, j, W)
    OBVIOUS
  <2>1. PICK j \in 1..Width(s), w \in Words : Best(s, n)[p] = Choice(s, Flat(n, j, Width(s)), w)
    BY <1>4, RowChoicesAre
  <2> QED BY <1>1, <2>1 DEF Choice
<1> DEFINE row == [p \in E |-> CHOOSE j \in 1..W : Best(s, n)[p].origin = Flat(n, j, W)]
<1>7. \A p \in E : row[p] \in 1..W /\ Best(s, n)[p].origin = Flat(n, row[p], W)
  BY <1>2, <1>6
<1>8. \A p, q \in E : row[p] = row[q] => p = q
  <2> HIDE DEF row
  <2> SUFFICES ASSUME NEW p \in E, NEW q \in E, row[p] = row[q] PROVE p = q
    OBVIOUS
  <2>1. Best(s, n)[p].origin = Best(s, n)[q].origin
    BY <1>7
  <2>2. Best(s, n)[p].word = Best(s, n)[q].word
    BY <1>3 DEF SeveralEnds
  <2>3. p \in 1..N /\ q \in 1..N
    BY <1>2
  <2>4. Best(s, n)[p] = Best(s, n)[q]
    BY <1>4, <1>5, <2>1, <2>2, <2>3 DEF OnePerWord
  <2> QED BY <1>4, <2>3, <2>4
<1>9. row \in Injection(E, 1..W)
  <2>1. row \in [E -> 1..W]
    BY <1>7
  <2> HIDE DEF row
  <2> QED BY <1>8, <2>1 DEF Injection, IsInjective
<1>10. IsFiniteSet(1..W) /\ Cardinality(1..W) = W
  <2>1. W \in Int /\ 1 \in Int
    BY <1>1
  <2>2. Cardinality(1..W) = (IF 1 > W THEN 0 ELSE W - 1 + 1) /\ IsFiniteSet(1..W)
    BY ONLY <2>1, FS_Interval
  <2> QED BY <1>1, <2>2
<1> HIDE DEF row
<1>11. IsFiniteSet(E) /\ Cardinality(E) <= W
  BY <1>9, <1>10, FS_Injection
<1>12. Cardinality(E) \in Nat
  BY <1>11, FS_CardinalityType
<1> QED BY <1>1, <1>11, <1>12

\* So each finished beam is replaced: a beam never goes on after an end token.
LEMMA ActiveGoesOn ==
  ASSUME NaturalCosts, CallOK, ~IsGreedy, ~SeveralEnds, NEW s, Sized(s),
         NEW n \in 1..Len(s.offset), s.step >= Len(Prefix(s.offset[n])),
         ~IsLastStep(s, s.offset[n]), NEW k \in 1..call.beamSize
  PROVE  Sample(s, n, Active(s, n, k)).word \notin call.endIds
<1> DEFINE ends(p) == Sample(s, n, p).word \in call.endIds
<1>0. call.beamSize \in Nat
  BY CallIs
<1>1. PICK B \in Nat, N \in Nat : B = call.beamSize /\ N = NumCandidates /\ N = 2 * B
  BY <1>0 DEF NumCandidates
<1>2. PICK D \in SUBSET (1..B), X \in SUBSET ((B + 1)..N), E \in SUBSET (1..N) :
        /\ D = {p \in 1..B : ends(p)} /\ X = {p \in (B + 1)..N : ends(p)}
        /\ E = {p \in 1..N : ends(p)}
  OBVIOUS
<1>3. Done(s, n) = D
  <2>1. \A j : Ends(s, s.offset[n], Sample(s, n, j).word) <=> ends(j)
    BY DEF Ends
  <2> QED BY SMTT(20), <1>1, <1>2, <2>1, ActiveForm
<1>4. Spare(s, n) = ((B + 1)..N) \ X
  BY <1>1, <1>2 DEF Spare
<1>5. D \cup X = E /\ D \cap X = {}
  <2>1. 1..N = (1..B) \cup ((B + 1)..N) /\ (1..B) \cap ((B + 1)..N) = {}
    BY <1>1
  <2> HIDE DEF ends
  <2> QED BY <1>2, <2>1
<1>6. IsFiniteSet(E) /\ Cardinality(E) \in Nat /\ Cardinality(E) <= B
  BY <1>1, <1>2, EndTokensCounted
<1> HIDE DEF ends
<1>7. IsFiniteSet(D) /\ IsFiniteSet(X) /\ Cardinality(D) \in Nat /\ Cardinality(X) \in Nat
  <2>1. IsFiniteSet(D) /\ IsFiniteSet(X)
    BY <1>5, <1>6, FS_Subset
  <2> QED BY <2>1, FS_CardinalityType
<1>8. Cardinality(D) + Cardinality(X) <= B
  <2>1. Cardinality(D \cup X) = Cardinality(D) + Cardinality(X) - Cardinality(D \cap X)
    BY <1>7, FS_Union
  <2>2. Cardinality(D \cap X) = 0
    BY <1>5, FS_EmptySet
  <2>3. Cardinality(E) = Cardinality(D) + Cardinality(X) - 0
    BY Zenon, <1>5, <2>1, <2>2
  <2> QED BY ONLY <1>1, <1>6, <1>7, <2>3, B \in Nat
<1>9. Cardinality(Spare(s, n)) = B - Cardinality(X)
  <2>1. IsFiniteSet((B + 1)..N) /\ Cardinality((B + 1)..N) = B
    <3>1. /\ IsFiniteSet((B + 1)..N)
          /\ Cardinality((B + 1)..N) = IF B + 1 > N THEN 0 ELSE N - (B + 1) + 1
      <4>1. B + 1 \in Int /\ N \in Int
        BY <1>1
      <4> QED BY ONLY <4>1, FS_Interval
    <3> QED BY <1>1, <3>1
  <2>2. Cardinality(((B + 1)..N) \ X) = Cardinality((B + 1)..N) - Cardinality(((B + 1)..N) \cap X)
    BY <2>1, FS_Difference
  <2>3. ((B + 1)..N) \cap X = X
    BY <1>2
  <2> QED BY <1>4, <2>1, <2>2, <2>3
<1>10. Active(s, n, k) = IF k \in D /\ Place(s, n, k) <= Len(InOrder(Spare(s, n)))
                         THEN InOrder(Spare(s, n))[Place(s, n, k)] ELSE k
  BY <1>3, ActiveForm
<1>11. CASE k \in D
  <2>1. Place(s, n, k) \in 1..Cardinality(D)
    BY <1>3, <1>11, PlaceIs
  <2>2. Len(InOrder(Spare(s, n))) = B - Cardinality(X)
    BY <1>9, SpareIs
  <2>3. Place(s, n, k) \in 1..Len(InOrder(Spare(s, n)))
    BY SMTT(20), <1>1, <1>7, <1>8, <2>1, <2>2
  <2>4. InOrder(Spare(s, n))[Place(s, n, k)] \in Spare(s, n)
    BY <2>3, SpareIs
  <2>5. Active(s, n, k) \in Spare(s, n)
    BY <1>10, <1>11, <2>3, <2>4
  <2> QED BY <2>5 DEF Spare
<1>12. CASE k \notin D
  BY <1>1, <1>2, <1>10, <1>12 DEF ends
<1> QED BY <1>11, <1>12

\* Within the prefix no beam is finished.
LEMMA PrefixGoesOn ==
  ASSUME NaturalCosts, CallOK, ~IsGreedy, NEW s, Sized(s), NEW n \in 1..Len(s.offset),
         s.step < Len(Prefix(s.offset[n])), ~IsLastStep(s, s.offset[n]),
         NEW k \in 1..call.beamSize
  PROVE  k \notin Done(s, n) /\ Active(s, n, k) = k
<1>1. s.step \in Nat /\ Len(Prefix(s.offset[n])) \in Nat
  <2>1. 1 \in 1..Width(s)
    BY CallIs DEF Width
  <2>2. s.step \in Nat /\ s.offset[n] \in Entries
    BY <2>1, RowsOf
  <2> QED BY <2>2, LimitsAre
<1>2. ~(s.step >= Len(Prefix(s.offset[n])))
  BY <1>1
<1>3. \A word : ~Ends(s, s.offset[n], word)
  BY <1>2 DEF Ends
<1>4. k \notin Done(s, n)
  BY <1>3, ActiveForm
<1> QED BY <1>4, ActiveForm

\* The words of the candidate that goes on in a beam.
LEMMA ActiveWords ==
  ASSUME NaturalCosts, CallOK, ~IsGreedy, NEW s, Sized(s), Aligned(s),
         NEW n \in 1..Len(s.offset), BeamRowsOK(s, n), ~IsLastStep(s, s.offset[n]), ~SeveralEnds,
         NEW k \in 1..call.beamSize, NEW c, c = Sample(s, n, Active(s, n, k))
  PROVE  EndFree(s.offset[n], Append(s.alive[c.origin], c.word), s.step + 1)
<1>1. Active(s, n, k) \in 1..NumCandidates
  BY ActiveIs
<1>2. SampleOK(s, n, c)
  BY <1>1, BeamCandidatesAre
<1>3. PICK j \in 1..Width(s) : c.origin = Flat(n, j, Width(s))
  BY <1>2 DEF SampleOK
<1>4. c.word \in Words
  BY <1>2 DEF SampleOK, Candidate
<1>5. PICK e \in Entries, T \in Nat, words \in Seq(Words) :
        /\ e = s.offset[n] /\ T = s.step /\ words = s.alive[c.origin] /\ Len(words) = T
  <2>1. s.offset[n] \in Entries /\ s.step \in Nat /\ s.alive[c.origin] \in Seq(Words)
    BY <1>3, RowsOf
  <2>2. Len(s.alive[c.origin]) = s.step
    BY <1>3 DEF Aligned, RowOK
  <2> QED BY <2>1, <2>2
<1>6. EndFree(e, words, Len(words))
  BY <1>3, <1>5 DEF BeamRowsOK
<1>7. Len(words) < Len(Prefix(e)) \/ c.word \notin call.endIds
  <2>1. Len(Prefix(e)) \in Nat
    BY <1>5, LimitsAre
  <2>2. T < Len(Prefix(e)) \/ s.step >= Len(Prefix(s.offset[n]))
    BY <1>5, <2>1
  <2>3. s.step >= Len(Prefix(s.offset[n])) => c.word \notin call.endIds
    BY ActiveGoesOn
  <2> QED BY <1>5, <2>2, <2>3
<1>8. EndFree(e, Append(words, c.word), Len(Append(words, c.word)))
  BY <1>4, <1>5, <1>6, <1>7, EndFreeExtends
<1>9. Len(Append(words, c.word)) = T + 1
  BY <1>4, <1>5, AppendIs
<1> QED BY Zenon, <1>5, <1>8, <1>9

\* The rows of an entry that stays in the batch.
LEMMA BeamRowsStay ==
  ASSUME NaturalCosts, CallOK, ~IsGreedy, NEW s, Sized(s), Aligned(s),
         NEW m \in 1..Len(Kept(s)), BeamRowsOK(s, Kept(s)[m])
  PROVE  BeamRowsOK(BeamStep(s), m)
<1>1. PICK u : u = BeamStep(s)
  OBVIOUS
<1>2. PICK n \in 1..Len(s.offset) : n = Kept(s)[m] /\ n \notin Leaving(s)
  BY KeptIs DEF Selects
<1>3. PICK e \in Entries, T \in Nat, P \in Nat, B \in Nat \ {0} :
        /\ e = s.offset[n] /\ T = s.step /\ P = Len(Prefix(e)) /\ B = call.beamSize
  <2>1. 1 \in 1..Width(s)
    BY CallIs DEF Width
  <2>2. s.step \in Nat /\ s.offset[n] \in Entries
    BY <2>1, RowsOf
  <2>3. Len(Prefix(s.offset[n])) \in Nat
    BY <2>2, LimitsAre
  <2> QED BY <2>2, <2>3, CallIs
<1>4. /\ Width(u) = B /\ u.step = T + 1 /\ u.offset[m] = e
      /\ \A k \in 1..B : RowFrom(u, Flat(m, k, B), s, Sample(s, n, Active(s, n, k)))
  BY Zenon, <1>1, <1>2, <1>3, BeamTurn
<1>5. ~IsLastStep(s, e)
  <2>1. ~IsFinished(s, n, NewTopDone(s)[n], NewHypotheses(s)[n])
    <3>1. n \in DOMAIN s.offset
      BY DEF Sized, State
    <3> QED BY <1>2, <3>1 DEF Leaving
  <2> QED BY <1>3, <2>1 DEF IsFinished
<1>6. T + 1 < LastLength(e)
  <2>1. T < LastLength(e)
    BY <1>2, <1>3 DEF BeamRowsOK
  <2>2. T + 1 # LastLength(e)
    BY <1>3, <1>5 DEF IsLastStep, LastLength
  <2>3. LastLength(e) \in Nat
    BY LimitsAre
  <2> QED BY <2>1, <2>2, <2>3
<1>7. ASSUME T + 1 <= P PROVE u.scores[Flat(m, 1, B)] = 0
  <2>1. T < P /\ 1 \in 1..B
    BY <1>3, <1>7
  <2>2. Active(s, n, 1) = 1
    BY <1>3, <1>5, <2>1, PrefixGoesOn
  <2>3. 1 \in 1..NumCandidates
    BY <1>3 DEF NumCandidates
  <2>4. Sample(s, n, 1).cost = 0
    BY <1>3, <2>1, <2>3, SampleIs
  <2> QED BY <1>4, <2>1, <2>2, <2>4 DEF RowFrom
<1>8. ASSUME NEW k \in 1..B
      PROVE  /\ u.scores[Flat(m, k, B)] < Penalised => OwnWords(e, u.alive[Flat(m, k, B)])
             /\ SeveralEnds \/ EndFree(e, u.alive[Flat(m, k, B)], T + 1)
  <2>1. PICK c : c = Sample(s, n, Active(s, n, k))
    OBVIOUS
  <2>2. u.scores[Flat(m, k, B)] = c.cost /\ u.alive[Flat(m, k, B)] = Append(s.alive[c.origin], c.word)
    BY <1>4, <2>1 DEF RowFrom
  <2>3. Active(s, n, k) \in 1..NumCandidates
    BY <1>3, ActiveIs
  <2>4. c.cost < Penalised => OwnWords(e, Append(s.alive[c.origin], c.word))
    BY <1>2, <1>3, <2>1, <2>3, OwnSample
  <2>5. SeveralEnds \/ EndFree(e, Append(s.alive[c.origin], c.word), T + 1)
    BY <1>2, <1>3, <1>5, <2>1, ActiveWords
  <2> QED BY <2>2, <2>4, <2>5
<1>9. ASSUME NEW j \in 1..B, NEW k \in 1..B,
             u.scores[Flat(m, j, B)] < Penalised, u.scores[Flat(m, k, B)] < Penalised,
             u.alive[Flat(m, j, B)] = u.alive[Flat(m, k, B)]
      PROVE  j = k
  <2>1. PICK c, d : c = Sample(s, n, Active(s, n, j)) /\ d = Sample(s, n, Active(s, n, k))
    OBVIOUS
  <2>2. /\ u.scores[Flat(m, j, B)] = c.cost /\ u.alive[Flat(m, j, B)] = Append(s.alive[c.origin], c.word)
        /\ u.scores[Flat(m, k, B)] = d.cost /\ u.alive[Flat(m, k, B)] = Append(s.alive[d.origin], d.word)
    BY <1>4, <2>1 DEF RowFrom
  <2>3. Active(s, n, j) \in 1..NumCandidates /\ Active(s, n, k) \in 1..NumCandidates
    BY <1>3, ActiveIs
  <2>4. c.cost < Penalised /\ d.cost < Penalised
        /\ Append(s.alive[c.origin], c.word) = Append(s.alive[d.origin], d.word)
    BY <1>9, <2>2
  <2>5. Active(s, n, j) = Active(s, n, k)
    BY <1>2, <2>1, <2>3, <2>4, OwnDistinct
  <2> QED BY <1>3, <2>5, ActiveDistinct
<1>10. u.step <= P => u.scores[Flat(m, 1, B)] = 0
  BY <1>4, <1>7
<1>11. BeamRowsOK(u, m)
  BY Zenon, <1>3, <1>4, <1>6, <1>8, <1>9, <1>10 DEF BeamRowsOK
<1> QED BY <1>1, <1>11

-----------------------------------------------------------------------------
(* The hypotheses of an entry. *)

\* A hypothesis that ends earlier has fewer words.
LEMMA ReturnedLonger ==
  ASSUME CallOK, NEW e \in Entries, call.stops = {},
         NEW f, Complete(e, f), NEW g, Complete(e, g), Len(f) < Len(g)
  PROVE  Returned(e, f) # Returned(e, g)
<1>1. PICK F \in Nat, m \in Nat, n \in Nat, a \in Nat, b \in Nat :
        /\ F = FirstReturned(e) /\ m = Len(f) /\ n = Len(g)
        /\ a = LastReturned(f) /\ b = LastReturned(g)
  <2>1. FirstReturned(e) \in Nat
    BY LimitsAre
  <2>2. Len(f) \in Nat /\ LastReturned(f) \in Nat
    BY ReturnedIs
  <2>3. Len(g) \in Nat /\ LastReturned(g) \in Nat
    BY ReturnedIs
  <2> QED BY <2>1, <2>2, <2>3
<1>2. Len(Returned(e, f)) = a - F + 1 /\ Len(Returned(e, g)) = b - F + 1
  BY <1>1, ReturnedIs
<1>3. n <= LastLength(e) /\ LastLength(e) \in Nat
  BY <1>1, LimitsAre DEF Complete
<1>4. f[Len(f)] \in call.endIds
  <2>1. m # LastLength(e)
    BY <1>1, <1>3
  <2> QED BY <1>1, <2>1 DEF Complete
<1>5. a = (IF call.includeEos THEN m ELSE m - 1)
  BY <1>1, <1>4 DEF LastReturned
<1>6. b = n \/ (~call.includeEos /\ b = n - 1)
  BY <1>1 DEF LastReturned
<1>7. a < b
  BY <1>1, <1>5, <1>6
<1> QED BY <1>1, <1>2, <1>7

\* A hypothesis comes from one row only, unless several end tokens are left out.
LEMMA ReturnedOnce ==
  ASSUME CallOK, NEW e \in Entries, call.stops = {}, ~SeveralEnds \/ call.includeEos,
         NEW f, Complete(e, f), NEW g, Complete(e, g), Returned(e, f) = Returned(e, g)
  PROVE  f = g
<1>1. PICK F \in Nat, L \in Nat, m \in Nat, a \in Nat, b \in Nat, P \in Nat :
        /\ F = FirstReturned(e) /\ L = Len(f) /\ m = Len(g) /\ P = Len(Prefix(e))
        /\ a = LastReturned(f) /\ b = LastReturned(g)
  <2>1. FirstReturned(e) \in Nat /\ Len(Prefix(e)) \in Nat
    BY LimitsAre
  <2>2. Len(f) \in Nat /\ LastReturned(f) \in Nat
    BY ReturnedIs
  <2>3. Len(g) \in Nat /\ LastReturned(g) \in Nat
    BY ReturnedIs
  <2> QED BY <2>1, <2>2, <2>3
<1>2. L = m
  <2>1. ~(L < m) /\ ~(m < L)
    BY <1>1, ReturnedLonger
  <2> QED BY <1>1, <2>1
<1>3. /\ Len(Returned(e, f)) = a - F + 1 /\ Len(Returned(e, g)) = b - F + 1
      /\ \A i \in 1..(a - F + 1) : Returned(e, f)[i] = f[F + i - 1]
      /\ \A i \in 1..(b - F + 1) : Returned(e, g)[i] = g[F + i - 1]
      /\ F <= a + 1 /\ a <= L
  <2>1. /\ Len(Returned(e, f)) = a - F + 1 /\ F <= a + 1 /\ a <= L
        /\ \A i \in 1..Len(Returned(e, f)) : Returned(e, f)[i] = f[F + i - 1]
    BY <1>1, ReturnedIs
  <2>2. /\ Len(Returned(e, g)) = b - F + 1
        /\ \A i \in 1..Len(Returned(e, g)) : Returned(e, g)[i] = g[F + i - 1]
    BY <1>1, ReturnedIs
  <2> QED BY <2>1, <2>2
<1>4. a = b
  <2>1. a - F + 1 = b - F + 1
    BY Zenon, <1>3
  <2> QED BY ONLY SMTT(20), <2>1, <1>1, a \in Nat, b \in Nat, F \in Nat
<1>5. \A i \in 1..L : i >= F /\ i <= a => f[i] = g[i]
  <2> SUFFICES ASSUME NEW i \in 1..L, i >= F, i <= a PROVE f[i] = g[i]
    OBVIOUS
  <2>1. PICK j \in 1..(a - F + 1) : i = F + j - 1
    <3>1. i - F + 1 \in 1..(a - F + 1) /\ i = F + (i - F + 1) - 1
      BY <1>1
    <3> QED BY <3>1
  <2> QED BY <1>3, <1>4, <2>1
<1>6. \A i \in 1..L : i < F => f[i] = g[i]
  <2> SUFFICES ASSUME NEW i \in 1..L, i < F PROVE f[i] = g[i]
    OBVIOUS
  <2>1. i <= P
    BY <1>1, LimitsAre
  <2>2. Follows(e, f) /\ Follows(e, g)
    BY DEF Complete, OwnWords
  <2>3. i \in 1..Len(f) /\ i \in 1..Len(g)
    BY <1>1, <1>2
  <2>4. f[i] = Prefix(e)[i] /\ g[i] = Prefix(e)[i]
    BY <1>1, <2>1, <2>2, <2>3 DEF Follows
  <2> QED BY <2>4
<1>7. \A i \in 1..L : i > a => f[i] = g[i]
  <2> SUFFICES ASSUME NEW i \in 1..L, i > a PROVE f[i] = g[i]
    OBVIOUS
  <2>1. /\ a = (IF f[L] \in call.endIds /\ ~call.includeEos THEN L - 1 ELSE L)
        /\ a = (IF g[L] \in call.endIds /\ ~call.includeEos THEN L - 1 ELSE L)
    BY <1>1, <1>2, <1>4 DEF LastReturned
  <2>2. i = L /\ f[L] \in call.endIds /\ g[L] \in call.endIds /\ ~call.includeEos
    BY <1>1, <2>1
  <2> QED BY <2>2 DEF SeveralEnds
<1>8. \A i \in 1..L : i < F \/ (i >= F /\ i <= a) \/ i > a
  BY <1>1
<1>9. \A i \in 1..Len(f) : f[i] = g[i]
  BY <1>1, <1>5, <1>6, <1>7, <1>8
<1>10. f \in Seq(Words) /\ g \in Seq(Words)
  BY DEF Complete, OwnWords
<1> QED BY <1>1, <1>2, <1>9, <1>10, SameElements

\* A hypothesis of entry e, registered within a number of steps: unless its score is
\* a penalty, it has the words of a row.
HypothesisOK(e, steps, h) ==
  /\ h \in Hypothesis
  /\ h.cost < Penalised =>
       \E full \in Seq(Words) :
         Complete(e, full) /\ Len(full) <= steps /\ h.words = Returned(e, full)
  /\ h.cost > 0 \/ Divisor(h) > 0 \/ EndInPrefix(e) \/ EmptyForFree(e)

\* Two of them with the same words have a penalty, or left out different end tokens.
Apart(g, h) ==
  g.cost < Penalised /\ h.cost < Penalised /\ g.words = h.words => SeveralEnds /\ ~call.includeEos

HypothesesOK(e, steps, hs) ==
  /\ hs \in Seq(Hypothesis)
  /\ \A i \in 1..Len(hs) : HypothesisOK(e, steps, hs[i])
  /\ \A i, j \in 1..Len(hs) : i # j => Apart(hs[i], hs[j])

\* The words a finished beam makes a hypothesis of: those of its candidate.
Row(s, n, p) == Append(s.alive[Sample(s, n, p).origin], Sample(s, n, p).word)

\* The hypotheses of a turn, one for each finished beam.
LEMMA RegisteredIs ==
  ASSUME NaturalCosts, CallOK, ~IsGreedy, NEW s, Sized(s), Aligned(s), NEW n \in 1..Len(s.offset),
         NEW hs, hs = Registered(s, n, BeamCandidates(s), NewAlive(s)),
         NEW beams, beams = InOrder(Done(s, n))
  PROVE  /\ hs = [m \in 1..Len(beams) |-> hs[m]] /\ Len(beams) = Cardinality(Done(s, n))
         /\ Len(beams) \in Nat
         /\ \A m \in 1..Len(beams) :
              /\ beams[m] \in Done(s, n) /\ beams[m] \in 1..call.beamSize
              /\ hs[m] = [words |-> Returned(s.offset[n], Row(s, n, beams[m])),
                          cost |-> Sample(s, n, beams[m]).cost]
         /\ \A i, j \in 1..Len(beams) : beams[i] = beams[j] => i = j
<1>1. PICK B \in Nat, N \in Nat : B = call.beamSize /\ N = NumCandidates /\ N = 2 * B
  <2>1. call.beamSize \in Nat
    BY CallIs
  <2>2. 2 * call.beamSize \in Nat
    BY <2>1
  <2> QED BY <2>1, <2>2 DEF NumCandidates
<1>2. Done(s, n) \in SUBSET (1..B)
  BY <1>1 DEF Done, FinishedBeams
<1>3. /\ beams \in Seq(Done(s, n)) /\ DOMAIN beams = 1..Len(beams)
      /\ Len(beams) = Cardinality(Done(s, n)) /\ Len(beams) \in Nat
      /\ \A i, j \in 1..Len(beams) : beams[i] = beams[j] => i = j
  <2>1. Done(s, n) \in SUBSET Nat
    BY <1>1, <1>2
  <2>2. IsFiniteSet(Done(s, n))
    BY PlaceIs
  <2> QED BY <2>1, <2>2, InOrderIs
<1>4. \A m \in 1..Len(beams) : beams[m] \in Done(s, n) /\ beams[m] \in 1..B
  BY <1>2, <1>3
<1> DEFINE start == IF ReturnPrefix THEN 1 ELSE Len(Prefix(s.offset[n])) + 1
           ignore(k) == BeamCandidates(s)[Flat(n, k, N)].word \in call.endIds /\ ~call.includeEos
           hypothesis(k) ==
             [words |-> SubSeq(NewAlive(s)[Flat(n, k, N)], start, s.step + IF ignore(k) THEN 0 ELSE 1),
              cost |-> BeamCandidates(s)[Flat(n, k, N)].cost]
<1>5. hs = [m \in DOMAIN beams |-> hypothesis(beams[m])]
  BY Zenon, <1>1 DEF Registered, Done
<1>6. ASSUME NEW k \in 1..B
      PROVE  hypothesis(k) = [words |-> Returned(s.offset[n], Row(s, n, k)),
                              cost |-> Sample(s, n, k).cost]
  <2>1. k \in 1..N
    BY <1>1
  <2>2. BeamCandidates(s)[Flat(n, k, N)] = Sample(s, n, k)
    BY <1>1, <2>1, BeamCandidatesAre
  <2>3. NewAlive(s)[Flat(n, k, N)] = Row(s, n, k)
    <3>1. Len(BeamCandidates(s)) = Len(s.offset) * N /\ BeamCandidates(s) \in Seq(Candidate)
      BY <1>1, BeamCandidatesAre
    <3>2. DOMAIN BeamCandidates(s) = 1..Len(BeamCandidates(s))
      BY <3>1
    <3>3. Len(s.offset) \in Nat
      BY DEF Sized, State
    <3>4. Flat(n, k, N) \in DOMAIN BeamCandidates(s)
      BY <1>1, <2>1, <3>1, <3>2, <3>3, FlatRange
    <3> QED BY <2>2, <3>4 DEF NewAlive, Row
  <2>4. start = FirstReturned(s.offset[n])
    BY DEF FirstReturned
  <2>5. s.step + (IF ignore(k) THEN 0 ELSE 1) = LastReturned(Row(s, n, k))
    <3>1. SampleOK(s, n, Sample(s, n, k))
      BY <1>1, <2>1, BeamCandidatesAre
    <3>2. PICK j \in 1..Width(s) : Sample(s, n, k).origin = Flat(n, j, Width(s))
      BY <3>1 DEF SampleOK
    <3>3. PICK words \in Seq(Words), T \in Nat :
            words = s.alive[Sample(s, n, k).origin] /\ Len(words) = T /\ T = s.step
      <4>1. s.step \in Nat /\ s.alive[Sample(s, n, k).origin] \in Seq(Words)
        BY <3>2, RowsOf
      <4>2. Len(s.alive[Sample(s, n, k).origin]) = s.step
        BY <3>2 DEF Aligned, RowOK
      <4> QED BY <4>1, <4>2
    <3>4. Sample(s, n, k).word \in Words
      BY <3>1 DEF SampleOK, Candidate
    <3>5. /\ Len(Append(words, Sample(s, n, k).word)) = Len(words) + 1
          /\ Append(words, Sample(s, n, k).word)[Len(words) + 1] = Sample(s, n, k).word
      BY <3>3, <3>4, AppendIs
    <3>6. Len(Row(s, n, k)) = T + 1 /\ Row(s, n, k)[Len(Row(s, n, k))] = Sample(s, n, k).word
      BY Zenon, <3>3, <3>5 DEF Row
    <3>7. LastReturned(Row(s, n, k)) =
            IF Sample(s, n, k).word \in call.endIds /\ ~call.includeEos THEN T ELSE T + 1
      BY <3>3, <3>6 DEF LastReturned
    <3>8. ignore(k) <=> Sample(s, n, k).word \in call.endIds /\ ~call.includeEos
      BY Zenon, <2>2
    <3> QED BY <3>3, <3>7, <3>8
  <2> HIDE DEF start, ignore
  <2> QED BY Zenon, <2>2, <2>3, <2>4, <2>5 DEF Returned
<1> HIDE DEF hypothesis
<1>7. \A m \in 1..Len(beams) :
        hs[m] = [words |-> Returned(s.offset[n], Row(s, n, beams[m])),
                 cost |-> Sample(s, n, beams[m]).cost]
  BY <1>3, <1>4, <1>5, <1>6
<1>8. hs = [m \in 1..Len(beams) |-> hs[m]]
  BY <1>3, <1>5
<1> QED BY <1>1, <1>3, <1>4, <1>7, <1>8

\* The row of a finished beam is long enough.
LEMMA DoneRow ==
  ASSUME NaturalCosts, CallOK, ~IsGreedy, NEW s, Sized(s), Aligned(s), NEW n \in 1..Len(s.offset),
         BeamRowsOK(s, n), NEW k \in Done(s, n), NEW e, e = s.offset[n]
  PROVE  /\ e \in Entries /\ s.step \in Nat /\ k \in 1..NumCandidates
         /\ Sample(s, n, k).cost \in Nat /\ Sample(s, n, k).word \in Words
         /\ Row(s, n, k) \in Seq(Words) /\ Len(Row(s, n, k)) = s.step + 1
         /\ Row(s, n, k)[Len(Row(s, n, k))] = Sample(s, n, k).word
         /\ FirstReturned(e) <= Len(Row(s, n, k)) /\ Len(Row(s, n, k)) <= LastLength(e)
         /\ \/ Len(Row(s, n, k)) = LastLength(e)
            \/ Len(Row(s, n, k)) > Len(Prefix(e)) /\ Sample(s, n, k).word \in call.endIds
<1>1. k \in 1..call.beamSize /\ (Ends(s, s.offset[n], Sample(s, n, k).word) \/ IsLastStep(s, s.offset[n]))
  <2>1. k \in 1..call.beamSize
    BY DEF Done, FinishedBeams
  <2> QED BY <2>1, ActiveForm
<1>2. k \in 1..NumCandidates
  BY <1>1, CallIs DEF NumCandidates
<1>3. SampleOK(s, n, Sample(s, n, k))
  BY <1>2, BeamCandidatesAre
<1>4. PICK j \in 1..Width(s) : Sample(s, n, k).origin = Flat(n, j, Width(s))
  BY <1>3 DEF SampleOK
<1>5. e \in Entries /\ s.step \in Nat /\ s.alive[Sample(s, n, k).origin] \in Seq(Words)
  BY <1>4, RowsOf
<1>6. PICK T \in Nat, P \in Nat, words \in Seq(Words), w \in Words :
        /\ T = s.step /\ P = Len(Prefix(e)) /\ words = s.alive[Sample(s, n, k).origin]
        /\ w = Sample(s, n, k).word /\ Len(words) = T
  <2>1. Len(Prefix(e)) \in Nat
    BY <1>5, LimitsAre
  <2>2. Sample(s, n, k).word \in Words
    BY <1>3 DEF SampleOK, Candidate
  <2>3. Len(s.alive[Sample(s, n, k).origin]) = s.step
    BY <1>4 DEF Aligned, RowOK
  <2> QED BY <1>5, <2>1, <2>2, <2>3
<1>7. /\ Append(words, w) \in Seq(Words) /\ Len(Append(words, w)) = Len(words) + 1
      /\ Append(words, w)[Len(words) + 1] = w
  BY ONLY AppendIs, words \in Seq(Words), w \in Words
<1>8. Row(s, n, k) = Append(words, w)
  BY Zenon, <1>6 DEF Row
<1>9. PICK F \in Nat, L \in Nat, M \in Nat :
        /\ F = FirstReturned(e) /\ F = (IF ReturnPrefix THEN 1 ELSE P + 1)
        /\ L = LastLength(e) /\ L = (IF ReturnPrefix THEN M ELSE M + P) /\ M > 0
  <2>1. FirstReturned(e) \in Nat /\ LastLength(e) \in Nat /\ call.maxLength \in Nat
    BY SMTT(20), <1>5, LimitsAre
  <2> QED BY <1>5, <1>6, <2>1, LimitsAre
<1>10. T < L
  BY <1>6, <1>9 DEF BeamRowsOK
<1>11. T + 1 = L \/ (T >= P /\ w \in call.endIds)
  <2>1. IsLastStep(s, e) => T + 1 = L
    <3>1. IsLastStep(s, e) => s.step + 1 = LastLength(e)
      BY Zenon DEF IsLastStep, LastLength
    <3> QED BY <1>6, <1>9, <3>1
  <2> QED BY <1>1, <1>6, <2>1 DEF Ends
<1>12. F <= T + 1 /\ T + 1 <= L
  BY <1>9, <1>10, <1>11
<1>13. T + 1 = L \/ (T + 1 > P /\ w \in call.endIds)
  BY <1>11, <1>6
<1>14. Sample(s, n, k).cost \in Nat
  BY <1>3 DEF SampleOK, Candidate
<1>15. Len(Append(words, w)) = T + 1 /\ Append(words, w)[Len(Append(words, w))] = w
  BY Zenon, <1>6, <1>7
<1> QED BY Zenon, <1>2, <1>5, <1>6, <1>7, <1>8, <1>9, <1>12, <1>13, <1>14, <1>15

\* Without a penalty it makes a hypothesis.
LEMMA DoneComplete ==
  ASSUME NaturalCosts, CallOK, ~IsGreedy, NEW s, Sized(s), Aligned(s), NEW n \in 1..Len(s.offset),
         BeamRowsOK(s, n), NEW k \in Done(s, n), NEW e, e = s.offset[n],
         Sample(s, n, k).cost < Penalised
  PROVE  Complete(e, Row(s, n, k))
<1>1. PICK row : row = Row(s, n, k)
  OBVIOUS
<1>2. /\ e \in Entries /\ s.step \in Nat /\ k \in 1..NumCandidates
      /\ row \in Seq(Words) /\ Len(row) = s.step + 1 /\ row[Len(row)] = Sample(s, n, k).word
      /\ FirstReturned(e) <= Len(row) /\ Len(row) <= LastLength(e)
      /\ \/ Len(row) = LastLength(e)
         \/ Len(row) > Len(Prefix(e)) /\ Sample(s, n, k).word \in call.endIds
  BY Zenon, <1>1, DoneRow
<1>3. PICK j \in 1..Width(s) :
        /\ Sample(s, n, k).origin = Flat(n, j, Width(s)) /\ Sample(s, n, k).word \in Words
        /\ s.alive[Flat(n, j, Width(s))] \in Seq(Words)
        /\ Len(s.alive[Flat(n, j, Width(s))]) = s.step
        /\ OwnWords(s.offset[n], Append(s.alive[Flat(n, j, Width(s))], Sample(s, n, k).word))
  BY <1>2, OwnSample
<1>4. PICK words \in Seq(Words) :
        words = s.alive[Flat(n, j, Width(s))] /\ row = Append(words, Sample(s, n, k).word)
  BY <1>1, <1>3 DEF Row
<1>5. OwnWords(e, row)
  BY <1>3, <1>4
<1>6. SeveralEnds \/ EndFree(e, row, Len(row) - 1)
  <2>1. SeveralEnds \/ EndFree(e, words, Len(words))
    BY <1>3, <1>4 DEF BeamRowsOK
  <2> QED BY <1>2, <1>3, <1>4, <2>1, EndFreeExtends
<1> QED BY Zenon, <1>1, <1>2, <1>5, <1>6 DEF Complete

\* An empty hypothesis of cost zero left out an end token for free.
LEMMA DoneDivisible ==
  ASSUME NaturalCosts, CallOK, ~IsGreedy, NEW s, Sized(s), Aligned(s), NEW n \in 1..Len(s.offset),
         BeamRowsOK(s, n), NEW k \in Done(s, n), NEW e, e = s.offset[n],
         Sample(s, n, k).cost = 0, call.normalize, Len(Returned(e, Row(s, n, k))) = 0
  PROVE  EndInPrefix(e) \/ EmptyForFree(e)
<1>1. PICK row : row = Row(s, n, k)
  OBVIOUS
<1>2. /\ e \in Entries /\ s.step \in Nat /\ k \in 1..NumCandidates
      /\ row \in Seq(Words) /\ Len(row) = s.step + 1 /\ row[Len(row)] = Sample(s, n, k).word
      /\ FirstReturned(e) <= Len(row)
  BY Zenon, <1>1, DoneRow
<1>3. PICK T \in Nat, P \in Nat, F \in Nat, w \in Words :
        /\ T = s.step /\ P = Len(Prefix(e)) /\ F = FirstReturned(e) /\ w = Sample(s, n, k).word
        /\ F = (IF ReturnPrefix THEN 1 ELSE P + 1)
  <2>1. FirstReturned(e) \in Nat /\ Len(Prefix(e)) \in Nat
    BY <1>2, LimitsAre
  <2>2. Sample(s, n, k).word \in Words
    BY DoneRow
  <2> QED BY <1>2, <2>1, <2>2, LimitsAre
<1>4. Sample(s, n, k).cost < Penalised
  BY DEF Penalised
<1>5. Complete(e, row)
  BY <1>1, <1>4, DoneComplete
<1>6. LastReturned(row) = T /\ F = T + 1 /\ w \in call.endIds /\ ~call.includeEos
  <2>1. Len(Returned(e, row)) = LastReturned(row) - FirstReturned(e) + 1 /\ LastReturned(row) \in Nat
    BY <1>2, <1>5, ReturnedIs
  <2>2. LastReturned(row) = IF w \in call.endIds /\ ~call.includeEos THEN T + 1 - 1 ELSE T + 1
    BY <1>2, <1>3 DEF LastReturned
  <2>3. Len(Returned(e, row)) = 0
    BY <1>1
  <2> QED BY SMTT(20), <1>2, <1>3, <2>1, <2>2, <2>3
<1>7. PICK j \in 1..Width(s) :
        /\ s.alive[Flat(n, j, Width(s))] \in Seq(Words)
        /\ Len(s.alive[Flat(n, j, Width(s))]) = s.step
        /\ OwnWords(s.offset[n], Append(s.alive[Flat(n, j, Width(s))], Sample(s, n, k).word))
        /\ s.step >= Len(Prefix(s.offset[n])) =>
              (Sample(s, n, k).cost = 0 =>
                Cost(call.memories[s.offset[n]],
                     History(s.offset[n], s.alive[Flat(n, j, Width(s))]),
                     Sample(s, n, k).word) = 0)
  BY <1>2, <1>4, OwnSample
<1>8. PICK words \in Seq(Words) : words = s.alive[Flat(n, j, Width(s))] /\ Len(words) = T
  BY <1>3, <1>7
<1>9. Follows(e, Append(words, w)) /\ Len(Append(words, w)) = T + 1
  <2>1. Follows(e, Append(words, w))
    BY <1>3, <1>7, <1>8 DEF OwnWords
  <2> QED BY <1>8, <2>1, AppendIs
<1>10. \A i \in 1..(T + 1) : i <= P => Append(words, w)[i] = Prefix(e)[i]
  BY Zenon, <1>3, <1>9 DEF Follows
<1>11. Append(words, w)[T + 1] = w /\ \A i \in 1..T : Append(words, w)[i] = words[i]
  <2>1. /\ Append(words, w)[Len(words) + 1] = w
        /\ \A i \in 1..Len(words) : Append(words, w)[i] = words[i]
    BY ONLY AppendIs, words \in Seq(Words), w \in Words
  <2> QED BY Zenon, <1>8, <2>1
<1>12. CASE T < P
  <2>1. ReturnPrefix /\ T = 0
    BY <1>3, <1>6, <1>12
  <2>2. Prefix(e)[1] = w
    BY <1>10, <1>11, <1>12, <2>1
  <2>3. /\ ReturnedPrefix(e) \in Seq(Words)
        /\ Len(ReturnedPrefix(e)) \in Nat /\ Len(ReturnedPrefix(e)) > 0
        /\ ReturnedPrefix(e)[1] = Prefix(e)[1]
    <3>1. PICK M \in Nat, prefix \in Seq(Words) :
            M = call.maxLength /\ M > 0 /\ prefix = Prefix(e) /\ Len(prefix) = P
      BY <1>2, <1>3, LimitsAre
    <3>2. PICK m \in Nat : m = Min({P, M}) /\ m <= P /\ m > 0
      <4>1. Min({P, M}) = IF P <= M THEN P ELSE M
        BY ONLY MinOfTwo, M \in Nat, P \in Nat
      <4> QED BY <1>12, <3>1, <4>1
    <3>3. /\ SubSeq(prefix, 1, m) \in Seq(Words) /\ Len(SubSeq(prefix, 1, m)) = m - 1 + 1
          /\ \A i \in 1..(m - 1 + 1) : SubSeq(prefix, 1, m)[i] = prefix[1 + i - 1]
      <4>1. 1 \in Nat \ {0} /\ m <= Len(prefix) /\ 1 <= m + 1
        BY <3>1, <3>2
      <4> QED BY ONLY <4>1, SubSeqIs, prefix \in Seq(Words), m \in Nat
    <3>4. ReturnedPrefix(e) = SubSeq(prefix, 1, m)
      BY Zenon, <1>3, <3>1, <3>2 DEF ReturnedPrefix
    <3>5. Len(SubSeq(prefix, 1, m)) \in Nat /\ Len(SubSeq(prefix, 1, m)) > 0
          /\ SubSeq(prefix, 1, m)[1] = prefix[1]
      BY <3>2, <3>3
    <3> QED BY Zenon, <3>1, <3>3, <3>4, <3>5
  <2>4. w \in ToSet(ReturnedPrefix(e))
    BY <2>2, <2>3 DEF ToSet
  <2> QED BY <1>6, <2>1, <2>4 DEF EndInPrefix
<1>13. CASE T >= P
  <2>1. T = P
    BY <1>3, <1>6, <1>13
  <2>2. words = Prefix(e)
    <3>1. Prefix(e) \in Seq(Words) /\ Len(Prefix(e)) = T
      BY <1>2, <1>3, <2>1, LimitsAre
    <3>2. \A i \in 1..T : words[i] = Prefix(e)[i]
      <4> SUFFICES ASSUME NEW i \in 1..T PROVE words[i] = Prefix(e)[i]
        OBVIOUS
      <4>1. i \in 1..(T + 1) /\ i <= P
        BY <1>3, <2>1
      <4> QED BY Zenon, <1>10, <1>11, <4>1
    <3> QED BY <1>8, <3>1, <3>2, SameElements
  <2>3. Cost(call.memories[e], History(e, Prefix(e)), w) = 0
    BY <1>3, <1>7, <1>8, <1>13, <2>2
  <2>4. ReturnPrefix => Prefix(e) = <<>>
    <3>1. ReturnPrefix => Len(Prefix(e)) = 0
      BY <1>3, <1>6, <2>1
    <3>2. Prefix(e) \in Seq(Words)
      BY <1>2, LimitsAre
    <3> QED BY <3>1, <3>2
  <2> QED BY <1>6, <2>3, <2>4 DEF EmptyForFree
<1>14. T < P \/ T >= P
  BY <1>3
<1> QED BY <1>12, <1>13, <1>14

\* The hypotheses registered in a turn.
LEMMA RegisteredOK ==
  ASSUME NaturalCosts, CallOK, ~IsGreedy, NEW s, Sized(s), Aligned(s), NEW n \in 1..Len(s.offset),
         BeamRowsOK(s, n), NEW k \in Done(s, n), NEW e, e = s.offset[n],
         NEW h, h = [words |-> Returned(e, Row(s, n, k)), cost |-> Sample(s, n, k).cost]
  PROVE  HypothesisOK(e, s.step + 1, h)
<1>1. PICK row : row = Row(s, n, k)
  OBVIOUS
<1>2. /\ e \in Entries /\ Sample(s, n, k).cost \in Nat
      /\ row \in Seq(Words) /\ Len(row) = s.step + 1 /\ s.step \in Nat
      /\ FirstReturned(e) <= Len(row)
  BY Zenon, <1>1, DoneRow
<1>3. h.words = Returned(e, row) /\ h.cost = Sample(s, n, k).cost
  BY <1>1
<1>4. Returned(e, row) \in Seq(Words)
  <2>1. PICK F \in Nat \ {0}, K \in Nat :
          F = FirstReturned(e) /\ K = LastReturned(row) /\ K <= Len(row) /\ F <= K + 1
    <3>1. FirstReturned(e) \in Nat \ {0}
      BY <1>2, LimitsAre
    <3> QED BY <1>2, <3>1 DEF LastReturned
  <2>2. SubSeq(row, F, K) \in Seq(Words)
    <3>1. row \in Seq(Words)
      BY <1>2
    <3> QED BY ONLY <2>1, <3>1, SubSeqIs, F \in Nat \ {0}, K \in Nat
  <2> QED BY Zenon, <2>1, <2>2 DEF Returned
<1>5. h \in Hypothesis
  BY <1>1, <1>2, <1>4 DEF Hypothesis
<1>6. h.cost < Penalised =>
        \E full \in Seq(Words) :
          Complete(e, full) /\ Len(full) <= s.step + 1 /\ h.words = Returned(e, full)
  BY <1>1, <1>2, <1>3, DoneComplete
<1>7. h.cost > 0 \/ Divisor(h) > 0 \/ EndInPrefix(e) \/ EmptyForFree(e)
  <2> SUFFICES ASSUME ~(h.cost > 0), ~(Divisor(h) > 0) PROVE EndInPrefix(e) \/ EmptyForFree(e)
    OBVIOUS
  <2>1. Sample(s, n, k).cost = 0
    BY <1>2, <1>3
  <2>2. Len(Returned(e, row)) \in Nat
    BY <1>4
  <2>3. call.normalize /\ Len(Returned(e, row)) = 0
    BY <1>3, <2>2 DEF Divisor
  <2> QED BY <1>1, <2>1, <2>3, DoneDivisible
<1> QED BY <1>5, <1>6, <1>7 DEF HypothesisOK

\* A hypothesis stays what it is after another step.
LEMMA HypothesisLater ==
  ASSUME NEW e, NEW steps \in Nat, NEW h, HypothesisOK(e, steps, h)
  PROVE  HypothesisOK(e, steps + 1, h)
<1>1. \A full \in Seq(Words) : Len(full) <= steps => Len(full) <= steps + 1
  OBVIOUS
<1> QED BY Zenon, <1>1 DEF HypothesisOK

\* Those of the turns before and those of this turn.
LEMMA HypothesesJoin ==
  ASSUME NEW e, NEW steps, NEW old, HypothesesOK(e, steps, old), NEW new, HypothesesOK(e, steps, new),
         \A i \in 1..Len(old), j \in 1..Len(new) : Apart(old[i], new[j]) /\ Apart(new[j], old[i])
  PROVE  HypothesesOK(e, steps, old \o new) /\ Len(old \o new) = Len(old) + Len(new)
<1>1. old \in Seq(Hypothesis) /\ new \in Seq(Hypothesis) /\ Len(old) \in Nat /\ Len(new) \in Nat
  <2>1. old \in Seq(Hypothesis) /\ new \in Seq(Hypothesis)
    BY DEF HypothesesOK
  <2> QED BY <2>1
<1>2. PICK all : all = old \o new
  OBVIOUS
<1>3. /\ all \in Seq(Hypothesis) /\ Len(all) = Len(old) + Len(new)
      /\ \A i \in 1..Len(old) : all[i] = old[i]
      /\ \A i \in 1..Len(new) : all[Len(old) + i] = new[i]
  BY <1>1, <1>2, JoinElements
<1>4. \A i \in 1..Len(all) : i \in 1..Len(old) \/ \E j \in 1..Len(new) : i = Len(old) + j
  <2> SUFFICES ASSUME NEW i \in 1..Len(all), i \notin 1..Len(old)
               PROVE \E j \in 1..Len(new) : i = Len(old) + j
    OBVIOUS
  <2>1. i - Len(old) \in 1..Len(new) /\ i = Len(old) + (i - Len(old))
    BY <1>1, <1>3
  <2> QED BY <2>1
<1>5. ASSUME NEW i \in 1..Len(all) PROVE HypothesisOK(e, steps, all[i])
  BY <1>3, <1>4 DEF HypothesesOK
<1>6. ASSUME NEW i \in 1..Len(all), NEW j \in 1..Len(all), i # j PROVE Apart(all[i], all[j])
  <2>1. CASE i \in 1..Len(old) /\ j \in 1..Len(old)
    BY <1>3, <1>6, <2>1 DEF HypothesesOK
  <2>2. CASE i \in 1..Len(old) /\ j \notin 1..Len(old)
    BY <1>3, <1>4, <2>2
  <2>3. CASE i \notin 1..Len(old) /\ j \in 1..Len(old)
    BY <1>3, <1>4, <2>3
  <2>4. CASE i \notin 1..Len(old) /\ j \notin 1..Len(old)
    <3>1. PICK a \in 1..Len(new), b \in 1..Len(new) : i = Len(old) + a /\ j = Len(old) + b
      BY <1>4, <2>4
    <3>2. a # b /\ all[i] = new[a] /\ all[j] = new[b]
      BY <1>3, <1>6, <3>1
    <3> QED BY <3>2 DEF HypothesesOK
  <2> QED BY <2>1, <2>2, <2>3, <2>4
<1> QED BY <1>2, <1>3, <1>5, <1>6 DEF HypothesesOK

\* The hypotheses of an entry after a turn of beam search.
LEMMA HypothesesGrow ==
  ASSUME NaturalCosts, CallOK, ~IsGreedy, NEW s, Sized(s), Aligned(s), NEW n \in 1..Len(s.offset),
         BeamRowsOK(s, n), NEW e, e = s.offset[n], HypothesesOK(e, s.step, s.results[e])
  PROVE  /\ HypothesesOK(e, s.step + 1, NewHypotheses(s)[n])
         /\ Len(NewHypotheses(s)[n]) = Len(s.results[e]) + Cardinality(Done(s, n))
<1>1. PICK old : old = s.results[e]
  OBVIOUS
<1>2. PICK hs : hs = Registered(s, n, BeamCandidates(s), NewAlive(s))
  OBVIOUS
<1>3. PICK beams : beams = InOrder(Done(s, n))
  OBVIOUS
<1>4. /\ hs = [m \in 1..Len(beams) |-> hs[m]] /\ Len(beams) = Cardinality(Done(s, n))
      /\ Len(beams) \in Nat
      /\ \A m \in 1..Len(beams) :
           /\ beams[m] \in Done(s, n)
           /\ hs[m] = [words |-> Returned(e, Row(s, n, beams[m])),
                       cost |-> Sample(s, n, beams[m]).cost]
      /\ \A i, j \in 1..Len(beams) : beams[i] = beams[j] => i = j
  <2>1. /\ hs = [m \in 1..Len(beams) |-> hs[m]] /\ Len(beams) = Cardinality(Done(s, n))
        /\ Len(beams) \in Nat
        /\ \A m \in 1..Len(beams) :
             /\ beams[m] \in Done(s, n) /\ beams[m] \in 1..call.beamSize
             /\ hs[m] = [words |-> Returned(s.offset[n], Row(s, n, beams[m])),
                         cost |-> Sample(s, n, beams[m]).cost]
        /\ \A i, j \in 1..Len(beams) : beams[i] = beams[j] => i = j
    BY <1>2, <1>3, RegisteredIs
  <2> QED BY ONLY <2>1, e = s.offset[n]
<1>5. NewHypotheses(s)[n] = old \o hs
  <2>1. n \in DOMAIN s.offset
    BY DEF Sized, State
  <2> QED BY <1>1, <1>2, <2>1 DEF NewHypotheses
<1>6. call.stops = {}
  BY DEF CallOK, Valid, IsGreedy
<1>7. s.step \in Nat /\ e \in Entries
  <2>1. 1 \in 1..Width(s)
    BY CallIs DEF Width
  <2> QED BY <2>1, RowsOf
<1>8. \A m \in 1..Len(beams) : HypothesisOK(e, s.step + 1, hs[m])
  BY <1>4, RegisteredOK
<1>9. ASSUME NEW m \in 1..Len(beams), hs[m].cost < Penalised
      PROVE  /\ Complete(e, Row(s, n, beams[m])) /\ Len(Row(s, n, beams[m])) = s.step + 1
             /\ hs[m].words = Returned(e, Row(s, n, beams[m]))
             /\ beams[m] \in 1..NumCandidates /\ Sample(s, n, beams[m]).cost < Penalised
  <2>1. hs[m].cost = Sample(s, n, beams[m]).cost /\ hs[m].words = Returned(e, Row(s, n, beams[m]))
    BY <1>4
  <2>2. Sample(s, n, beams[m]).cost < Penalised
    BY <1>9, <2>1
  <2>3. beams[m] \in Done(s, n)
    BY <1>4
  <2>4. Complete(e, Row(s, n, beams[m]))
    BY <2>2, <2>3, DoneComplete
  <2> QED BY <2>1, <2>2, <2>3, <2>4, DoneRow
<1>10. ASSUME NEW i \in 1..Len(beams), NEW j \in 1..Len(beams), i # j PROVE Apart(hs[i], hs[j])
  <2> SUFFICES ASSUME hs[i].cost < Penalised, hs[j].cost < Penalised, hs[i].words = hs[j].words,
                      ~SeveralEnds \/ call.includeEos
               PROVE  FALSE
    BY Zenon DEF Apart
  <2>1. /\ Complete(e, Row(s, n, beams[i])) /\ Complete(e, Row(s, n, beams[j]))
        /\ Returned(e, Row(s, n, beams[i])) = Returned(e, Row(s, n, beams[j]))
    BY <1>9
  <2>2. Row(s, n, beams[i]) = Row(s, n, beams[j])
    BY Zenon, <1>6, <1>7, <2>1, ReturnedOnce
  <2>3. beams[i] = beams[j]
    BY <1>9, <2>2, OwnDistinct DEF Row
  <2> QED BY <1>4, <1>10, <2>3
<1>11. HypothesesOK(e, s.step + 1, hs) /\ Len(hs) = Len(beams)
  <2>1. \A m \in 1..Len(beams) : hs[m] \in Hypothesis
    BY <1>8 DEF HypothesisOK
  <2>2. hs \in Seq(Hypothesis) /\ Len(hs) = Len(beams)
    <3>1. [m \in 1..Len(beams) |-> hs[m]] \in Seq(Hypothesis)
      BY <1>4, <2>1
    <3>2. Len([m \in 1..Len(beams) |-> hs[m]]) = Len(beams)
      BY <1>4
    <3> QED BY Zenon, <1>4, <3>1, <3>2
  <2> QED BY Zenon, <1>8, <1>10, <2>2 DEF HypothesesOK
<1>12. HypothesesOK(e, s.step + 1, old)
  BY <1>1, <1>7, HypothesisLater DEF HypothesesOK
<1>13. ASSUME NEW i \in 1..Len(old), NEW j \in 1..Len(hs),
              old[i].cost < Penalised, hs[j].cost < Penalised, old[i].words = hs[j].words,
              ~SeveralEnds \/ call.includeEos
       PROVE  FALSE
  <2>1. HypothesisOK(e, s.step, old[i])
    BY <1>1 DEF HypothesesOK
  <2>2. PICK full \in Seq(Words) :
          Complete(e, full) /\ Len(full) <= s.step /\ old[i].words = Returned(e, full)
    BY <1>13, <2>1 DEF HypothesisOK
  <2>3. /\ Complete(e, Row(s, n, beams[j])) /\ Len(Row(s, n, beams[j])) = s.step + 1
        /\ hs[j].words = Returned(e, Row(s, n, beams[j]))
    BY <1>9, <1>11, <1>13
  <2>4. Returned(e, full) = Returned(e, Row(s, n, beams[j]))
    BY <1>13, <2>2, <2>3
  <2>5. full = Row(s, n, beams[j])
    BY Zenon, <1>6, <1>7, <1>13, <2>2, <2>3, <2>4, ReturnedOnce
  <2> QED BY <1>7, <2>2, <2>3, <2>5
<1>14. \A i \in 1..Len(old), j \in 1..Len(hs) : Apart(old[i], hs[j]) /\ Apart(hs[j], old[i])
  BY Zenon, <1>13 DEF Apart
<1>15. HypothesesOK(e, s.step + 1, old \o hs) /\ Len(old \o hs) = Len(old) + Len(hs)
  <2>1. PICK steps : steps = s.step + 1
    OBVIOUS
  <2>2. HypothesesOK(e, steps, hs) /\ HypothesesOK(e, steps, old)
    BY <1>11, <1>12, <2>1
  <2>3. HypothesesOK(e, steps, old \o hs) /\ Len(old \o hs) = Len(old) + Len(hs)
    BY ONLY <1>14, <2>2, HypothesesJoin
  <2> QED BY <2>1, <2>3
<1> QED BY <1>1, <1>4, <1>5, <1>11, <1>15

-----------------------------------------------------------------------------
(* The results of beam search. *)

\* The hypothesis with the lower normalized cost comes first.
BestFirst(hs) ==
  \A i, j \in 1..Len(hs) : i < j => hs[i].cost * Divisor(hs[j]) <= hs[j].cost * Divisor(hs[i])

\* The results of a finished entry: enough of them and, if each has a score, best
\* first and apart.
ResultOK(e, hs) ==
  /\ Len(hs) \in Nat /\ DOMAIN hs = 1..Len(hs)
  /\ Len(hs) >= call.numHypotheses \/ Len(hs) >= call.beamSize
  /\ ~EndInPrefix(e) /\ ~EmptyForFree(e) =>
       BestFirst(hs) /\ \E steps \in Nat : HypothesesOK(e, steps, hs)

\* What finalize_result makes of enough hypotheses.
LEMMA FinalizedOK ==
  ASSUME CallOK, NEW e \in Entries, NEW steps \in Nat, NEW hs, HypothesesOK(e, steps, hs),
         Len(hs) >= call.numHypotheses \/ Len(hs) >= call.beamSize
  PROVE  ResultOK(e, Finalized(hs))
<1>1. PICK fs : fs = Finalized(hs)
  OBVIOUS
<1>2. hs \in Seq(Hypothesis) /\ Len(hs) \in Nat /\ DOMAIN hs = 1..Len(hs)
  <2>1. hs \in Seq(Hypothesis)
    BY DEF HypothesesOK
  <2> QED BY <2>1
<1>3. /\ Len(fs) \in Nat /\ DOMAIN fs = 1..Len(fs)
      /\ Len(fs) = (IF Len(hs) <= call.numHypotheses THEN Len(hs) ELSE call.numHypotheses)
  BY <1>1, <1>2, FinalizedLength
<1>4. Len(fs) >= call.numHypotheses \/ Len(fs) >= call.beamSize
  <2>1. call.numHypotheses \in Nat /\ call.beamSize \in Nat
    BY CallIs
  <2> QED BY <1>2, <1>3, <2>1
<1>5. ASSUME ~EndInPrefix(e), ~EmptyForFree(e) PROVE BestFirst(fs) /\ HypothesesOK(e, steps, fs)
  <2>1. Divisible(hs)
    BY <1>2, <1>5 DEF HypothesesOK, HypothesisOK, Divisible
  <2>2. /\ fs \in Seq(Hypothesis)
        /\ \A k \in 1..Len(fs) : Chosen(hs, k) \in 1..Len(hs) /\ fs[k] = hs[Chosen(hs, k)]
        /\ \A k, m \in 1..Len(fs) : k < m =>
             /\ Chosen(hs, k) # Chosen(hs, m)
             /\ fs[k].cost * Divisor(fs[m]) <= fs[m].cost * Divisor(fs[k])
    <3>1. /\ fs \in Seq(Hypothesis)
          /\ \A k \in DOMAIN fs : Chosen(hs, k) \in DOMAIN hs /\ fs[k] = hs[Chosen(hs, k)]
          /\ \A k, m \in DOMAIN fs : k < m =>
               /\ Chosen(hs, k) # Chosen(hs, m)
               /\ fs[k].cost * Divisor(fs[m]) <= fs[m].cost * Divisor(fs[k])
      BY <1>1, <1>2, <2>1, FinalizedIs
    <3> QED BY Zenon, <1>2, <1>3, <3>1
  <2>3. BestFirst(fs)
    BY Zenon, <2>2 DEF BestFirst
  <2>4. \A k \in 1..Len(fs) : HypothesisOK(e, steps, fs[k])
    BY Zenon, <2>2 DEF HypothesesOK
  <2>5. \A k, m \in 1..Len(fs) : k # m => Apart(fs[k], fs[m])
    <3>1. \A k, m \in 1..Len(fs) : k # m => Chosen(hs, k) # Chosen(hs, m)
      <4>1. \A k, m \in 1..Len(fs) : k < m \/ m < k \/ k = m
        BY <1>3
      <4> QED BY Zenon, <2>2, <4>1
    <3> QED BY Zenon, <2>2, <3>1 DEF HypothesesOK
  <2> QED BY <2>2, <2>3, <2>4, <2>5 DEF HypothesesOK
<1> QED BY Zenon, <1>1, <1>3, <1>4, <1>5 DEF ResultOK

\* Where they are put.
LEMMA NewResultsAre ==
  ASSUME CallOK, NEW s, Sized(s), NEW n \in 1..Len(s.offset)
  PROVE  NewResults(s)[s.offset[n]]
           = IF n \in Leaving(s) THEN Finalized(NewHypotheses(s)[n]) ELSE NewHypotheses(s)[n]
<1>1. PICK e : e = s.offset[n]
  OBVIOUS
<1>2. s.offset[n] \in Entries
  <2>1. 1 \in 1..Width(s)
    BY CallIs DEF Width
  <2> QED BY <2>1, RowsOf
<1>3. DOMAIN s.offset = 1..Len(s.offset)
  BY DEF Sized, State
<1>4. \A m \in DOMAIN s.offset : s.offset[m] = e => m = n
  BY <1>1, <1>3 DEF Sized
<1>5. (CHOOSE m \in DOMAIN s.offset : s.offset[m] = e) = n
  BY <1>1, <1>3, <1>4
<1> QED BY <1>1, <1>2, <1>3, <1>5 DEF NewResults

\* An entry leaves with enough hypotheses.
LEMMA LeavingEnough ==
  ASSUME NaturalCosts, CallOK, ~IsGreedy, NEW s, Sized(s), Aligned(s), NEW n \in 1..Len(s.offset),
         BeamRowsOK(s, n), NEW e, e = s.offset[n], HypothesesOK(e, s.step, s.results[e]),
         n \in Leaving(s)
  PROVE  \/ Len(NewHypotheses(s)[n]) >= call.numHypotheses
         \/ Len(NewHypotheses(s)[n]) >= call.beamSize
<1>1. PICK B \in Nat, N \in Nat, C \in Nat :
        /\ B = call.beamSize /\ N = call.numHypotheses /\ C = call.maxCandidates /\ N <= C
  <2>1. call.beamSize \in Nat /\ call.numHypotheses \in Nat /\ call.maxCandidates \in Nat
    BY CallIs
  <2> QED BY <2>1 DEF CallOK, Valid
<1>2. Len(NewHypotheses(s)[n]) = Len(s.results[e]) + Cardinality(Done(s, n))
  BY HypothesesGrow
<1>3. Len(s.results[e]) \in Nat
  <2>1. s.results[e] \in Seq(Hypothesis)
    BY DEF HypothesesOK
  <2> QED BY <2>1
<1>4. Cardinality(Done(s, n)) \in Nat
  BY PlaceIs
<1>5. IsFinished(s, n, NewTopDone(s)[n], NewHypotheses(s)[n])
  BY DEF Leaving
<1>6. CASE IsLastStep(s, e)
  <2>1. \A k \in 1..B : k \in Done(s, n)
    BY <1>1, <1>6, ActiveForm
  <2>2. Done(s, n) = 1..B
    BY <1>1, <2>1 DEF Done, FinishedBeams
  <2>3. Cardinality(1..B) = B
    <3>1. 1 \in Int /\ B \in Int
      BY <1>1
    <3>2. Cardinality(1..B) = IF 1 > B THEN 0 ELSE B - 1 + 1
      BY ONLY <3>1, FS_Interval
    <3> QED BY <1>1, <3>2
  <2>4. Cardinality(Done(s, n)) = B
    BY <2>2, <2>3
  <2> QED BY <1>1, <1>2, <1>3, <2>4
<1>7. CASE ~IsLastStep(s, e)
  <2>1. Len(NewHypotheses(s)[n]) >= N \/ Len(NewHypotheses(s)[n]) >= C
    BY <1>1, <1>5, <1>7 DEF IsFinished
  <2> QED BY SMTT(20), <1>1, <1>2, <1>3, <1>4, <2>1
<1> QED BY <1>6, <1>7

\* The rows and hypotheses of the entries in the batch, and the results of the others.
BeamOK(s) ==
  /\ \A n \in 1..Len(s.offset) :
       BeamRowsOK(s, n) /\ HypothesesOK(s.offset[n], s.step, s.results[s.offset[n]])
  /\ \A e \in Entries : (\A n \in 1..Len(s.offset) : s.offset[n] # e) => ResultOK(e, s.results[e])

\* A turn of beam search keeps the rows, the hypotheses and the results.
LEMMA BeamOKNext ==
  ASSUME NaturalCosts, CallOK, ~IsGreedy, NEW s, Sized(s), Aligned(s), BeamOK(s)
  PROVE  BeamOK(BeamStep(s))
<1>1. PICK u : u = BeamStep(s)
  OBVIOUS
<1>2. /\ u.step = s.step + 1 /\ u.results = NewResults(s) /\ Len(u.offset) = Len(Kept(s))
      /\ \A m \in 1..Len(Kept(s)) : u.offset[m] = s.offset[Kept(s)[m]]
  BY <1>1, BeamTurn
<1>3. /\ \A m \in 1..Len(Kept(s)) : Kept(s)[m] \in 1..Len(s.offset) /\ Kept(s)[m] \notin Leaving(s)
      /\ \A n \in 1..Len(s.offset) : n \notin Leaving(s) => \E m \in 1..Len(Kept(s)) : Kept(s)[m] = n
  BY KeptIs DEF Selects
<1>4. s.step \in Nat
  BY DEF Sized, State
<1>5. ASSUME NEW m \in 1..Len(u.offset)
      PROVE  BeamRowsOK(u, m) /\ HypothesesOK(u.offset[m], u.step, u.results[u.offset[m]])
  <2>1. PICK n \in 1..Len(s.offset) :
          m \in 1..Len(Kept(s)) /\ n = Kept(s)[m] /\ n \notin Leaving(s) /\ u.offset[m] = s.offset[n]
    BY <1>2, <1>3
  <2>2. BeamRowsOK(s, n) /\ HypothesesOK(s.offset[n], s.step, s.results[s.offset[n]])
    BY DEF BeamOK
  <2>3. BeamRowsOK(u, m)
    BY <1>1, <2>1, <2>2, BeamRowsStay
  <2>4. u.results[s.offset[n]] = NewHypotheses(s)[n]
    BY <1>2, <2>1, NewResultsAre
  <2>5. HypothesesOK(s.offset[n], s.step + 1, NewHypotheses(s)[n])
    BY <2>2, HypothesesGrow
  <2> QED BY Zenon, <1>2, <2>1, <2>3, <2>4, <2>5
<1>6. ASSUME NEW e \in Entries, \A m \in 1..Len(u.offset) : u.offset[m] # e
      PROVE  ResultOK(e, u.results[e])
  <2>1. CASE \A n \in 1..Len(s.offset) : s.offset[n] # e
    <3>1. u.results[e] = s.results[e]
      BY <1>1, <2>1, BeamGone
    <3> QED BY Zenon, <2>1, <3>1 DEF BeamOK
  <2>2. CASE \E n \in 1..Len(s.offset) : s.offset[n] = e
    <3>1. PICK n \in 1..Len(s.offset) : s.offset[n] = e
      BY <2>2
    <3>2. n \in Leaving(s)
      BY <1>2, <1>3, <1>6, <3>1
    <3>3. u.results[e] = Finalized(NewHypotheses(s)[n])
      BY <1>2, <3>1, <3>2, NewResultsAre
    <3>4. BeamRowsOK(s, n) /\ HypothesesOK(e, s.step, s.results[e])
      BY <3>1 DEF BeamOK
    <3>5. HypothesesOK(e, s.step + 1, NewHypotheses(s)[n])
      BY <3>1, <3>4, HypothesesGrow
    <3>6. \/ Len(NewHypotheses(s)[n]) >= call.numHypotheses
          \/ Len(NewHypotheses(s)[n]) >= call.beamSize
      BY <3>1, <3>2, <3>4, LeavingEnough
    <3>7. s.step + 1 \in Nat
      BY <1>4
    <3> QED BY <3>3, <3>5, <3>6, <3>7, FinalizedOK
  <2> QED BY <2>1, <2>2
<1>7. BeamOK(u)
  BY Zenon, <1>5, <1>6 DEF BeamOK
<1> QED BY <1>1, <1>7

\* The batch that is started holds every entry, and nothing has been decoded.
LEMMA BeamOKStart ==
  ASSUME CallOK, ~IsGreedy, NEW offset, Batch(offset),
         \A e \in Entries : \E n \in 1..Len(offset) : offset[n] = e
  PROVE  BeamOK(BeamStart(offset))
<1>1. PICK s : s = BeamStart(offset)
  OBVIOUS
<1>2. Sized(s) /\ s.offset = offset
  BY <1>1, BeamStartIs
<1>3. ASSUME NEW n \in 1..Len(offset)
      PROVE  BeamRowsOK(s, n) /\ HypothesesOK(s.offset[n], s.step, s.results[s.offset[n]])
  <2>1. /\ s.step = 0 /\ s.expanded = ~ExpandAfterFirstStep
        /\ s.results = [e \in Entries |-> <<>>]
        /\ \A k \in 1..Width(s) : /\ s.alive[Flat(n, k, Width(s))] = <<>>
                                  /\ s.scores[Flat(n, k, Width(s))] = StartScore(k)
    <3>1. /\ BeamStart(offset).step = 0 /\ BeamStart(offset).expanded = ~ExpandAfterFirstStep
          /\ BeamStart(offset).results = [e \in Entries |-> <<>>]
          /\ \A k \in 1..Width(BeamStart(offset)) :
               StartRow(BeamStart(offset), offset[n], Flat(n, k, Width(BeamStart(offset))), StartScore(k))
      BY BeamStartRows
    <3>2. \A k \in 1..Width(s) : StartRow(s, offset[n], Flat(n, k, Width(s)), StartScore(k))
      BY Zenon, <1>1, <3>1
    <3> QED BY Zenon, <1>1, <3>1, <3>2 DEF StartRow
  <2>2. PICK e \in Entries : e = s.offset[n]
    BY <1>2, <1>3 DEF Batch
  <2>3. 1 \in 1..Width(s)
    BY CallIs DEF Width
  <2>4. s.step < LastLength(e)
    BY <2>1, LimitsAre
  <2>5. s.scores[Flat(n, 1, Width(s))] = 0
    BY <2>1, <2>3 DEF StartScore
  <2>6. <<>> \in Seq(Words) /\ OwnWords(e, <<>>) /\ EndFree(e, <<>>, 0)
    <3>1. <<>> \in Seq(Words) /\ \A i : i \notin 1..Len(<<>>) /\ i \notin 1..0
      OBVIOUS
    <3> QED BY <3>1 DEF OwnWords, Follows, Allowed, EndFree
  <2>7. ASSUME NEW j \in 1..Width(s), NEW k \in 1..Width(s),
               s.scores[Flat(n, j, Width(s))] < Penalised, s.scores[Flat(n, k, Width(s))] < Penalised
        PROVE  j = k
    <3>1. StartScore(j) < Penalised /\ StartScore(k) < Penalised
      BY <2>1, <2>7
    <3>2. CASE ExpandAfterFirstStep
      <4>1. Width(s) = 1
        BY <2>1, <3>2 DEF Width
      <4> QED BY <4>1
    <3>3. CASE ~ExpandAfterFirstStep
      BY <3>1, <3>3 DEF StartScore, Penalised, Disabled
    <3> QED BY <3>2, <3>3
  <2>8. BeamRowsOK(s, n)
    BY Zenon, <2>1, <2>2, <2>4, <2>5, <2>6, <2>7 DEF BeamRowsOK
  <2>9. s.results[e] = <<>>
    BY <2>1
  <2>10. HypothesesOK(e, s.step, <<>>)
    <3>1. <<>> \in Seq(Hypothesis) /\ \A i : i \notin 1..Len(<<>>)
      OBVIOUS
    <3> QED BY <3>1 DEF HypothesesOK
  <2> QED BY <2>2, <2>8, <2>9, <2>10
<1>4. BeamOK(s)
  BY Zenon, <1>2, <1>3 DEF BeamOK
<1> QED BY <1>1, <1>4

-----------------------------------------------------------------------------
(* The results of greedy search. *)

\* The hypothesis of row n before this step.
Hypothesised(s, n) ==
  IF s.step = 0 THEN [words |-> <<>>, cost |-> 0] ELSE s.results[s.offset[n]][1]

\* A row without a penalty, and the words it has returned.
GreedyRowOK(s, n) ==
  /\ s.step < LastLength(s.offset[n])
  /\ Hypothesised(s, n) \in Hypothesis
  /\ Hypothesised(s, n).cost < Penalised =>
       /\ OwnWords(s.offset[n], s.alive[n]) /\ EndFree(s.offset[n], s.alive[n], s.step)
       /\ \/ EndInPrefix(s.offset[n])
          \/ Hypothesised(s, n).words = SubSeq(s.alive[n], FirstReturned(s.offset[n]), s.step)

\* The sampled word, when its cost is no penalty, is that of the prefix or allowed.
LEMMA GreedySampleIs ==
  ASSUME NaturalCosts, CallOK, IsGreedy, NEW s, Sized(s), Aligned(s), NEW n \in 1..Len(s.offset)
  PROVE  /\ GreedyWord(s, n).word \in Words /\ GreedyWord(s, n).cost \in Nat
         /\ s.step < Len(Prefix(s.offset[n])) =>
              GreedyWord(s, n).word = Prefix(s.offset[n])[s.step + 1]
         /\ s.step >= Len(Prefix(s.offset[n])) /\ GreedyWord(s, n).cost < Penalised =>
              \/ MinLengthMisplaced
              \/ GreedyWord(s, n).word \notin Forbidden(s.offset[n], s.alive[n])
              \/ Forbidden(s.offset[n], s.alive[n]) = Words
<1>1. PICK S : S = GreedyChoices(s, n)
  OBVIOUS
<1>2. /\ S \in SUBSET Candidate /\ OnePerWord(S) /\ IsFiniteSet(S) /\ 1 <= Cardinality(S)
      /\ Width(s) = 1 /\ n \in Nat /\ Flat(n, 1, Width(s)) = n
  BY <1>1, GreedyChoicesAre
<1>3. TopK(S, 1)[1] \in S
  <2>1. \A k \in 1..1 : TopK(S, 1)[k] \in S
    BY <1>2, TopKIs
  <2> QED BY <2>1
<1>4. PICK c \in Candidate : c = TopK(S, 1)[1] /\ c \in S
  BY <1>2, <1>3
<1>5. GreedyWord(s, n) = WithPrefix(s, n, 1, c)
  BY <1>1, <1>4 DEF GreedyWord, GreedyChoices
<1>6. PICK prefix : prefix = Prefix(s.offset[n])
  OBVIOUS
<1>7. GreedyWord(s, n) =
        IF s.step < Len(prefix)
        THEN [origin |-> Flat(n, 1, Width(s)), word |-> prefix[s.step + 1], cost |-> 0]
        ELSE c
  BY <1>5, <1>6 DEF WithPrefix
<1>8. s.step \in Nat /\ prefix \in Seq(Words) /\ Len(prefix) \in Nat
  <2>1. s.step \in Nat /\ s.offset[n] \in Entries
    BY DEF Sized, State
  <2> QED BY <1>6, <2>1, PromptIs
<1>9. CASE s.step < Len(prefix)
  <2>1. GreedyWord(s, n).word = prefix[s.step + 1] /\ GreedyWord(s, n).cost = 0
    BY <1>7, <1>9
  <2>2. prefix[s.step + 1] \in Words
    BY <1>8, <1>9
  <2>3. ~(s.step >= Len(prefix))
    BY <1>8, <1>9
  <2> QED BY <1>6, <2>1, <2>2, <2>3
<1>10. CASE ~(s.step < Len(prefix))
  <2>1. GreedyWord(s, n) = c
    BY <1>7, <1>10
  <2>2. PICK w \in Words : c = [origin |-> n, word |-> w, cost |-> WordCost(s, n, w)]
    BY <1>1, <1>4 DEF GreedyChoices
  <2>3. c.word = w /\ c.cost = WordCost(s, n, w) /\ c.cost \in Nat
    <3>1. c.cost \in Nat
      BY <1>4 DEF Candidate
    <3> QED BY <2>2, <3>1
  <2>4. s.step >= Len(prefix)
    BY <1>8, <1>10
  <2>5. ASSUME c.cost < Penalised
        PROVE  \/ MinLengthMisplaced
               \/ w \notin Forbidden(s.offset[n], s.alive[n])
               \/ Forbidden(s.offset[n], s.alive[n]) = Words
    <3>1. PICK k \in 1..Width(s) : k = 1 /\ Flat(n, k, Width(s)) = n
      BY <1>2
    <3>2. WordCost(s, Flat(n, k, Width(s)), w) < Penalised
      BY <2>3, <2>5, <3>1
    <3>3. s.step >= Len(Prefix(s.offset[n]))
      BY <1>6, <2>4
    <3>4. \/ MinLengthMisplaced
          \/ w \notin Forbidden(s.offset[n], s.alive[Flat(n, k, Width(s))])
          \/ Forbidden(s.offset[n], s.alive[Flat(n, k, Width(s))]) = Words
      BY <3>2, <3>3, WordAllowed
    <3> QED BY <3>1, <3>4
  <2> QED BY <1>6, <1>10, <2>1, <2>3, <2>5
<1> QED BY <1>9, <1>10

\* A part of a sequence with one more element.
LEMMA AppendPart ==
  ASSUME NEW S, NEW words \in Seq(S), NEW w \in S, NEW T \in Nat, T = Len(words),
         NEW F \in Nat \ {0}
  PROVE  /\ F <= T + 1 => /\ SubSeq(Append(words, w), F, T + 1) = Append(SubSeq(words, F, T), w)
                          /\ SubSeq(Append(words, w), F, T) = SubSeq(words, F, T)
         /\ F > T + 1 => /\ SubSeq(Append(words, w), F, T + 1) = <<>>
                         /\ SubSeq(Append(words, w), F, T) = <<>> /\ SubSeq(words, F, T) = <<>>
<1>1. PICK more \in Seq(S) : more = Append(words, w)
  BY AppendIs
<1>2. Len(more) = T + 1 /\ more[T + 1] = w /\ \A i \in 1..T : more[i] = words[i]
  <2>1. /\ Len(Append(words, w)) = Len(words) + 1 /\ Append(words, w)[Len(words) + 1] = w
        /\ \A i \in 1..Len(words) : Append(words, w)[i] = words[i]
    BY ONLY AppendIs, words \in Seq(S), w \in S
  <2> QED BY Zenon, <1>1, <2>1
<1>3. CASE F <= T + 1
  <2>1. /\ SubSeq(words, F, T) \in Seq(S) /\ Len(SubSeq(words, F, T)) = T - F + 1
        /\ \A i \in 1..(T - F + 1) : SubSeq(words, F, T)[i] = words[F + i - 1]
    BY <1>3, SubSeqIs
  <2>2. /\ SubSeq(more, F, T) \in Seq(S) /\ Len(SubSeq(more, F, T)) = T - F + 1
        /\ \A i \in 1..(T - F + 1) : SubSeq(more, F, T)[i] = more[F + i - 1]
    <3>1. T <= Len(more)
      BY <1>2
    <3> QED BY ONLY <1>3, <3>1, SubSeqIs, T \in Nat, F \in Nat \ {0}, more \in Seq(S)
  <2>3. /\ SubSeq(more, F, T + 1) \in Seq(S) /\ Len(SubSeq(more, F, T + 1)) = T + 1 - F + 1
        /\ \A i \in 1..(T + 1 - F + 1) : SubSeq(more, F, T + 1)[i] = more[F + i - 1]
    <3>1. PICK U \in Nat : U = T + 1 /\ U <= Len(more) /\ F <= U + 1
      BY <1>2, <1>3
    <3>2. /\ SubSeq(more, F, U) \in Seq(S) /\ Len(SubSeq(more, F, U)) = U - F + 1
          /\ \A i \in 1..(U - F + 1) : SubSeq(more, F, U)[i] = more[F + i - 1]
      BY ONLY <3>1, SubSeqIs, U \in Nat, F \in Nat \ {0}, more \in Seq(S)
    <3> QED BY ONLY <3>1, <3>2
  <2>4. PICK part \in Seq(S), longer \in Seq(S) :
          part = SubSeq(words, F, T) /\ longer = Append(part, w)
    BY <2>1, AppendIs
  <2>5. Len(part) = T - F + 1 /\ \A i \in 1..(T - F + 1) : part[i] = words[F + i - 1]
    BY <2>1, <2>4
  <2>6. /\ Len(longer) = T - F + 1 + 1 /\ longer[T - F + 1 + 1] = w
        /\ \A i \in 1..(T - F + 1) : longer[i] = part[i]
    <3>1. /\ Len(Append(part, w)) = Len(part) + 1 /\ Append(part, w)[Len(part) + 1] = w
          /\ \A i \in 1..Len(part) : Append(part, w)[i] = part[i]
      BY ONLY AppendIs, part \in Seq(S), w \in S
    <3> QED BY Zenon, <2>4, <2>5, <3>1
  <2>7. SubSeq(more, F, T) = part
    <3>1. \A i \in 1..(T - F + 1) : SubSeq(more, F, T)[i] = part[i]
      <4> SUFFICES ASSUME NEW i \in 1..(T - F + 1) PROVE SubSeq(more, F, T)[i] = part[i]
        OBVIOUS
      <4>1. F + i - 1 \in 1..T
        BY <1>3
      <4> QED BY <1>2, <2>2, <2>5, <4>1
    <3>2. Len(SubSeq(more, F, T)) = Len(part) /\ SubSeq(more, F, T) \in Seq(S)
      BY <2>2, <2>5
    <3>3. \A i \in 1..Len(SubSeq(more, F, T)) : SubSeq(more, F, T)[i] = part[i]
      BY <2>2, <3>1
    <3> QED BY ONLY <3>2, <3>3, SameElements, part \in Seq(S)
  <2>8. SubSeq(more, F, T + 1) = longer
    <3>1. \A i \in 1..(T + 1 - F + 1) : SubSeq(more, F, T + 1)[i] = longer[i]
      <4> SUFFICES ASSUME NEW i \in 1..(T + 1 - F + 1) PROVE SubSeq(more, F, T + 1)[i] = longer[i]
        OBVIOUS
      <4>1. CASE i \in 1..(T - F + 1)
        <5>1. F + i - 1 \in 1..T
          BY <1>3, <4>1
        <5> QED BY <1>2, <2>3, <2>5, <2>6, <4>1, <5>1
      <4>2. CASE i \notin 1..(T - F + 1)
        <5>1. i = T - F + 1 + 1 /\ F + i - 1 = T + 1
          BY <1>3, <4>2
        <5> QED BY <1>2, <2>3, <2>6, <5>1
      <4> QED BY <4>1, <4>2
    <3>2. Len(SubSeq(more, F, T + 1)) = Len(longer) /\ SubSeq(more, F, T + 1) \in Seq(S)
      BY <2>3, <2>6
    <3>3. \A i \in 1..Len(SubSeq(more, F, T + 1)) : SubSeq(more, F, T + 1)[i] = longer[i]
      BY <2>3, <3>1
    <3> QED BY ONLY <3>2, <3>3, SameElements, longer \in Seq(S)
  <2> QED BY <1>1, <1>3, <2>4, <2>7, <2>8
<1>4. CASE F > T + 1
  <2>1. \A s \in Seq(S), b \in Nat : F > b => SubSeq(s, F, b) = <<>>
    OBVIOUS
  <2> QED BY <1>1, <1>4, <2>1
<1>5. F <= T + 1 \/ F > T + 1
  OBVIOUS
<1> QED BY <1>3, <1>4, <1>5

\* The sampled word c makes a longer row, and the hypothesis h of it.
Longer(s, n, c, h, row) ==
  /\ h \in Hypothesis /\ c.word \in Words /\ row \in Seq(Words)
  /\ Len(row) = s.step + 1 /\ row[Len(row)] = c.word
  /\ h.cost < Penalised =>
       /\ OwnWords(s.offset[n], row) /\ EndFree(s.offset[n], row, s.step)
       /\ s.step < Len(Prefix(s.offset[n])) \/ c.word \notin call.endIds =>
            EndFree(s.offset[n], row, s.step + 1)
  /\ h.cost < Penalised /\ ~EndInPrefix(s.offset[n]) =>
       /\ (s.step < Len(Prefix(s.offset[n])) \/ c.word \notin call.endIds) =>
            h.words = SubSeq(row, FirstReturned(s.offset[n]), s.step + 1)
       /\ (ReturnPrefix \/ s.step >= Len(Prefix(s.offset[n]))) =>
            h.words = SubSeq(row, FirstReturned(s.offset[n]), LastReturned(row))

\* The hypothesis of a row with the sampled word.
LEMMA GreedyExtends ==
  ASSUME NaturalCosts, CallOK, IsGreedy, NEW s, Sized(s), Aligned(s), NEW n \in 1..Len(s.offset),
         GreedyRowOK(s, n), NEW e, e = s.offset[n], NEW c, c = GreedyWord(s, n),
         NEW h, h = Extended(s, n, c), NEW row, row = Append(s.alive[n], c.word)
  PROVE  Longer(s, n, c, h, row)
<1>1. PICK T \in Nat, P \in Nat, F \in Nat \ {0}, words \in Seq(Words) :
        /\ e \in Entries /\ T = s.step /\ P = Len(Prefix(e)) /\ F = FirstReturned(e)
        /\ F = (IF ReturnPrefix THEN 1 ELSE P + 1) /\ words = s.alive[n] /\ Len(words) = T
  <2>1. s.step \in Nat /\ s.offset[n] \in Entries /\ s.alive[n] \in Seq(Words) /\ Len(s.alive[n]) = s.step
    <3>1. Width(s) = 1 /\ Flat(n, 1, Width(s)) = n
      BY GreedyChoicesAre
    <3>2. PICK k \in 1..Width(s) : k = 1 /\ Flat(n, k, Width(s)) = n
      BY <3>1
    <3>3. s.step \in Nat /\ s.offset[n] \in Entries /\ s.alive[n] \in Seq(Words)
      BY <3>2, RowsOf
    <3>4. Len(s.alive[n]) = s.step
      BY <3>2 DEF Aligned, RowOK
    <3> QED BY <3>3, <3>4
  <2>2. Len(Prefix(e)) \in Nat /\ FirstReturned(e) = (IF ReturnPrefix THEN 1 ELSE Len(Prefix(e)) + 1)
    BY <2>1, LimitsAre
  <2>3. FirstReturned(e) \in Nat \ {0}
    BY <2>2
  <2> QED BY <2>1, <2>2, <2>3
<1>2. PICK w \in Words, cost \in Nat :
        /\ w = c.word /\ cost = c.cost
        /\ T < P => w = Prefix(e)[T + 1]
        /\ T >= P /\ cost < Penalised =>
             \/ MinLengthMisplaced \/ w \notin Forbidden(e, words) \/ Forbidden(e, words) = Words
  BY <1>1, GreedySampleIs
<1>3. /\ row = Append(words, w) /\ row \in Seq(Words) /\ Len(row) = T + 1 /\ row[Len(row)] = w
  <2>1. row = Append(words, w)
    BY Zenon, <1>1, <1>2
  <2>2. /\ Append(words, w) \in Seq(Words) /\ Len(Append(words, w)) = Len(words) + 1
        /\ Append(words, w)[Len(words) + 1] = w
    BY ONLY AppendIs, words \in Seq(Words), w \in Words
  <2> QED BY Zenon, <1>1, <2>1, <2>2
<1>4. PICK g \in Hypothesis : g = Hypothesised(s, n)
  BY DEF GreedyRowOK
<1>5. g.words \in Seq(Words) /\ g.cost \in Nat
  BY DEF Hypothesis
<1> DEFINE kept == (w \notin call.endIds \/ call.includeEos) /\ (ReturnPrefix \/ T >= P)
<1>6. h = [words |-> IF kept THEN Append(g.words, w) ELSE g.words, cost |-> Plus(g.cost, cost)]
  <2>1. Extended(s, n, c)
          = [words |-> IF (c.word \notin call.endIds \/ call.includeEos)
                          /\ (ReturnPrefix \/ s.step >= Len(Prefix(s.offset[n])))
                       THEN Append(Hypothesised(s, n).words, c.word)
                       ELSE Hypothesised(s, n).words,
             cost |-> Plus(Hypothesised(s, n).cost, c.cost)]
    BY Zenon DEF Extended, Hypothesised
  <2> QED BY Zenon, <1>1, <1>2, <1>4, <2>1
<1>7. /\ h.words = (IF kept THEN Append(g.words, w) ELSE g.words) /\ h.cost = Plus(g.cost, cost)
      /\ h \in Hypothesis
  <2>1. Plus(g.cost, cost) \in Nat
    BY <1>5, PlusIs
  <2>2. Append(g.words, w) \in Seq(Words)
    BY <1>5, AppendIs
  <2> HIDE DEF kept
  <2> QED BY <1>5, <1>6, <2>1, <2>2 DEF Hypothesis
<1>8. h.cost < Penalised => g.cost < Penalised /\ cost < Penalised
  <2>1. PICK a \in Nat : a = g.cost
    BY <1>5
  <2>2. Plus(a, cost) < Penalised => a < Penalised /\ cost < Penalised
    BY ONLY PlusIs, a \in Nat, cost \in Nat
  <2> QED BY Zenon, <1>7, <2>1, <2>2
<1>9. ASSUME h.cost < Penalised
      PROVE  /\ OwnWords(e, words) /\ EndFree(e, words, T)
             /\ EndInPrefix(e) \/ g.words = SubSeq(words, F, T)
  BY <1>1, <1>4, <1>8, <1>9 DEF GreedyRowOK
<1>10. T < P \/ T >= P
  BY <1>1
<1>11. ASSUME h.cost < Penalised
       PROVE  /\ OwnWords(e, row) /\ EndFree(e, row, T)
              /\ T < P \/ w \notin call.endIds => EndFree(e, row, T + 1)
  <2>1. OwnWords(e, words) /\ EndFree(e, words, Len(words))
    BY <1>1, <1>9, <1>11
  <2>2. OwnWords(e, Append(words, w))
    <3>1. Len(words) < Len(Prefix(e)) => w = Prefix(e)[Len(words) + 1]
      BY <1>1, <1>2
    <3>2. \/ Len(words) < Len(Prefix(e)) \/ MinLengthMisplaced
          \/ w \notin Forbidden(e, words) \/ Forbidden(e, words) = Words
      BY <1>1, <1>2, <1>8, <1>10, <1>11
    <3> QED BY <1>1, <2>1, <3>1, <3>2, OwnExtends
  <2>3. /\ EndFree(e, Append(words, w), Len(Append(words, w)) - 1)
        /\ Len(words) < Len(Prefix(e)) \/ w \notin call.endIds
             => EndFree(e, Append(words, w), Len(Append(words, w)))
    BY <1>1, <2>1, EndFreeExtends
  <2>4. T + 1 - 1 = T
    BY <1>1
  <2>5. Append(words, w) = row /\ Len(Append(words, w)) = T + 1 /\ Len(Append(words, w)) - 1 = T
        /\ Len(words) = T /\ Len(Prefix(e)) = P
    <3>1. Append(words, w) = row /\ Len(row) = T + 1
      BY <1>3
    <3>2. Len(Append(words, w)) = T + 1
      BY ONLY <3>1
    <3>3. Len(Append(words, w)) - 1 = T
      BY ONLY <2>4, <3>2
    <3> QED BY <1>1, <3>1, <3>2, <3>3
  <2> QED BY Zenon, <2>2, <2>3, <2>5
<1>12. /\ F <= T + 1 => SubSeq(row, F, T + 1) = Append(SubSeq(words, F, T), w)
                        /\ SubSeq(row, F, T) = SubSeq(words, F, T)
       /\ F > T + 1 => /\ SubSeq(row, F, T + 1) = <<>> /\ SubSeq(row, F, T) = <<>>
                       /\ SubSeq(words, F, T) = <<>>
  <2>1. T = Len(words)
    BY <1>1
  <2>2. /\ F <= T + 1 => SubSeq(Append(words, w), F, T + 1) = Append(SubSeq(words, F, T), w)
                         /\ SubSeq(Append(words, w), F, T) = SubSeq(words, F, T)
        /\ F > T + 1 => /\ SubSeq(Append(words, w), F, T + 1) = <<>>
                        /\ SubSeq(Append(words, w), F, T) = <<>> /\ SubSeq(words, F, T) = <<>>
    BY ONLY <2>1, AppendPart, words \in Seq(Words), w \in Words, T \in Nat, F \in Nat \ {0}
  <2> QED BY Zenon, <1>3, <2>2
<1>13. ASSUME ~EndInPrefix(e), T < P, ReturnPrefix PROVE w \notin call.endIds \/ call.includeEos
  <2>1. PICK M \in Nat : M = call.maxLength /\ LastLength(e) = M
    BY <1>1, <1>13, LimitsAre
  <2>2. T < M
    BY <1>1, <2>1 DEF GreedyRowOK
  <2>3. /\ Len(ReturnedPrefix(e)) = (IF P <= M THEN P ELSE M)
        /\ \A i \in 1..Len(ReturnedPrefix(e)) : call.includeEos \/ Prefix(e)[i] \notin call.endIds
    BY <1>1, <1>13, <2>1, PrefixKept
  <2>4. T + 1 \in 1..Len(ReturnedPrefix(e))
    BY <1>1, <1>13, <2>2, <2>3
  <2> QED BY <1>2, <1>13, <2>3, <2>4
<1>14. ASSUME h.cost < Penalised, ~EndInPrefix(e), T < P \/ w \notin call.endIds
       PROVE  h.words = SubSeq(row, F, T + 1)
  <2>1. g.words = SubSeq(words, F, T)
    BY <1>9, <1>14
  <2>2. CASE ReturnPrefix \/ T >= P
    <3>1. kept
      BY <1>1, <1>10, <1>13, <1>14, <2>2
    <3>2. F <= T + 1
      BY <1>1, <2>2
    <3> QED BY <1>7, <1>12, <2>1, <3>1, <3>2
  <2>3. CASE ~(ReturnPrefix \/ T >= P)
    <3>1. ~kept /\ F > T + 1
      BY <1>1, <2>3
    <3> QED BY <1>7, <1>12, <2>1, <3>1
  <2> QED BY <2>2, <2>3
<1>15. ASSUME h.cost < Penalised, ~EndInPrefix(e), ReturnPrefix \/ T >= P
       PROVE  h.words = SubSeq(row, F, LastReturned(row))
  <2>1. g.words = SubSeq(words, F, T)
    BY <1>9, <1>15
  <2>2. F <= T + 1
    BY <1>1, <1>15
  <2>3. LastReturned(row) = IF w \in call.endIds /\ ~call.includeEos THEN T ELSE T + 1
    BY <1>1, <1>3 DEF LastReturned
  <2>4. CASE w \in call.endIds /\ ~call.includeEos
    <3>1. ~kept /\ LastReturned(row) = T
      BY <2>3, <2>4
    <3> QED BY <1>7, <1>12, <2>1, <2>2, <3>1
  <2>5. CASE ~(w \in call.endIds /\ ~call.includeEos)
    <3>1. kept /\ LastReturned(row) = T + 1
      BY <1>15, <2>3, <2>5
    <3> QED BY <1>7, <1>12, <2>1, <2>2, <3>1
  <2> QED BY <2>4, <2>5
<1> QED BY Zenon, <1>1, <1>2, <1>3, <1>7, <1>11, <1>14, <1>15 DEF Longer

\* The result of an entry that has left.
GreedyResultOK(e, hs) ==
  \E h \in Hypothesis :
    /\ hs = <<h>>
    /\ h.cost < Penalised /\ ~EndInPrefix(e) =>
         \E full \in Seq(Words) : Complete(e, full) /\ h.words = Returned(e, full)

GreedyOK(s) ==
  /\ \A n \in 1..Len(s.offset) : GreedyRowOK(s, n)
  /\ \A e \in Entries :
       (\A n \in 1..Len(s.offset) : s.offset[n] # e) => GreedyResultOK(e, s.results[e])

\* The result of an entry of the batch, and when the entry leaves.
LEMMA GreedyResultsAre ==
  ASSUME NaturalCosts, CallOK, IsGreedy, NEW s, Sized(s), NEW n \in 1..Len(s.offset)
  PROVE  /\ GreedyResults(s)[s.offset[n]] = <<Extended(s, n, GreedyWord(s, n))>>
         /\ n \in GreedyLeaving(s) <=>
              \/ Ends(s, s.offset[n], GreedyWord(s, n).word)
              \/ IsLastStep(s, s.offset[n])
              \/ Stopped(s, s.offset[n])
<1>1. PICK e : e = s.offset[n]
  OBVIOUS
<1>2. DOMAIN s.offset = 1..Len(s.offset) /\ Len(s.offset) \in Nat /\ e \in Entries
  <2>1. DOMAIN s.offset = 1..Len(s.offset) /\ Len(s.offset) \in Nat /\ s.offset \in Seq(Entries)
    BY DEF Sized, State
  <2> QED BY <1>1, <2>1
<1>3. PICK b : b = GreedyWord(s, n)
  OBVIOUS
<1>4. GreedySamples(s)[n] = b
  BY <1>2, <1>3 DEF GreedySamples
<1>5. n \in GreedyLeaving(s) <=> Ends(s, e, b.word) \/ IsLastStep(s, e) \/ Stopped(s, e)
  BY <1>1, <1>2, <1>4 DEF GreedyLeaving
<1>6. GreedyResults(s)[e] = <<Extended(s, n, b)>>
  <2>1. ASSUME NEW x \in DOMAIN s.offset, s.offset[x] = e PROVE x = n
    BY <1>1, <1>2, <2>1 DEF Sized
  <2>2. {x \in DOMAIN s.offset : s.offset[x] = e} = {n}
    BY <1>1, <1>2, <2>1
  <2>3. (CHOOSE x \in {x \in DOMAIN s.offset : s.offset[x] = e} : TRUE) = n
    BY <2>2
  <2> QED BY <1>2, <1>4, <2>2, <2>3 DEF GreedyResults
<1> QED BY Zenon, <1>1, <1>3, <1>5, <1>6

\* A row that stays.
LEMMA GreedyRowStays ==
  ASSUME NaturalCosts, CallOK, IsGreedy, NEW s, Sized(s), Aligned(s),
         NEW m \in 1..Len(GreedyKept(s)), GreedyRowOK(s, GreedyKept(s)[m])
  PROVE  GreedyRowOK(GreedyStep(s), m)
<1>1. PICK u : u = GreedyStep(s)
  OBVIOUS
<1>2. PICK n \in 1..Len(s.offset) : n = GreedyKept(s)[m] /\ n \notin GreedyLeaving(s)
  BY GreedyTurn DEF Selects
<1>3. PICK c : c = GreedyWord(s, n)
  OBVIOUS
<1>4. PICK row : row = Append(s.alive[n], c.word)
  OBVIOUS
<1>5. PICK h : h = Extended(s, n, c)
  OBVIOUS
<1>6. PICK e : e = s.offset[n]
  OBVIOUS
<1>7. u.step = s.step + 1 /\ u.offset[m] = e /\ u.alive[m] = row /\ u.results = GreedyResults(s)
  BY <1>1, <1>2, <1>3, <1>4, <1>6, GreedyTurn DEF WordFrom
<1>8. s.step \in Nat /\ e \in Entries
  <2>1. s.step \in Nat /\ s.offset \in Seq(Entries)
    BY DEF Sized, State
  <2> QED BY <1>6, <2>1
<1>9. u.results[e] = <<h>>
  BY <1>3, <1>5, <1>6, <1>7, GreedyResultsAre
<1>10. Hypothesised(u, m) = h
  <2>1. u.step # 0
    BY <1>7, <1>8
  <2>2. u.results[u.offset[m]][1] = h
    BY <1>7, <1>9
  <2> QED BY <2>1, <2>2 DEF Hypothesised
<1>11. ~Ends(s, e, c.word) /\ ~IsLastStep(s, e)
  BY <1>2, <1>3, <1>6, GreedyResultsAre
<1>12. /\ h \in Hypothesis
       /\ h.cost < Penalised =>
            /\ OwnWords(e, row)
            /\ s.step < Len(Prefix(e)) \/ c.word \notin call.endIds => EndFree(e, row, s.step + 1)
       /\ h.cost < Penalised /\ ~EndInPrefix(e) =>
            ((s.step < Len(Prefix(e)) \/ c.word \notin call.endIds) =>
                 h.words = SubSeq(row, FirstReturned(e), s.step + 1))
  <2>1. GreedyRowOK(s, n)
    BY <1>2
  <2>2. /\ h \in Hypothesis /\ c.word \in Words /\ row \in Seq(Words)
        /\ Len(row) = s.step + 1 /\ row[Len(row)] = c.word
        /\ h.cost < Penalised =>
             /\ OwnWords(e, row) /\ EndFree(e, row, s.step)
             /\ s.step < Len(Prefix(e)) \/ c.word \notin call.endIds => EndFree(e, row, s.step + 1)
        /\ h.cost < Penalised /\ ~EndInPrefix(e) =>
             /\ (s.step < Len(Prefix(e)) \/ c.word \notin call.endIds) =>
                  h.words = SubSeq(row, FirstReturned(e), s.step + 1)
             /\ (ReturnPrefix \/ s.step >= Len(Prefix(e))) =>
                  h.words = SubSeq(row, FirstReturned(e), LastReturned(row))
    <3>1. Longer(s, n, c, h, row)
      BY <1>3, <1>4, <1>5, <2>1, GreedyExtends
    <3> QED BY Zenon, <1>6, <3>1 DEF Longer
  <2> QED BY Zenon, <2>2
<1>13. s.step < Len(Prefix(e)) \/ c.word \notin call.endIds
  <2>1. Len(Prefix(e)) \in Nat
    BY <1>8, LimitsAre
  <2> QED BY <1>8, <1>11, <2>1 DEF Ends
<1>14. u.step < LastLength(e)
  <2>1. PICK L \in Nat : L = LastLength(e)
    BY <1>8, LimitsAre
  <2>2. s.step < L
    BY <1>2, <1>6, <2>1 DEF GreedyRowOK
  <2>3. s.step + 1 # L
    BY <1>11, <2>1 DEF IsLastStep, LastLength
  <2> QED BY <1>7, <1>8, <2>1, <2>2, <2>3
<1>15. GreedyRowOK(u, m)
  BY Zenon, <1>7, <1>10, <1>12, <1>13, <1>14 DEF GreedyRowOK
<1> QED BY <1>1, <1>15

\* The result of a row that leaves.
LEMMA GreedyRowLeaves ==
  ASSUME NaturalCosts, CallOK, IsGreedy, NEW s, Sized(s), Aligned(s),
         NEW n \in 1..Len(s.offset), GreedyRowOK(s, n), n \in GreedyLeaving(s)
  PROVE  GreedyResultOK(s.offset[n], GreedyResults(s)[s.offset[n]])
<1>1. PICK e : e = s.offset[n]
  OBVIOUS
<1>2. PICK c : c = GreedyWord(s, n)
  OBVIOUS
<1>3. PICK row : row = Append(s.alive[n], c.word)
  OBVIOUS
<1>4. PICK h : h = Extended(s, n, c)
  OBVIOUS
<1>5. PICK T \in Nat, P \in Nat, L \in Nat :
        /\ e \in Entries /\ T = s.step /\ P = Len(Prefix(e)) /\ L = LastLength(e) /\ T < L
        /\ ~ReturnPrefix => L = call.maxLength + P
        /\ FirstReturned(e) = (IF ReturnPrefix THEN 1 ELSE P + 1)
        /\ call.maxLength \in Nat /\ call.maxLength > 0
  <2>1. s.step \in Nat /\ s.offset \in Seq(Entries)
    BY DEF Sized, State
  <2>2. e \in Entries
    BY <1>1, <2>1
  <2>3. LastLength(e) \in Nat /\ Len(Prefix(e)) \in Nat
    BY <2>2, LimitsAre
  <2>4. s.step < LastLength(e)
    BY <1>1 DEF GreedyRowOK
  <2>5. /\ ~ReturnPrefix => LastLength(e) = call.maxLength + Len(Prefix(e))
        /\ FirstReturned(e) = (IF ReturnPrefix THEN 1 ELSE Len(Prefix(e)) + 1)
        /\ call.maxLength \in Nat /\ call.maxLength > 0
    BY <2>2, LimitsAre
  <2> QED BY <2>1, <2>2, <2>3, <2>4, <2>5
<1>6. /\ h \in Hypothesis /\ row \in Seq(Words) /\ Len(row) = T + 1 /\ row[Len(row)] = c.word
      /\ h.cost < Penalised => OwnWords(e, row) /\ EndFree(e, row, T)
      /\ h.cost < Penalised /\ ~EndInPrefix(e) =>
           ((ReturnPrefix \/ T >= P) => h.words = SubSeq(row, FirstReturned(e), LastReturned(row)))
  <2>1. /\ h \in Hypothesis /\ row \in Seq(Words)
        /\ Len(row) = s.step + 1 /\ row[Len(row)] = c.word
        /\ h.cost < Penalised => OwnWords(e, row) /\ EndFree(e, row, s.step)
        /\ h.cost < Penalised /\ ~EndInPrefix(e) =>
             ((ReturnPrefix \/ s.step >= Len(Prefix(e))) =>
                h.words = SubSeq(row, FirstReturned(e), LastReturned(row)))
    <3>1. /\ h \in Hypothesis /\ c.word \in Words /\ row \in Seq(Words)
          /\ Len(row) = s.step + 1 /\ row[Len(row)] = c.word
          /\ h.cost < Penalised =>
               /\ OwnWords(e, row) /\ EndFree(e, row, s.step)
               /\ s.step < Len(Prefix(e)) \/ c.word \notin call.endIds => EndFree(e, row, s.step + 1)
          /\ h.cost < Penalised /\ ~EndInPrefix(e) =>
               /\ (s.step < Len(Prefix(e)) \/ c.word \notin call.endIds) =>
                    h.words = SubSeq(row, FirstReturned(e), s.step + 1)
               /\ (ReturnPrefix \/ s.step >= Len(Prefix(e))) =>
                    h.words = SubSeq(row, FirstReturned(e), LastReturned(row))
      <4>1. Longer(s, n, c, h, row)
        BY <1>2, <1>3, <1>4, GreedyExtends
      <4> QED BY Zenon, <1>1, <4>1 DEF Longer
    <3> QED BY Zenon, <3>1
  <2> QED BY Zenon, <1>5, <2>1
<1>7. \/ T >= P /\ c.word \in call.endIds
      \/ T + 1 = L
      \/ (ReturnPrefix \/ T >= P) /\ call.stops # {}
  <2>1. Ends(s, e, c.word) \/ IsLastStep(s, e) \/ Stopped(s, e)
    BY <1>1, <1>2, GreedyResultsAre
  <2>2. Ends(s, e, c.word) => T >= P /\ c.word \in call.endIds
    BY Zenon, <1>5 DEF Ends
  <2>3. IsLastStep(s, e) => T + 1 = L
    BY Zenon, <1>5 DEF IsLastStep, LastLength
  <2>4. Stopped(s, e) => (ReturnPrefix \/ T >= P) /\ call.stops # {}
    BY <1>5 DEF Stopped
  <2> QED BY Zenon, <2>1, <2>2, <2>3, <2>4
<1>8. ReturnPrefix \/ T >= P
  <2>1. T + 1 = L /\ ~ReturnPrefix => T >= P
    BY <1>5
  <2> QED BY Zenon, <1>7, <2>1
<1>9. ASSUME h.cost < Penalised, ~EndInPrefix(e)
      PROVE  Complete(e, row) /\ h.words = Returned(e, row)
  <2>1. FirstReturned(e) <= Len(row) /\ Len(row) <= LastLength(e)
    BY <1>5, <1>6, <1>8
  <2>2. EndFree(e, row, Len(row) - 1)
    <3>1. Len(row) - 1 = T
      BY <1>6
    <3> QED BY Zenon, <1>6, <1>9, <3>1
  <2>3. \/ Len(row) = LastLength(e) \/ call.stops # {}
        \/ Len(row) > Len(Prefix(e)) /\ row[Len(row)] \in call.endIds
    <3>1. T >= P => T + 1 > P
      OBVIOUS
    <3> QED BY Zenon, <1>5, <1>6, <1>7, <3>1
  <2>4. Complete(e, row)
    BY Zenon, <1>6, <1>9, <2>1, <2>2, <2>3 DEF Complete
  <2>5. h.words = Returned(e, row)
    BY Zenon, <1>6, <1>8, <1>9 DEF Returned
  <2> QED BY <2>4, <2>5
<1>10. GreedyResults(s)[e] = <<h>>
  BY <1>1, <1>2, <1>4, GreedyResultsAre
<1>11. GreedyResultOK(e, GreedyResults(s)[e])
  BY Zenon, <1>6, <1>9, <1>10 DEF GreedyResultOK
<1> QED BY <1>1, <1>11

\* A turn of greedy search keeps the rows and the results.
LEMMA GreedyOKNext ==
  ASSUME NaturalCosts, CallOK, IsGreedy, NEW s, Sized(s), Aligned(s), GreedyOK(s)
  PROVE  GreedyOK(GreedyStep(s))
<1>1. PICK u : u = GreedyStep(s)
  OBVIOUS
<1>2. /\ u.results = GreedyResults(s) /\ Len(u.offset) = Len(GreedyKept(s))
      /\ \A m \in 1..Len(GreedyKept(s)) : u.offset[m] = s.offset[GreedyKept(s)[m]]
  BY <1>1, GreedyTurn
<1>3. /\ \A m \in 1..Len(GreedyKept(s)) :
           GreedyKept(s)[m] \in 1..Len(s.offset) /\ GreedyKept(s)[m] \notin GreedyLeaving(s)
      /\ \A n \in 1..Len(s.offset) :
           n \notin GreedyLeaving(s) => \E m \in 1..Len(GreedyKept(s)) : GreedyKept(s)[m] = n
  <2>1. Selects(GreedyKept(s), Len(s.offset), GreedyLeaving(s))
    BY GreedyTurn
  <2>2. GreedyKept(s) \in Seq(1..Len(s.offset))
    BY Zenon, <2>1 DEF Selects
  <2>3. \A m \in 1..Len(GreedyKept(s)) : GreedyKept(s)[m] \in 1..Len(s.offset)
    BY <2>2
  <2>4. /\ \A m \in 1..Len(GreedyKept(s)) : GreedyKept(s)[m] \in (1..Len(s.offset)) \ GreedyLeaving(s)
        /\ \A n \in (1..Len(s.offset)) \ GreedyLeaving(s) :
             \E m \in 1..Len(GreedyKept(s)) : GreedyKept(s)[m] = n
    BY Zenon, <2>1 DEF Selects
  <2> QED BY Zenon, <2>3, <2>4
<1>4. ASSUME NEW m \in 1..Len(u.offset) PROVE GreedyRowOK(u, m)
  <2>1. m \in 1..Len(GreedyKept(s)) /\ GreedyRowOK(s, GreedyKept(s)[m])
    BY Zenon, <1>2, <1>3 DEF GreedyOK
  <2> QED BY <1>1, <2>1, GreedyRowStays
<1>5. ASSUME NEW e \in Entries, \A m \in 1..Len(u.offset) : u.offset[m] # e
      PROVE  GreedyResultOK(e, u.results[e])
  <2>1. CASE \A n \in 1..Len(s.offset) : s.offset[n] # e
    <3>1. u.results[e] = s.results[e]
      BY <1>1, <2>1, GreedyGone
    <3> QED BY Zenon, <2>1, <3>1 DEF GreedyOK
  <2>2. CASE \E n \in 1..Len(s.offset) : s.offset[n] = e
    <3>1. PICK n \in 1..Len(s.offset) : s.offset[n] = e
      BY <2>2
    <3>2. n \in GreedyLeaving(s)
      BY <1>2, <1>3, <1>5, <3>1
    <3>3. GreedyRowOK(s, n)
      BY DEF GreedyOK
    <3>4. GreedyResultOK(s.offset[n], GreedyResults(s)[s.offset[n]])
      BY <3>2, <3>3, GreedyRowLeaves
    <3> QED BY Zenon, <1>2, <3>1, <3>4
  <2> QED BY <2>1, <2>2
<1>6. GreedyOK(u)
  BY Zenon, <1>4, <1>5 DEF GreedyOK
<1> QED BY <1>1, <1>6

\* Nothing has been decoded when greedy search starts.
LEMMA GreedyOKStart ==
  ASSUME CallOK, IsGreedy, NEW offset, Batch(offset),
         \A e \in Entries : \E n \in 1..Len(offset) : offset[n] = e
  PROVE  GreedyOK(GreedyStart(offset))
<1>1. PICK s : s = GreedyStart(offset)
  OBVIOUS
<1>2. s.offset = offset /\ s.step = 0 /\ offset \in Seq(Entries)
      /\ \A n \in 1..Len(offset) : s.alive[n] = <<>>
  <2>1. offset \in Seq(Entries)
    BY DEF Batch
  <2> QED BY <1>1, <2>1, SearchStateIs DEF GreedyStart
<1>3. ASSUME NEW n \in 1..Len(offset) PROVE GreedyRowOK(s, n)
  <2>1. PICK e \in Entries : e = s.offset[n]
    BY <1>2
  <2>2. s.step < LastLength(e)
    <3>1. /\ call.maxLength \in Nat /\ call.maxLength > 0 /\ Len(Prefix(e)) \in Nat
          /\ LastLength(e) = (IF ReturnPrefix THEN call.maxLength
                                               ELSE call.maxLength + Len(Prefix(e)))
      BY <2>1, LimitsAre
    <3>2. 0 < LastLength(e)
      BY ONLY <3>1
    <3> QED BY Zenon, <1>2, <3>2
  <2>3. Hypothesised(s, n) = [words |-> <<>>, cost |-> 0]
    BY <1>2 DEF Hypothesised
  <2>4. <<>> \in Seq(Words) /\ OwnWords(e, <<>>) /\ EndFree(e, <<>>, 0)
    <3>1. <<>> \in Seq(Words) /\ \A i : i \notin 1..Len(<<>>) /\ i \notin 1..0
      OBVIOUS
    <3> QED BY <3>1 DEF OwnWords, Follows, Allowed, EndFree
  <2>5. [words |-> <<>>, cost |-> 0] \in Hypothesis
    BY <2>4 DEF Hypothesis
  <2>6. SubSeq(<<>>, FirstReturned(e), 0) = <<>>
    <3>1. FirstReturned(e) \in Nat \ {0}
      BY LimitsAre
    <3> QED BY <3>1
  <2>7. s.alive[n] = <<>>
    BY <1>2
  <2>8. Hypothesised(s, n).words = <<>>
    BY <2>3
  <2> QED BY Zenon, <1>2, <2>1, <2>2, <2>3, <2>4, <2>5, <2>6, <2>7, <2>8 DEF GreedyRowOK
<1>4. GreedyOK(s)
  BY Zenon, <1>2, <1>3 DEF GreedyOK
<1> QED BY <1>1, <1>4

-----------------------------------------------------------------------------
(* The results of every search. *)

\* A call keeps what its hypotheses should be.
LEMMA WordsStay ==
  ASSUME UNCHANGED call
  PROVE  /\ \A e, words : OwnWords(e, words)' <=> OwnWords(e, words)
         /\ \A e, words, last : EndFree(e, words, last)' <=> EndFree(e, words, last)
         /\ \A e, full : Complete(e, full)' <=> Complete(e, full)
         /\ \A e, full : Returned(e, full)' = Returned(e, full)
         /\ \A e : FirstReturned(e)' = FirstReturned(e) /\ LastLength(e)' = LastLength(e)
         /\ \A e : Len(Prefix(e))' = Len(Prefix(e))
         /\ \A e : EndInPrefix(e)' <=> EndInPrefix(e)
         /\ \A e : EmptyForFree(e)' <=> EmptyForFree(e)
         /\ SeveralEnds' <=> SeveralEnds
         /\ \A h : Divisor(h)' = Divisor(h)
         /\ Entries' = Entries
<1>0. call' = call
  OBVIOUS
<1>1. /\ \A e : Prefix(e)' = Prefix(e)
      /\ ReturnPrefix' = ReturnPrefix /\ Entries' = Entries
  BY DEF Prefix, ForwardLength, Entries, ReturnPrefix
<1>2. \A e, words : Forbidden(e, words)' = Forbidden(e, words)
  BY DEF Prefix, ForwardLength, Entries, Forbidden, ReturnPrefix
<1>3. \A e, words : History(e, words)' = History(e, words)
  BY DEF History, ForwardLength, Entries
<1>4. IsGreedy' = IsGreedy /\ MinLengthMisplaced' = MinLengthMisplaced
  <2>1. PICK u : search' = u
    OBVIOUS
  <2> QED BY <2>1, SearchStays
<1>5. \A e : FirstReturned(e)' = FirstReturned(e) /\ LastLength(e)' = LastLength(e)
  BY Zenon, <1>0, <1>1 DEF FirstReturned, LastLength
<1>6. \A e, words : Follows(e, words)' <=> Follows(e, words)
  BY Zenon, <1>1 DEF Follows
<1>7. \A e, words : Allowed(e, words)' <=> Allowed(e, words)
  BY Zenon, <1>1, <1>2 DEF Allowed, ForbiddenAt
<1>8. \A e, words : OwnWords(e, words)' <=> OwnWords(e, words)
  BY Zenon, <1>4, <1>6, <1>7 DEF OwnWords
<1>9. \A e, words, last : EndFree(e, words, last)' <=> EndFree(e, words, last)
  BY Zenon, <1>0, <1>1 DEF EndFree
<1>10. SeveralEnds' <=> SeveralEnds
  BY Zenon, <1>0 DEF SeveralEnds
<1>11. \A e, full : Complete(e, full)' <=> Complete(e, full)
  BY Zenon, <1>0, <1>1, <1>4, <1>5, <1>8, <1>9, <1>10 DEF Complete
<1>12. \A full : LastReturned(full)' = LastReturned(full)
  BY Zenon, <1>0 DEF LastReturned
<1>13. \A e, full : Returned(e, full)' = Returned(e, full)
  BY Zenon, <1>5, <1>12 DEF Returned
<1>14. \A e : EndInPrefix(e)' <=> EndInPrefix(e)
  BY Zenon, <1>0, <1>1 DEF EndInPrefix, ReturnedPrefix
<1>15. \A e : EmptyForFree(e)' <=> EmptyForFree(e)
  BY Zenon, <1>0, <1>1, <1>3, <1>4 DEF EmptyForFree
<1>16. \A h : Divisor(h)' = Divisor(h)
  BY Zenon, <1>0 DEF Divisor
<1> QED BY Zenon, <1>1, <1>5, <1>8, <1>9, <1>10, <1>11, <1>13, <1>14, <1>15, <1>16

\* A state of the search keeps its rows and results into the next state.
LEMMA ResultsStay ==
  ASSUME NEW u, search' = u, UNCHANGED call
  PROVE  /\ BeamOK(u) => BeamOK(search)'
         /\ GreedyOK(u) => GreedyOK(search)'
<1>0. call' = call
  OBVIOUS
<1>1. \A h : h \in Hypothesis' <=> h \in Hypothesis
  BY Zenon DEF Hypothesis
<1>2. \A e, steps, h : HypothesisOK(e, steps, h)' <=> HypothesisOK(e, steps, h)
  BY Zenon, WordsStay DEF HypothesisOK, Hypothesis
<1>3. \A g, h : Apart(g, h)' <=> Apart(g, h)
  BY Zenon, <1>0, WordsStay DEF Apart
<1>4. \A e, steps, hs : HypothesesOK(e, steps, hs)' <=> HypothesesOK(e, steps, hs)
  BY Zenon, <1>2, <1>3 DEF HypothesesOK, Hypothesis
<1>5. \A hs : BestFirst(hs)' <=> BestFirst(hs)
  BY Zenon, WordsStay DEF BestFirst
<1>6. \A e, hs : ResultOK(e, hs)' <=> ResultOK(e, hs)
  BY Zenon, <1>0, <1>4, <1>5, WordsStay DEF ResultOK
<1>7. \A n : BeamRowsOK(u, n) => BeamRowsOK(search, n)'
  <2>1. Width(search)' = Width(u)
    BY Zenon, <1>0 DEF Width
  <2> SUFFICES ASSUME NEW n, BeamRowsOK(u, n) PROVE BeamRowsOK(search, n)'
    OBVIOUS
  <2>2. (/\ search.step < LastLength(search.offset[n])
         /\ search.step <= Len(Prefix(search.offset[n])) =>
              search.scores[Flat(n, 1, Width(search))] = 0)'
    BY Zenon, <2>1, WordsStay DEF BeamRowsOK
  <2>3. (\A k \in 1..Width(search) :
           /\ search.scores[Flat(n, k, Width(search))] < Penalised =>
                OwnWords(search.offset[n], search.alive[Flat(n, k, Width(search))])
           /\ \/ SeveralEnds
              \/ EndFree(search.offset[n], search.alive[Flat(n, k, Width(search))], search.step))'
    BY Zenon, <2>1, WordsStay DEF BeamRowsOK
  <2>4. (\A j, k \in 1..Width(search) :
           /\ /\ search.scores[Flat(n, j, Width(search))] < Penalised
              /\ search.scores[Flat(n, k, Width(search))] < Penalised
           /\ search.alive[Flat(n, j, Width(search))] = search.alive[Flat(n, k, Width(search))]
           => j = k)'
    <3>1. \A j, k \in 1..Width(u) :
            /\ u.scores[Flat(n, j, Width(u))] < Penalised /\ u.scores[Flat(n, k, Width(u))] < Penalised
            /\ u.alive[Flat(n, j, Width(u))] = u.alive[Flat(n, k, Width(u))]
            => j = k
      BY Zenon DEF BeamRowsOK
    <3> QED BY ONLY <2>1, <3>1, search' = u
  <2> QED BY Zenon, <2>2, <2>3, <2>4 DEF BeamRowsOK
<1>8. BeamOK(u) => BeamOK(search)'
  BY Zenon, <1>4, <1>6, <1>7, WordsStay DEF BeamOK
<1>9. \A n : GreedyRowOK(u, n) => GreedyRowOK(search, n)'
  <2>1. \A n : Hypothesised(search, n)' = Hypothesised(u, n)
    BY Zenon DEF Hypothesised
  <2> QED BY Zenon, <2>1, WordsStay DEF GreedyRowOK, Hypothesis
<1>10. \A e, hs : GreedyResultOK(e, hs)' <=> GreedyResultOK(e, hs)
  BY Zenon, WordsStay DEF GreedyResultOK, Hypothesis
<1>11. GreedyOK(u) => GreedyOK(search)'
  BY Zenon, <1>9, <1>10, WordsStay DEF GreedyOK
<1> QED BY <1>8, <1>11

\* The inductive invariant: what SearchInv says of the rows of the search, whose words
\* are complete so far, and complete results for the entries that have left.
CompleteInv ==
  /\ SearchInv
  /\ IsGreedy => GreedyOK(search)
  /\ ~IsGreedy => BeamOK(search)

\* The search starts that way.
LEMMA CompleteInit == ASSUME Init PROVE CompleteInv
<1>1. SearchInv /\ CallOK
  BY SearchInit DEF SearchInv
<1>2. PICK offset : offset = [e \in Entries |-> e]
  OBVIOUS
<1>3. Batch(offset) /\ \A e \in Entries : \E n \in 1..Len(offset) : offset[n] = e
  <2>1. PICK N \in Nat : N = Len(call.prompts) /\ Entries = 1..N
    BY <1>1, CallIs
  <2>2. [e \in 1..N |-> e] \in Seq(1..N) /\ Len([e \in 1..N |-> e]) = N
    OBVIOUS
  <2> QED BY <1>2, <2>1, <2>2 DEF Batch
<1>4. ASSUME IsGreedy PROVE GreedyOK(search)
  <2>1. search = GreedyStart(offset)
    BY <1>2, <1>4 DEF Init, Start
  <2> QED BY <1>1, <1>3, <1>4, <2>1, GreedyOKStart
<1>5. ASSUME ~IsGreedy PROVE BeamOK(search)
  <2>1. search = BeamStart(offset)
    BY <1>2, <1>5 DEF Init, Start
  <2> QED BY <1>1, <1>3, <1>5, <2>1, BeamOKStart
<1> QED BY <1>1, <1>4, <1>5 DEF CompleteInv

\* Every step keeps it.
LEMMA CompleteNext == ASSUME NaturalCosts, CompleteInv, [Next]_vars PROVE CompleteInv'
<1>1. SearchInv /\ CallOK /\ Sized(search) /\ Aligned(search)
  BY DEF CompleteInv, SearchInv
<1>2. SearchInv'
  BY <1>1, SearchNext
<1>3. CASE GreedySearchStep
  <2>1. IsGreedy /\ search' = GreedyStep(search) /\ UNCHANGED call
    BY <1>3 DEF GreedySearchStep
  <2>2. GreedyOK(GreedyStep(search))
    BY <1>1, <2>1, GreedyOKNext DEF CompleteInv
  <2>3. GreedyOK(search)' /\ IsGreedy'
    BY <2>1, <2>2, ResultsStay, SearchStays
  <2> QED BY <1>2, <2>3 DEF CompleteInv
<1>4. CASE BeamSearchStep
  <2>1. ~IsGreedy /\ search' = BeamStep(search) /\ UNCHANGED call
    BY <1>4 DEF BeamSearchStep
  <2>2. BeamOK(BeamStep(search))
    BY <1>1, <2>1, BeamOKNext DEF CompleteInv
  <2>3. BeamOK(search)' /\ ~IsGreedy'
    BY <2>1, <2>2, ResultsStay, SearchStays
  <2> QED BY <1>2, <2>3 DEF CompleteInv
<1>5. CASE UNCHANGED vars
  <2>1. search' = search /\ UNCHANGED call
    BY <1>5 DEF vars
  <2>2. /\ GreedyOK(search) => GreedyOK(search)'
        /\ BeamOK(search) => BeamOK(search)'
        /\ IsGreedy' = IsGreedy
    BY <2>1, ResultsStay, SearchStays
  <2> QED BY <1>2, <2>2 DEF CompleteInv
<1> QED BY <1>3, <1>4, <1>5 DEF Next

\* The results of a finished entry are what they should be.
LEMMA InvComplete == ASSUME CompleteInv PROVE ResultsComplete
<1>1. CallOK /\ Sized(search)
  BY DEF CompleteInv, SearchInv
<1> SUFFICES ASSUME NEW e \in Entries, Finished(e)
             PROVE  /\ Len(search.results[e]) >= Min({call.numHypotheses, call.beamSize})
                    /\ ~EndInPrefix(e) /\ ~EmptyForFree(e) =>
                         /\ \A i, j \in DOMAIN search.results[e] : i < j =>
                              /\ search.results[e][i].cost * Divisor(search.results[e][j])
                                   <= search.results[e][j].cost * Divisor(search.results[e][i])
                              /\ Apart(search.results[e][i], search.results[e][j])
                         /\ \A i \in DOMAIN search.results[e] :
                              search.results[e][i].cost < Penalised =>
                                WordsComplete(e, search.results[e][i].words)
  BY Zenon DEF ResultsComplete, Divisor, Apart
<1>2. PICK hs : hs = search.results[e]
  OBVIOUS
<1>3. \A n \in 1..Len(search.offset) : search.offset[n] # e
  <2>1. DOMAIN search.offset = 1..Len(search.offset)
    BY <1>1 DEF Sized, State
  <2> QED BY <2>1 DEF Finished, ToSet
<1>4. PICK B \in Nat, N \in Nat : B = call.beamSize /\ N = call.numHypotheses /\ B > 0
  BY <1>1, LimitsAre
<1>5. Min({call.numHypotheses, call.beamSize}) = IF N <= B THEN N ELSE B
  BY <1>4, MinOfTwo
<1>6. CASE IsGreedy
  <2>1. GreedyResultOK(e, hs)
    BY Zenon, <1>2, <1>3, <1>6 DEF CompleteInv, GreedyOK
  <2>2. PICK h \in Hypothesis :
          /\ hs = <<h>>
          /\ h.cost < Penalised /\ ~EndInPrefix(e) =>
               \E full \in Seq(Words) : Complete(e, full) /\ h.words = Returned(e, full)
    BY Zenon, <2>1 DEF GreedyResultOK
  <2>3. Len(hs) = 1 /\ DOMAIN hs = {1} /\ hs[1] = h
    BY <2>2
  <2>4. Len(hs) >= Min({call.numHypotheses, call.beamSize})
    <3>1. B = 1
      BY <1>4, <1>6 DEF IsGreedy
    <3> QED BY <1>4, <1>5, <2>3, <3>1
  <2>5. ASSUME ~EndInPrefix(e), h.cost < Penalised PROVE WordsComplete(e, h.words)
    <3>1. PICK full \in Seq(Words) : Complete(e, full) /\ h.words = Returned(e, full)
      BY <2>2, <2>5
    <3>2. WordsComplete(e, Returned(e, full))
      BY <1>1, <2>5, <3>1, CompleteWords
    <3> QED BY Zenon, <3>1, <3>2
  <2>6. \A i, j \in DOMAIN hs : ~(i < j)
    BY <2>3
  <2> QED BY Zenon, <1>2, <2>3, <2>4, <2>5, <2>6
<1>7. CASE ~IsGreedy
  <2>1. ResultOK(e, hs)
    BY Zenon, <1>2, <1>3, <1>7 DEF CompleteInv, BeamOK
  <2>2. Len(hs) \in Nat /\ DOMAIN hs = 1..Len(hs)
    BY Zenon, <2>1 DEF ResultOK
  <2>3. Len(hs) >= Min({call.numHypotheses, call.beamSize})
    <3>1. Len(hs) >= call.numHypotheses \/ Len(hs) >= call.beamSize
      BY Zenon, <2>1 DEF ResultOK
    <3> QED BY <1>4, <1>5, <2>2, <3>1
  <2>4. ASSUME ~EndInPrefix(e), ~EmptyForFree(e)
        PROVE  /\ \A i, j \in DOMAIN hs : i < j =>
                    /\ hs[i].cost * Divisor(hs[j]) <= hs[j].cost * Divisor(hs[i])
                    /\ Apart(hs[i], hs[j])
               /\ \A i \in DOMAIN hs :
                    hs[i].cost < Penalised => WordsComplete(e, hs[i].words)
    <3>1. BestFirst(hs) /\ \E steps \in Nat : HypothesesOK(e, steps, hs)
      BY Zenon, <2>1, <2>4 DEF ResultOK
    <3>2. PICK steps \in Nat : HypothesesOK(e, steps, hs)
      BY <3>1
    <3>3. \A i, j \in 1..Len(hs) : i < j => i # j
      BY <2>2
    <3>4. \A i, j \in 1..Len(hs) : i < j => Apart(hs[i], hs[j])
      BY Zenon, <3>2, <3>3 DEF HypothesesOK
    <3>5. ASSUME NEW i \in 1..Len(hs), hs[i].cost < Penalised
          PROVE  WordsComplete(e, hs[i].words)
      <4>1. PICK full \in Seq(Words) : Complete(e, full) /\ hs[i].words = Returned(e, full)
        BY Zenon, <3>2, <3>5 DEF HypothesesOK, HypothesisOK
      <4>2. WordsComplete(e, Returned(e, full))
        BY <1>1, <2>4, <4>1, CompleteWords
      <4> QED BY Zenon, <4>1, <4>2
    <3> QED BY Zenon, <2>2, <3>1, <3>4, <3>5 DEF BestFirst
  <2> QED BY Zenon, <1>2, <2>3, <2>4
<1> QED BY <1>6, <1>7

\* For every decoder that returns numbers, every vocabulary and every call, an entry
\* that has left the batch has the hypotheses that were asked for (fewer only when
\* patience allows more than a beam holds), best first by the normalized scores; unless
\* its score is a penalty, each continues the prefix, is within the length limits, has
\* no end token but its last word and no word the options forbid at its place, and is
\* returned once (but for what the definitions of EndInPrefix, EmptyForFree and
\* SeveralEnds exempt).
THEOREM HypothesesComplete == ASSUME NaturalCosts PROVE Spec => []ResultsComplete
<1>1. Init => CompleteInv
  BY CompleteInit
<1>2. CompleteInv /\ [Next]_vars => CompleteInv'
  BY CompleteNext
<1>3. CompleteInv => ResultsComplete
  BY InvComplete
<1> QED BY <1>1, <1>2, <1>3, PTL DEF Spec

=============================================================================
