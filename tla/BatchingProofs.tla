--------------------------- MODULE BatchingProofs ---------------------------
(***************************************************************************)
(* What rebatch_input (src/batch_reader.cc) computes, for every input, every*)
(* order std::sort may leave and every size: each batch carries the indices*)
(* of its own examples, and every example is in a batch.                   *)
(*                                                                         *)
(* The batches are a recursive function over the positions of the sorted   *)
(* examples. The provers have no induction over it, so the lemmas take a   *)
(* least counterexample, which exists because the subsets of a finite set  *)
(* are well-founded under strict inclusion.                                *)
(*                                                                         *)
(* The general facts at the end, about numbers, sequences, sums and        *)
(* records, are those that the proofs of Decoding use too.                 *)
(***************************************************************************)
EXTENDS Batching, Integers, TLAPS, FiniteSetTheorems, WellFoundedInduction, SequenceTheorems

\* A nonempty set of natural numbers has a least element.
LEMMA LeastNatural ==
  ASSUME NEW S \in SUBSET Nat, S # {}
  PROVE  \E x \in S : \A y \in S : x <= y
<1>1. PICK n \in S : TRUE
  OBVIOUS
<1> DEFINE T == {1..m : m \in {m \in S : m <= n}}
<1>2. T \subseteq SUBSET (1..n) /\ T # {}
  BY <1>1
<1>3. IsFiniteSet(1..n)
  BY <1>1, FS_Interval
<1>4. IsWellFoundedOn(StrictSubsetOrdering(1..n), SUBSET (1..n))
  BY <1>3, FS_StrictSubsetOrderingWellFounded, FS_FiniteSubsetsOfFinite
<1>5. PICK x \in T : \A y \in T : <<y, x>> \notin StrictSubsetOrdering(1..n)
  <2> HIDE DEF T
  <2> QED BY <1>2, <1>4, WFMin
<1>6. PICK m \in S : m <= n /\ x = 1..m
  BY <1>5
<1>7. ASSUME NEW k \in S, k < m PROVE FALSE
  <2>1. 1..k \in T
    BY <1>6, <1>7, <1>1
  <2>2. 1..k \subseteq 1..m /\ m \in 1..m /\ m \notin 1..k
    BY <1>7, <1>6
  <2>3. <<1..k, x>> \in StrictSubsetOrdering(1..n)
    BY <1>2, <2>1, <2>2, <1>6, <1>5 DEF StrictSubsetOrdering
  <2> QED BY <2>1, <2>3, <1>5
<1> QED BY <1>6, <1>7

\* The loop that breaks at the first position in "breaks", never at the first
\* one, takes between one and all of the n examples.
LEMMA FirstBreakRange ==
  ASSUME NEW n \in Nat \ {0}, NEW breaks \in SUBSET (2..n)
  PROVE  (IF breaks = {} THEN n ELSE Min(breaks) - 1) \in 1..n
<1>1. CASE breaks = {}
  BY <1>1
<1>2. CASE breaks # {}
  <2>1. Min(breaks) \in breaks
    <3>1. \E x \in breaks : \A y \in breaks : x <= y
      BY <1>2, LeastNatural
    <3> QED BY <3>1 DEF Min
  <2>2. PICK m \in 2..n : m = Min(breaks)
    BY <2>1
  <2> QED BY <1>2, <2>2
<1> QED BY <1>1, <1>2

\* BatchReader::get_next takes at least one example and at most those left
\* (fill_batch_with_fixed_increment and fill_batch_with_variable_increment).
LEMMA BatchLengthRange ==
  ASSUME NEW rest, Len(rest) \in Nat \ {0}, NEW max, NEW type, NEW padding
  PROVE  BatchLength(rest, max, type, padding) \in 1..Len(rest)
<1> DEFINE breaks == {n \in 2..Len(rest) : NewBatchSize(rest, n, type, padding) > max}
<1>1. breaks \in SUBSET (2..Len(rest))
  OBVIOUS
<1>2. BatchLength(rest, max, type, padding) = IF breaks = {} THEN Len(rest) ELSE Min(breaks) - 1
  BY DEF BatchLength
<1> HIDE DEF breaks
<1> QED BY <1>1, <1>2, FirstBreakRange

-----------------------------------------------------------------------------
(* Cutting positions 1..total into pieces: the piece at position p is       *)
(* head[p] and the next one starts at jump[p].                             *)

\* f[p] is the sequence of the pieces from position p on.
CutOf(total, head, jump, f) ==
  f = [p \in 1..(total + 1) |-> IF p > total THEN <<>> ELSE <<head[p]>> \o f[jump[p]]]

\* The pieces of rebatch_input, when the batch at p takes counts[p] examples.
Heads(examples, order, counts) ==
  [first \in 1..Len(examples) |-> BatchAt(examples, order, first, counts[first])]

Jumps(examples, counts) == [first \in 1..Len(examples) |-> first + counts[first]]

\* The batches are the pieces from position 1 on, within the input.
CutBy(examples, order, batches, counts) ==
  /\ counts \in [1..Len(examples) -> 1..Len(examples)]
  /\ \A first \in 1..Len(examples) : first + counts[first] - 1 <= Len(examples)
  /\ \E f : /\ CutOf(Len(examples), Heads(examples, order, counts), Jumps(examples, counts), f)
            /\ batches = f[1]

\* A cut exists when every jump goes forward: the recursive definition of
\* Rebatch defines a function.
LEMMA CutExists ==
  ASSUME NEW total \in Nat, NEW head,
         NEW jump \in [1..total -> 1..(total + 1)], \A p \in 1..total : jump[p] > p
  PROVE  \E f : CutOf(total, head, jump, f)
<1> DEFINE Joined(p, rest) == <<head[p]>> \o rest
           Cut(n, f) ==
             f = [p \in (total + 1 - n)..(total + 1) |->
                    IF p > total THEN <<>> ELSE Joined(p, f[jump[p]])]
           Missing == {n \in 0..total : ~ \E f : Cut(n, f)}
<1> HIDE DEF Joined
<1>1. ASSUME NEW n \in 1..total, NEW g, Cut(n - 1, g)
      PROVE  \E f : Cut(n, f)
  <2> DEFINE s == total + 1 - n
             h == [p \in s..(total + 1) |-> IF p = s THEN Joined(p, g[jump[p]]) ELSE g[p]]
  <2>1. s \in 1..total /\ total + 1 - (n - 1) = s + 1
    OBVIOUS
  <2>2. g = [p \in (s + 1)..(total + 1) |->
               IF p > total THEN <<>> ELSE Joined(p, g[jump[p]])]
    BY <1>1, <2>1
  <2> HIDE DEF s
  <2>3. \A p \in s..total : jump[p] \in (s + 1)..(total + 1) /\ h[jump[p]] = g[jump[p]]
    BY <2>1
  <2>4. ASSUME NEW p \in s..(total + 1)
        PROVE  h[p] = IF p > total THEN <<>> ELSE Joined(p, h[jump[p]])
    <3>1. CASE p = s
      BY <2>1, <2>3, <3>1
    <3>2. CASE p \in (s + 1)..(total + 1)
      <4>1. g[p] = IF p > total THEN <<>> ELSE Joined(p, g[jump[p]])
        BY <2>2, <3>2
      <4> QED BY <2>1, <2>3, <3>2, <4>1
    <3> QED BY <2>1, <3>1, <3>2
  <2>5. h = [p \in s..(total + 1) |-> h[p]]
    OBVIOUS
  <2> HIDE DEF h
  <2>6. h = [p \in s..(total + 1) |-> IF p > total THEN <<>> ELSE Joined(p, h[jump[p]])]
    BY <2>4, <2>5
  <2>7. Cut(n, h)
    BY <2>6 DEF s
  <2> QED BY <2>7
<1>2. \E f : Cut(0, f)
  <2>1. Cut(0, [p \in (total + 1)..(total + 1) |-> <<>>])
    OBVIOUS
  <2> QED BY <2>1
<1>3. \A n \in 0..total : \E f : Cut(n, f)
  <2> HIDE DEF Cut
  <2>1. SUFFICES ASSUME Missing # {} PROVE FALSE
    OBVIOUS
  <2>2. Missing \in SUBSET Nat
    OBVIOUS
  <2>3. PICK n \in Missing : \A m \in Missing : n <= m
    <3> HIDE DEF Missing
    <3> QED BY <2>1, <2>2, LeastNatural
  <2>4. n \in 0..total /\ n # 0 /\ ~ \E f : Cut(n, f)
    BY <2>3, <1>2
  <2>5. n - 1 \in 0..total /\ n - 1 \notin Missing
    BY <2>3, <2>4
  <2> QED BY <2>4, <2>5, <1>1
<1>4. PICK f : Cut(total, f)
  BY <1>3
<1>5. total + 1 - total = 1
  OBVIOUS
<1> QED BY <1>4, <1>5 DEF Joined, CutOf

\* A cut consists of its pieces.
LEMMA CutElements ==
  ASSUME NEW total \in Nat, NEW head,
         NEW jump \in [1..total -> 1..(total + 1)], \A p \in 1..total : jump[p] > p,
         NEW f, CutOf(total, head, jump, f)
  PROVE  \A p \in 1..(total + 1) : f[p] \in Seq({head[q] : q \in 1..total})
<1> DEFINE Batches == {head[q] : q \in 1..total}
           Joined(p, rest) == <<head[p]>> \o rest
           Bad == {n \in 0..total : f[total + 1 - n] \notin Seq(Batches)}
<1>0. f = [p \in 1..(total + 1) |-> IF p > total THEN <<>> ELSE Joined(p, f[jump[p]])]
  BY DEF CutOf
<1>1. ASSUME NEW p \in 1..total, NEW rest \in Seq(Batches)
      PROVE  Joined(p, rest) \in Seq(Batches)
  <2>1. head[p] \in Batches
    OBVIOUS
  <2> HIDE DEF Batches
  <2>2. <<head[p]>> \in Seq(Batches)
    BY <2>1
  <2> QED BY <2>2, ConcatProperties
<1>2. <<>> \in Seq(Batches)
  OBVIOUS
<1> HIDE DEF Batches, Joined
<1>3. SUFFICES ASSUME Bad # {} PROVE FALSE
  <2>1. \A p \in 1..(total + 1) : total + 1 - p \in 0..total /\ total + 1 - (total + 1 - p) = p
    OBVIOUS
  <2>2. ASSUME Bad = {} PROVE \A n \in 0..total : f[total + 1 - n] \in Seq(Batches)
    BY <2>2
  <2> QED BY <2>1, <2>2 DEF Batches
<1>4. PICK n \in Bad : \A m \in Bad : n <= m
  <2>1. Bad \in SUBSET Nat
    OBVIOUS
  <2> HIDE DEF Bad
  <2> QED BY <2>1, <1>3, LeastNatural
<1>5. PICK p \in 1..(total + 1) : p = total + 1 - n
  BY <1>4
<1>6. f[p] \notin Seq(Batches) /\ n \in 0..total
  BY <1>4, <1>5
<1>7. f[p] = IF p > total THEN <<>> ELSE Joined(p, f[jump[p]])
  BY <1>0
<1>8. p \in 1..total
  BY <1>2, <1>6, <1>7
<1>9. PICK q \in (p + 1)..(total + 1) : q = jump[p]
  BY <1>8
<1>10. f[q] \in Seq(Batches)
  <2>1. PICK m \in 0..total : m < n /\ total + 1 - m = q
    <3>1. total + 1 - q \in 0..total /\ total + 1 - q < n /\ total + 1 - (total + 1 - q) = q
      BY <1>5, <1>6, <1>8, <1>9
    <3> QED BY <3>1
  <2>2. m \notin Bad
    <3> HIDE DEF Bad
    <3> QED BY <1>4, <1>6, <2>1
  <2> QED BY <2>1, <2>2
<1>11. f[p] = Joined(p, f[q])
  BY <1>7, <1>8, <1>9
<1> QED BY <1>1, <1>6, <1>8, <1>10, <1>11

\* Every position from p on is in one of the pieces.
Reaches(total, head, jump, batches, p) ==
  \A q \in p..total :
    \E b \in DOMAIN batches, s \in 1..total :
      batches[b] = head[s] /\ q \in s..(jump[s] - 1)

\* A cut leaves out no position.
LEMMA CutCovers ==
  ASSUME NEW total \in Nat, NEW head,
         NEW jump \in [1..total -> 1..(total + 1)], \A p \in 1..total : jump[p] > p,
         NEW f, CutOf(total, head, jump, f)
  PROVE  \A p \in 1..(total + 1) : Reaches(total, head, jump, f[p], p)
<1> DEFINE Batches == {head[q] : q \in 1..total}
           Joined(p, rest) == <<head[p]>> \o rest
           Covers(p) == \A q \in p..total :
             \E b \in DOMAIN f[p], s \in 1..total : f[p][b] = head[s] /\ q \in s..(jump[s] - 1)
           Bad == {n \in 0..total : ~Covers(total + 1 - n)}
<1>1. f = [p \in 1..(total + 1) |-> IF p > total THEN <<>> ELSE Joined(p, f[jump[p]])]
  BY DEF CutOf
<1>2. \A p \in 1..(total + 1) : f[p] \in Seq(Batches)
  BY CutElements
<1>3. ASSUME NEW p \in 1..total, NEW rest \in Seq(Batches)
      PROVE  /\ 1 \in DOMAIN Joined(p, rest) /\ Joined(p, rest)[1] = head[p]
             /\ \A b \in DOMAIN rest : b + 1 \in DOMAIN Joined(p, rest) /\ Joined(p, rest)[b + 1] = rest[b]
  <2>1. head[p] \in Batches
    OBVIOUS
  <2> HIDE DEF Batches
  <2>2. <<head[p]>> \in Seq(Batches) /\ Len(<<head[p]>>) = 1 /\ <<head[p]>>[1] = head[p]
    BY <2>1
  <2>3. /\ Joined(p, rest) \in Seq(Batches) /\ Len(Joined(p, rest)) = 1 + Len(rest)
        /\ \A b \in 1..(1 + Len(rest)) : 
             Joined(p, rest)[b] = IF b <= 1 THEN <<head[p]>>[b] ELSE rest[b - 1]
    BY <2>2, ConcatProperties
  <2> HIDE DEF Joined
  <2> QED BY <2>2, <2>3
<1> HIDE DEF Batches, Joined
<1>4. SUFFICES ASSUME Bad # {} PROVE FALSE
  <2>1. \A p \in 1..(total + 1) : total + 1 - p \in 0..total /\ total + 1 - (total + 1 - p) = p
    OBVIOUS
  <2> HIDE DEF Covers
  <2>2. ASSUME Bad = {} PROVE \A n \in 0..total : Covers(total + 1 - n)
    BY <2>2
  <2>3. ASSUME Bad = {} PROVE \A p \in 1..(total + 1) : Covers(p)
    BY <2>1, <2>2, <2>3
  <2> QED BY <2>3 DEF Covers, Reaches
<1>5. PICK n \in Bad : \A m \in Bad : n <= m
  <2>1. Bad \in SUBSET Nat
    OBVIOUS
  <2> HIDE DEF Bad
  <2> QED BY <2>1, <1>4, LeastNatural
<1>6. PICK p \in 1..(total + 1) : p = total + 1 - n /\ ~Covers(p) /\ n \in 0..total
  <2> HIDE DEF Covers
  <2> QED BY <1>5
<1>7. p \in 1..total
  BY <1>6
<1>8. PICK r \in (p + 1)..(total + 1) : r = jump[p]
  BY <1>7
<1>9. Covers(r)
  <2>1. PICK m \in 0..total : m < n /\ total + 1 - m = r
    <3>1. total + 1 - r \in 0..total /\ total + 1 - r < n /\ total + 1 - (total + 1 - r) = r
      BY <1>6, <1>7, <1>8
    <3> QED BY <3>1
  <2>2. m \notin Bad
    <3> HIDE DEF Bad
    <3> QED BY <1>5, <1>6, <2>1
  <2> HIDE DEF Covers
  <2> QED BY <2>1, <2>2
<1>10. f[p] = Joined(p, f[r]) /\ f[r] \in Seq(Batches)
  <2>1. f[p] = IF p > total THEN <<>> ELSE Joined(p, f[jump[p]])
    BY <1>1
  <2>2. f[p] = Joined(p, f[r])
    BY <2>1, <1>7, <1>8
  <2> QED BY <2>2, <1>2
<1>11. Covers(p)
  <2> SUFFICES ASSUME NEW q \in p..total
               PROVE \E b \in DOMAIN f[p], s \in 1..total :
                       f[p][b] = head[s] /\ q \in s..(jump[s] - 1)
    OBVIOUS
  <2>1. CASE q < r
    <3>1. 1 \in DOMAIN f[p] /\ f[p][1] = head[p] /\ q \in p..(jump[p] - 1)
      BY <1>3, <1>7, <1>8, <1>10, <2>1
    <3> QED BY <1>7, <3>1
  <2>2. CASE q >= r
    <3>1. q \in r..total
      BY <1>8, <2>2
    <3>2. PICK b \in DOMAIN f[r], s \in 1..total : f[r][b] = head[s] /\ q \in s..(jump[s] - 1)
      BY <1>9, <3>1
    <3>3. b + 1 \in DOMAIN f[p] /\ f[p][b + 1] = head[s]
      BY <1>3, <1>7, <1>10, <3>2
    <3> QED BY <3>2, <3>3
  <2> QED BY <1>8, <2>1, <2>2
<1> QED BY <1>6, <1>11

\* The starts of the pieces f[p] of a cut: each piece ends where the next one
\* starts or before.
Ordered(total, head, jump, batches, p, starts) ==
  /\ starts \in [1..Len(batches) -> p..total]
  /\ \A b \in 1..Len(batches) : batches[b] = head[starts[b]]
  /\ \A b, c \in 1..Len(batches) : b < c => jump[starts[b]] <= starts[c]

\* The pieces of a cut are in the order of their positions and do not overlap.
LEMMA CutOrdered ==
  ASSUME NEW total \in Nat, NEW head,
         NEW jump \in [1..total -> 1..(total + 1)], \A p \in 1..total : jump[p] > p,
         NEW f, CutOf(total, head, jump, f)
  PROVE  \A p \in 1..(total + 1) : \E starts : Ordered(total, head, jump, f[p], p, starts)
<1> DEFINE Batches == {head[q] : q \in 1..total}
           Joined(p, rest) == <<head[p]>> \o rest
           Good(p) == \E starts : Ordered(total, head, jump, f[p], p, starts)
           Bad == {n \in 0..total : ~Good(total + 1 - n)}
<1>1. f = [p \in 1..(total + 1) |-> IF p > total THEN <<>> ELSE Joined(p, f[jump[p]])]
  BY DEF CutOf
<1>2. \A p \in 1..(total + 1) : f[p] \in Seq(Batches)
  BY CutElements
<1>3. ASSUME NEW p \in 1..total, NEW rest \in Seq(Batches)
      PROVE  /\ Len(rest) \in Nat /\ Len(Joined(p, rest)) = Len(rest) + 1
             /\ \A b \in 1..(Len(rest) + 1) :
                  Joined(p, rest)[b] = IF b = 1 THEN head[p] ELSE rest[b - 1]
  <2>1. head[p] \in Batches
    OBVIOUS
  <2> HIDE DEF Batches
  <2>2. <<head[p]>> \in Seq(Batches) /\ Len(<<head[p]>>) = 1 /\ <<head[p]>>[1] = head[p]
    BY <2>1
  <2>3. /\ Len(Joined(p, rest)) = 1 + Len(rest)
        /\ \A b \in 1..(1 + Len(rest)) :
             Joined(p, rest)[b] = IF b <= 1 THEN <<head[p]>>[b] ELSE rest[b - 1]
    BY <2>2, ConcatProperties
  <2> HIDE DEF Joined
  <2> QED BY <2>2, <2>3
<1> HIDE DEF Batches, Joined
<1>4. SUFFICES ASSUME Bad # {} PROVE FALSE
  <2>1. \A p \in 1..(total + 1) : total + 1 - p \in 0..total /\ total + 1 - (total + 1 - p) = p
    OBVIOUS
  <2> HIDE DEF Good
  <2>2. ASSUME Bad = {} PROVE \A n \in 0..total : Good(total + 1 - n)
    BY <2>2
  <2>3. ASSUME Bad = {} PROVE \A p \in 1..(total + 1) : Good(p)
    BY <2>1, <2>2, <2>3
  <2> QED BY <2>3 DEF Good
<1>5. PICK n \in Bad : \A m \in Bad : n <= m
  <2>1. Bad \in SUBSET Nat
    OBVIOUS
  <2> HIDE DEF Bad
  <2> QED BY <2>1, <1>4, LeastNatural
<1>6. PICK p \in 1..(total + 1) : p = total + 1 - n /\ ~Good(p) /\ n \in 0..total
  <2> HIDE DEF Good
  <2> QED BY <1>5
<1> HIDE DEF Good, Bad
<1>7. f[p] = IF p > total THEN <<>> ELSE Joined(p, f[jump[p]])
  BY <1>1
<1>8. p \in 1..total
  <2>1. CASE p = total + 1
    <3>1. f[p] = <<>>
      BY <1>7, <2>1
    <3>2. Ordered(total, head, jump, <<>>, p, <<>>)
      BY DEF Ordered
    <3> QED BY <1>6, <3>1, <3>2 DEF Good
  <2> QED BY <2>1
<1>9. PICK r \in (p + 1)..(total + 1) : r = jump[p]
  BY <1>8
<1>10. Good(r)
  <2>1. PICK m \in 0..total : m < n /\ total + 1 - m = r
    <3>1. total + 1 - r \in 0..total /\ total + 1 - r < n /\ total + 1 - (total + 1 - r) = r
      BY <1>6, <1>8, <1>9
    <3> QED BY <3>1
  <2>2. m \notin Bad
    BY <1>5, <1>6, <2>1
  <2> QED BY <2>1, <2>2 DEF Bad
<1>11. PICK rest \in Seq(Batches) : rest = f[r] /\ f[p] = Joined(p, rest)
  BY <1>2, <1>7, <1>8, <1>9
<1>12. PICK later : Ordered(total, head, jump, rest, r, later)
  BY <1>10, <1>11 DEF Good
<1>13. /\ Len(rest) \in Nat /\ Len(f[p]) = Len(rest) + 1
       /\ \A b \in 1..(Len(rest) + 1) : f[p][b] = IF b = 1 THEN head[p] ELSE rest[b - 1]
  BY <1>3, <1>8, <1>11
<1> DEFINE starts == [b \in 1..(Len(rest) + 1) |-> IF b = 1 THEN p ELSE later[b - 1]]
<1>14. \A b \in 1..(Len(rest) + 1) :
         \/ b = 1 /\ starts[b] = p
         \/ b - 1 \in 1..Len(rest) /\ starts[b] = later[b - 1] /\ later[b - 1] \in r..total
  <2> TAKE b \in 1..(Len(rest) + 1)
  <2>1. b = 1 \/ b - 1 \in 1..Len(rest)
    BY <1>13
  <2>2. later \in [1..Len(rest) -> r..total]
    BY <1>12 DEF Ordered
  <2>3. starts[b] = IF b = 1 THEN p ELSE later[b - 1]
    OBVIOUS
  <2> HIDE DEF starts
  <2> QED BY <1>13, <2>1, <2>2, <2>3
<1>15. starts \in [1..(Len(rest) + 1) -> p..total]
  <2>1. \A b \in 1..(Len(rest) + 1) : starts[b] \in p..total
    BY <1>8, <1>9, <1>14
  <2> QED BY <2>1
<1>16. \A b \in 1..(Len(rest) + 1) : f[p][b] = head[starts[b]]
  BY <1>12, <1>13, <1>14 DEF Ordered
<1>17. ASSUME NEW b \in 1..(Len(rest) + 1), NEW c \in 1..(Len(rest) + 1), b < c
       PROVE  jump[starts[b]] <= starts[c]
  <2>1. c - 1 \in 1..Len(rest) /\ starts[c] = later[c - 1] /\ later[c - 1] \in r..total
    BY <1>14, <1>17
  <2>2. CASE b = 1
    BY <1>9, <1>14, <2>1, <2>2
  <2>3. CASE b # 1
    <3>1. b - 1 \in 1..Len(rest) /\ starts[b] = later[b - 1] /\ b - 1 < c - 1
      BY <1>14, <1>17, <2>3
    <3> QED BY <1>12, <2>1, <3>1 DEF Ordered
  <2> QED BY <2>2, <2>3
<1> HIDE DEF starts
<1> QED BY <1>6, <1>13, <1>15, <1>16, <1>17 DEF Ordered, Good

-----------------------------------------------------------------------------
\* The loop of rebatch_input cuts the sorted examples, with the sizes that
\* get_next chooses.
LEMMA RebatchIsCut ==
  ASSUME NEW examples, Len(examples) \in Nat, NEW order, NEW max_batch_size, NEW type
  PROVE  \E counts : CutBy(examples, order, Rebatch(examples, order, max_batch_size, type), counts)
<1> DEFINE total == Len(examples)
           max == IF max_batch_size = 0 THEN total ELSE max_batch_size
           kind == IF max_batch_size = 0 THEN "examples" ELSE type
           sorted == [i \in 1..total |-> examples[order[i]]]
           from[first \in 1..(total + 1)] ==
             IF first > total THEN <<>>
             ELSE LET count == BatchLength(SubSeq(sorted, first, total), max, kind, TRUE)
                  IN <<BatchAt(examples, order, first, count)>> \o from[first + count]
           count(first) == BatchLength(SubSeq(sorted, first, total), max, kind, TRUE)
           head == [first \in 1..total |-> BatchAt(examples, order, first, count(first))]
           jump == [first \in 1..total |-> first + count(first)]
<1>1. Rebatch(examples, order, max_batch_size, type) = from[1]
  BY DEF Rebatch
<1>2. \A first \in 1..total : count(first) \in 1..(total + 1 - first)
  <2> TAKE first \in 1..total
  <2>1. Len(SubSeq(sorted, first, total)) = total + 1 - first
    OBVIOUS
  <2> HIDE DEF max, kind, sorted
  <2>2. total + 1 - first \in Nat \ {0}
    OBVIOUS
  <2> QED BY <2>1, <2>2, BatchLengthRange
<1> HIDE DEF max, kind, sorted
<1>3. \A f : CutOf(total, head, jump, f) <=>
             f = [first \in 1..(total + 1) |->
                    IF first > total THEN <<>>
                    ELSE LET c == count(first)
                         IN <<BatchAt(examples, order, first, c)>> \o f[first + c]]
  <2> TAKE f
  <2> DEFINE L(p) == IF p > total THEN <<>> ELSE <<head[p]>> \o f[jump[p]]
             R(p) == IF p > total THEN <<>> 
                     ELSE <<BatchAt(examples, order, p, count(p))>> \o f[p + count(p)]
  <2> HIDE DEF count
  <2>1. ASSUME NEW p \in 1..(total + 1) PROVE L(p) = R(p)
    <3>1. CASE p > total
      BY <3>1
    <3>2. CASE ~(p > total)
      <4>1. head[p] = BatchAt(examples, order, p, count(p)) /\ jump[p] = p + count(p)
        BY <3>2
      <4> HIDE DEF head, jump
      <4> QED BY <3>2, <4>1
    <3> QED BY <3>1, <3>2
  <2>2. [p \in 1..(total + 1) |-> L(p)] = [p \in 1..(total + 1) |-> R(p)]
    <3> HIDE DEF L, R
    <3> QED BY <2>1
  <2> QED BY <2>2 DEF CutOf
<1>4. jump \in [1..total -> 1..(total + 1)] /\ \A p \in 1..total : jump[p] > p
  <2> HIDE DEF count
  <2> QED BY <1>2
<1>5. \E f : CutOf(total, head, jump, f)
  <2> HIDE DEF head, jump
  <2> QED BY <1>4, CutExists
<1>6. CutOf(total, head, jump, from)
  <2> HIDE DEF head, jump
  <2> QED BY <1>3, <1>5
<1> HIDE DEF from
<1>7. PICK counts \in [1..total -> 1..total] :
        /\ \A first \in 1..total : first + counts[first] - 1 <= total
        /\ head = [first \in 1..total |-> BatchAt(examples, order, first, counts[first])]
        /\ jump = [first \in 1..total |-> first + counts[first]]
  <2> DEFINE counts == [first \in 1..total |-> count(first)]
  <2> HIDE DEF count
  <2>1. counts \in [1..total -> 1..total] /\ \A first \in 1..total : first + counts[first] - 1 <= total
    BY <1>2
  <2>2. \A first \in 1..total : counts[first] = count(first)
    OBVIOUS
  <2> HIDE DEF counts
  <2>3. head = [first \in 1..total |-> BatchAt(examples, order, first, counts[first])]
    BY <2>2
  <2>4. jump = [first \in 1..total |-> first + counts[first]]
    BY <2>2
  <2> QED BY <2>1, <2>3, <2>4
<1> HIDE DEF head, jump
<1> QED BY <1>1, <1>6, <1>7 DEF total, CutBy, Heads, Jumps


\* Each batch starts after the one before it.
LEMMA JumpsForward ==
  ASSUME NEW examples, Len(examples) \in Nat, NEW order, NEW batches, NEW counts,
         CutBy(examples, order, batches, counts)
  PROVE  /\ Jumps(examples, counts) \in [1..Len(examples) -> 1..(Len(examples) + 1)]
         /\ \A p \in 1..Len(examples) : Jumps(examples, counts)[p] > p
<1>1. \A p \in 1..Len(examples) :
        counts[p] \in 1..Len(examples) /\ p + counts[p] - 1 <= Len(examples)
  BY DEF CutBy
<1> QED BY <1>1 DEF Jumps

\* In every batch, example_index names the examples of that batch in their
\* order: post_examples and translate_batch find promises and results by it,
\* whatever the sort did (rebatch_input).
THEOREM BatchesCarryTheirIndex ==
  ASSUME NEW examples, Len(examples) \in Nat, DOMAIN examples = 1..Len(examples),
         NEW order \in SortedOrders(examples), NEW max_batch_size, NEW type
  PROVE  LET batches == Rebatch(examples, order, max_batch_size, type) IN
         /\ DOMAIN batches = 1..Len(batches) /\ Len(batches) \in Nat
         /\ \A b \in DOMAIN batches :
              /\ batches[b].example_index \in Seq(DOMAIN examples)
              /\ DOMAIN batches[b].examples = DOMAIN batches[b].example_index
              /\ \A k \in DOMAIN batches[b].example_index :
                   /\ batches[b].example_index[k] \in DOMAIN examples
                   /\ batches[b].examples[k] = examples[batches[b].example_index[k]]
<1> DEFINE total == Len(examples)
           batches == Rebatch(examples, order, max_batch_size, type)
<1>1. PICK counts : CutBy(examples, order, batches, counts)
  BY RebatchIsCut
<1> DEFINE head == Heads(examples, order, counts)
           jump == Jumps(examples, counts)
<1>2. batches \in Seq({head[q] : q \in 1..total})
  <2>1. jump \in [1..total -> 1..(total + 1)] /\ \A p \in 1..total : jump[p] > p
    BY <1>1, JumpsForward
  <2>2. 1 \in 1..(total + 1)
    OBVIOUS
  <2>3. PICK f : CutOf(total, head, jump, f) /\ batches = f[1]
    BY <1>1 DEF CutBy
  <2> HIDE DEF head, jump, batches
  <2> QED BY <2>1, <2>2, <2>3, CutElements
<1>3. order \in [1..total -> 1..total]
  BY DEF SortedOrders
<1> HIDE DEF batches, total
<1>4. ASSUME NEW b \in DOMAIN batches
      PROVE  /\ batches[b].example_index \in Seq(DOMAIN examples)
             /\ DOMAIN batches[b].examples = DOMAIN batches[b].example_index
             /\ \A k \in DOMAIN batches[b].example_index :
                  /\ batches[b].example_index[k] \in DOMAIN examples
                  /\ batches[b].examples[k] = examples[batches[b].example_index[k]]
  <2>1. PICK q \in 1..total : batches[b] = head[q]
    BY <1>2
  <2>2. batches[b] = BatchAt(examples, order, q, counts[q])
    BY <2>1 DEF Heads, total
  <2>3. PICK n \in 1..total : n = counts[q]
    BY <1>1 DEF CutBy, total
  <2>4. \A k \in 1..n : q + k - 1 \in 1..total
    BY <1>1, <2>3 DEF CutBy, total
  <2>5. batches[b].example_index = [k \in 1..n |-> order[q + k - 1]]
    BY <2>2, <2>3 DEF BatchAt
  <2>6. batches[b].examples = [k \in 1..n |-> examples[order[q + k - 1]]]
    BY <2>2, <2>3 DEF BatchAt
  <2>7. \A k \in 1..n : order[q + k - 1] \in DOMAIN examples
    BY <1>3, <2>4 DEF total
  <2>8. batches[b].example_index \in Seq(DOMAIN examples)
    BY <2>5, <2>7
  <2> QED BY <2>5, <2>6, <2>7, <2>8
<1> QED BY <1>2, <1>4 DEF batches

\* The batches are sequences of examples of the input, and of their indices.
LEMMA RebatchType ==
  ASSUME NEW S, NEW examples \in Seq(S),
         NEW order \in SortedOrders(examples), NEW max_batch_size, NEW type
  PROVE  Rebatch(examples, order, max_batch_size, type)
           \in Seq([examples : Seq(S), example_index : Seq(Nat)])
<1> DEFINE total == Len(examples)
           batches == Rebatch(examples, order, max_batch_size, type)
           Pieces == [examples : Seq(S), example_index : Seq(Nat)]
<1>0. Len(examples) \in Nat /\ DOMAIN examples = 1..Len(examples)
      /\ examples \in [1..Len(examples) -> S]
  OBVIOUS
<1>1. PICK counts : CutBy(examples, order, batches, counts)
  BY <1>0, RebatchIsCut
<1> DEFINE head == Heads(examples, order, counts)
           jump == Jumps(examples, counts)
<1>2. batches \in Seq({head[q] : q \in 1..total})
  <2>1. jump \in [1..total -> 1..(total + 1)] /\ \A p \in 1..total : jump[p] > p
    BY <1>0, <1>1, JumpsForward
  <2>2. 1 \in 1..(total + 1) /\ total \in Nat
    BY <1>0
  <2>3. PICK f : CutOf(total, head, jump, f) /\ batches = f[1]
    BY <1>1 DEF CutBy
  <2> HIDE DEF head, jump, batches
  <2> QED BY <2>1, <2>2, <2>3, CutElements
<1>3. order \in [1..total -> 1..total]
  BY <1>0 DEF SortedOrders
<1>4. ASSUME NEW q \in 1..total PROVE head[q] \in Pieces
  <2>1. PICK n \in 1..total : n = counts[q]
    BY <1>1 DEF CutBy
  <2>2. \A k \in 1..n : q + k - 1 \in 1..total
    BY <1>1, <2>1 DEF CutBy
  <2>3. head[q] = [examples |-> [k \in 1..n |-> examples[order[q + k - 1]]],
                   example_index |-> [k \in 1..n |-> order[q + k - 1]]]
    BY <2>1 DEF Heads, BatchAt
  <2>4. \A k \in 1..n : order[q + k - 1] \in 1..total /\ examples[order[q + k - 1]] \in S
    BY <1>0, <1>3, <2>2
  <2>5. /\ [k \in 1..n |-> examples[order[q + k - 1]]] \in Seq(S)
        /\ [k \in 1..n |-> order[q + k - 1]] \in Seq(Nat)
    <3> DEFINE index(k) == order[q + k - 1]
               example(k) == examples[index(k)]
    <3>1. n \in Nat /\ \A k \in 1..n : index(k) \in Nat /\ example(k) \in S
      BY <1>0, <2>4
    <3> HIDE DEF index, example
    <3>2. [k \in 1..n |-> example(k)] \in Seq(S) /\ [k \in 1..n |-> index(k)] \in Seq(Nat)
      BY <3>1
    <3> QED BY <3>2 DEF index, example
  <2> QED BY <2>3, <2>5
<1>5. {head[q] : q \in 1..total} \subseteq Pieces
  BY <1>4
<1> HIDE DEF batches, head, Pieces
<1>6. batches \in Seq(Pieces)
  BY <1>2, <1>5, SeqMonotonic
<1> QED BY <1>6 DEF batches, Pieces

\* Every example of the input is in some batch, so every promise is set
\* (rebatch_input, the offset into example_index).
THEOREM EveryExampleBatched ==
  ASSUME NEW examples, Len(examples) \in Nat, DOMAIN examples = 1..Len(examples),
         NEW order \in SortedOrders(examples), NEW max_batch_size, NEW type,
         NEW i \in DOMAIN examples
  PROVE  LET batches == Rebatch(examples, order, max_batch_size, type) IN
         \E b \in DOMAIN batches : \E k \in DOMAIN batches[b].example_index :
           batches[b].example_index[k] = i
<1> DEFINE total == Len(examples)
           batches == Rebatch(examples, order, max_batch_size, type)
<1>1. PICK counts : CutBy(examples, order, batches, counts)
  BY RebatchIsCut
<1> DEFINE head == Heads(examples, order, counts)
           jump == Jumps(examples, counts)
<1>2. \A q \in 1..total :
        \E b \in DOMAIN batches, s \in 1..total : batches[b] = head[s] /\ q \in s..(jump[s] - 1)
  <2>1. jump \in [1..total -> 1..(total + 1)] /\ \A p \in 1..total : jump[p] > p
    BY <1>1, JumpsForward
  <2>2. 1 \in 1..(total + 1)
    OBVIOUS
  <2>3. PICK f : CutOf(total, head, jump, f) /\ batches = f[1]
    BY <1>1 DEF CutBy
  <2> HIDE DEF head, jump, batches
  <2>4. Reaches(total, head, jump, f[1], 1)
    BY <2>1, <2>2, <2>3, CutCovers
  <2> QED BY <2>3, <2>4 DEF Reaches
<1>3. PICK q \in 1..total : order[q] = i
  <2>1. order \in Injection(1..total, 1..total)
    BY DEF SortedOrders, Injection, IsInjective
  <2>2. IsFiniteSet(1..total)
    BY FS_Interval
  <2>3. order \in Surjection(1..total, 1..total)
    BY <2>1, <2>2, FS_Injection
  <2> QED BY <2>3 DEF Surjection
<1> HIDE DEF batches
<1>4. PICK b \in DOMAIN batches, s \in 1..total : batches[b] = head[s] /\ q \in s..(jump[s] - 1)
  BY <1>2
<1>5. batches[b] = BatchAt(examples, order, s, counts[s]) /\ jump[s] = s + counts[s]
  BY <1>4 DEF Heads, Jumps
<1>6. q - s + 1 \in 1..counts[s] /\ s + (q - s + 1) - 1 = q
  <2>1. counts[s] \in 1..total
    BY <1>1 DEF CutBy
  <2> QED BY <1>4, <1>5, <2>1
<1>7. q - s + 1 \in DOMAIN batches[b].example_index
      /\ batches[b].example_index[q - s + 1] = i
  BY <1>3, <1>5, <1>6 DEF BatchAt
<1> QED BY <1>7 DEF batches

\* No batch is empty, and no example is in two batches or twice in one: no
\* promise is moved into two batches and set twice (rebatch_input).
THEOREM EachExampleOnce ==
  ASSUME NEW examples, Len(examples) \in Nat, DOMAIN examples = 1..Len(examples),
         NEW order \in SortedOrders(examples), NEW max_batch_size, NEW type
  PROVE  LET batches == Rebatch(examples, order, max_batch_size, type) IN
         /\ \A b \in DOMAIN batches : 1 \in DOMAIN batches[b].example_index
         /\ \A b, c \in DOMAIN batches :
              \A k \in DOMAIN batches[b].example_index, l \in DOMAIN batches[c].example_index :
                batches[b].example_index[k] = batches[c].example_index[l] => b = c /\ k = l
<1> DEFINE total == Len(examples)
           batches == Rebatch(examples, order, max_batch_size, type)
<1>1. PICK counts : CutBy(examples, order, batches, counts)
  BY RebatchIsCut
<1> DEFINE head == Heads(examples, order, counts)
           jump == Jumps(examples, counts)
<1>2. PICK starts : Ordered(total, head, jump, batches, 1, starts)
  <2>1. jump \in [1..total -> 1..(total + 1)] /\ \A p \in 1..total : jump[p] > p
    BY <1>1, JumpsForward
  <2>2. 1 \in 1..(total + 1)
    OBVIOUS
  <2>3. PICK f : CutOf(total, head, jump, f) /\ batches = f[1]
    BY <1>1 DEF CutBy
  <2> HIDE DEF head, jump, batches
  <2> QED BY <2>1, <2>2, <2>3, CutOrdered
<1>3. DOMAIN batches = 1..Len(batches) /\ Len(batches) \in Nat
  BY BatchesCarryTheirIndex
<1> HIDE DEF batches
<1>4. \A b \in DOMAIN batches : starts[b] \in 1..total /\ counts[starts[b]] \in 1..total
  BY <1>1, <1>2, <1>3 DEF Ordered, CutBy
<1>5. ASSUME NEW b \in DOMAIN batches
      PROVE  /\ DOMAIN batches[b].example_index = 1..counts[starts[b]]
             /\ \A k \in 1..counts[starts[b]] :
                  /\ starts[b] + k - 1 \in 1..total
                  /\ batches[b].example_index[k] = order[starts[b] + k - 1]
  <2>1. PICK s \in 1..total : s = starts[b] /\ counts[s] \in 1..total
    BY <1>4
  <2>2. batches[b] = BatchAt(examples, order, s, counts[s])
    BY <1>2, <1>3, <2>1 DEF Ordered, Heads
  <2>3. s + counts[s] - 1 <= total
    BY <1>1 DEF CutBy
  <2> QED BY <2>1, <2>2, <2>3 DEF BatchAt
<1>6. \A p, q \in 1..total : order[p] = order[q] => p = q
  BY DEF SortedOrders
<1>7. ASSUME NEW b \in DOMAIN batches, NEW c \in DOMAIN batches, b < c,
             NEW k \in 1..counts[starts[b]], NEW l \in 1..counts[starts[c]]
      PROVE  starts[b] + k - 1 # starts[c] + l - 1
  <2>1. jump[starts[b]] <= starts[c]
    BY <1>2, <1>3, <1>7 DEF Ordered
  <2>2. jump[starts[b]] = starts[b] + counts[starts[b]]
    BY <1>4 DEF Jumps
  <2> QED BY <1>4, <2>1, <2>2
<1>8. ASSUME NEW b \in DOMAIN batches, NEW c \in DOMAIN batches,
             NEW k \in DOMAIN batches[b].example_index, NEW l \in DOMAIN batches[c].example_index,
             batches[b].example_index[k] = batches[c].example_index[l]
      PROVE  b = c /\ k = l
  <2>1. k \in 1..counts[starts[b]] /\ l \in 1..counts[starts[c]]
    BY <1>5
  <2>2. starts[b] + k - 1 = starts[c] + l - 1
    BY <1>5, <1>6, <1>8, <2>1
  <2>3. ~(b < c) /\ ~(c < b)
    BY <1>7, <2>1, <2>2
  <2>4. b = c
    BY <1>3, <2>3
  <2> QED BY <1>4, <2>1, <2>2, <2>4
<1>9. \A b \in DOMAIN batches : 1 \in DOMAIN batches[b].example_index
  BY <1>4, <1>5
<1> QED BY <1>8, <1>9 DEF batches

-----------------------------------------------------------------------------
(* FlattenSeq of the community modules, a recursive function over positions. *)

\* f[i] is the concatenation of the first i sequences.
Flattens(seqs, f) ==
  f = [i \in 1..Len(seqs) |-> IF i = 1 THEN seqs[i] ELSE f[i - 1] \o seqs[i]]

\* The recursive definition defines a function.
LEMMA FlattenExists ==
  ASSUME NEW seqs, Len(seqs) \in Nat
  PROVE  \E f : Flattens(seqs, f)
<1> DEFINE Joined(i, before) == before \o seqs[i]
           Part(n, f) == f = [i \in 1..n |-> IF i = 1 THEN seqs[i] ELSE Joined(i, f[i - 1])]
           Missing == {n \in 0..Len(seqs) : ~ \E f : Part(n, f)}
<1> HIDE DEF Joined
<1>1. ASSUME NEW n \in 0..(Len(seqs) - 1), NEW g, Part(n, g)
      PROVE  \E f : Part(n + 1, f)
  <2> DEFINE h == [i \in 1..(n + 1) |->
                     IF i = n + 1 THEN IF i = 1 THEN seqs[i] ELSE Joined(i, g[i - 1]) ELSE g[i]]
  <2>1. \A i \in 1..n : h[i] = g[i]
    OBVIOUS
  <2>2. ASSUME NEW i \in 1..(n + 1)
        PROVE  h[i] = IF i = 1 THEN seqs[i] ELSE Joined(i, h[i - 1])
    <3>1. i = 1 \/ i - 1 \in 1..n
      OBVIOUS
    <3>2. CASE i = n + 1
      BY <2>1, <3>1, <3>2
    <3>3. CASE i # n + 1
      <4>1. i \in 1..n
        BY <3>3
      <4>2. g[i] = IF i = 1 THEN seqs[i] ELSE Joined(i, g[i - 1])
        BY <1>1, <4>1
      <4> HIDE DEF h
      <4> QED BY <2>1, <3>1, <4>1, <4>2
    <3> QED BY <3>2, <3>3
  <2>3. h = [i \in 1..(n + 1) |-> h[i]]
    OBVIOUS
  <2> HIDE DEF h
  <2>4. Part(n + 1, h)
    BY <2>2, <2>3
  <2> QED BY <2>4
<1>2. \E f : Part(0, f)
  <2>1. Part(0, [i \in 1..0 |-> seqs])
    OBVIOUS
  <2> QED BY <2>1
<1>3. \A n \in 0..Len(seqs) : \E f : Part(n, f)
  <2> HIDE DEF Part
  <2>1. SUFFICES ASSUME Missing # {} PROVE FALSE
    OBVIOUS
  <2>2. Missing \in SUBSET Nat
    OBVIOUS
  <2>3. PICK n \in Missing : \A m \in Missing : n <= m
    <3> HIDE DEF Missing
    <3> QED BY <2>1, <2>2, LeastNatural
  <2>4. n \in 0..Len(seqs) /\ n # 0 /\ ~ \E f : Part(n, f)
    BY <2>3, <1>2
  <2>5. n - 1 \in 0..(Len(seqs) - 1) /\ n - 1 \notin Missing /\ (n - 1) + 1 = n
    <3>1. n - 1 \in 0..(Len(seqs) - 1) /\ (n - 1) + 1 = n /\ ~(n <= n - 1)
      BY <2>4
    <3>2. n - 1 \notin Missing
      <4> HIDE DEF Missing
      <4> QED BY <2>3, <3>1
    <3> QED BY <3>1, <3>2
  <2>6. PICK g : Part(n - 1, g)
    BY <2>5
  <2>7. \E f : Part((n - 1) + 1, f)
    BY <1>1, <2>5, <2>6
  <2> QED BY <2>4, <2>5, <2>7
<1>4. PICK f : Part(Len(seqs), f)
  BY <1>3
<1> QED BY <1>4 DEF Joined, Flattens

\* Whatever comes later, the concatenations of the first n are the same.
LEMMA FlattenPrefix ==
  ASSUME NEW s, NEW t, NEW f, NEW g, NEW n \in Nat,
         Len(s) \in Nat, Len(t) \in Nat, n <= Len(s), n <= Len(t),
         \A i \in 1..n : s[i] = t[i],
         Flattens(s, f), Flattens(t, g)
  PROVE  \A i \in 1..n : f[i] = g[i]
<1> DEFINE Differ == {i \in 1..n : f[i] # g[i]}
<1>1. SUFFICES ASSUME Differ # {} PROVE FALSE
  OBVIOUS
<1>2. PICK i \in Differ : \A k \in Differ : i <= k
  <2>1. Differ \in SUBSET Nat
    OBVIOUS
  <2> HIDE DEF Differ
  <2> QED BY <1>1, <2>1, LeastNatural
<1>3. i \in 1..n /\ f[i] # g[i]
  BY <1>2
<1>4. /\ f[i] = IF i = 1 THEN s[i] ELSE f[i - 1] \o s[i]
      /\ g[i] = IF i = 1 THEN t[i] ELSE g[i - 1] \o t[i]
  <2>1. i \in 1..Len(s) /\ i \in 1..Len(t)
    BY <1>3
  <2> QED BY <2>1 DEF Flattens
<1>5. i # 1
  BY <1>3, <1>4
<1>6. i - 1 \in 1..n /\ f[i - 1] = g[i - 1]
  <2>1. i - 1 \in 1..n /\ ~(i <= i - 1)
    BY <1>3, <1>5
  <2>2. i - 1 \notin Differ
    <3> HIDE DEF Differ
    <3> QED BY <1>2, <2>1
  <2> QED BY <2>1, <2>2
<1> QED BY <1>3, <1>4, <1>5, <1>6

\* What FlattenSeq is: the last of the concatenations.
LEMMA FlattenLast ==
  ASSUME NEW seqs, Len(seqs) \in Nat \ {0}
  PROVE  \E f : Flattens(seqs, f) /\ FlattenSeq(seqs) = f[Len(seqs)]
<1> DEFINE flatten == CHOOSE f : Flattens(seqs, f)
<1>1. Flattens(seqs, flatten)
  BY FlattenExists
<1>2. FlattenSeq(seqs) = flatten[Len(seqs)]
  BY DEF FlattenSeq, Flattens
<1> HIDE DEF flatten
<1> QED BY <1>1, <1>2

\* With one sequence more, the concatenation gets it at its end.
LEMMA FlattenMore ==
  ASSUME NEW seqs, NEW more, Len(seqs) \in Nat, Len(more) = Len(seqs) + 1,
         \A i \in 1..Len(seqs) : seqs[i] = more[i]
  PROVE  FlattenSeq(more) = IF Len(seqs) = 0 THEN more[1]
                            ELSE FlattenSeq(seqs) \o more[Len(seqs) + 1]
<1>1. PICK g : Flattens(more, g) /\ FlattenSeq(more) = g[Len(more)]
  <2>1. Len(more) \in Nat \ {0}
    OBVIOUS
  <2> QED BY ONLY <2>1, FlattenLast
<1>2. Len(more) \in 1..Len(more) /\ Len(more) - 1 = Len(seqs) /\ (Len(more) = 1 <=> Len(seqs) = 0)
  OBVIOUS
<1>3. g[Len(more)] = IF Len(more) = 1 THEN more[Len(more)] ELSE g[Len(more) - 1] \o more[Len(more)]
  BY <1>1, <1>2 DEF Flattens
<1>4. ASSUME Len(seqs) # 0 PROVE FlattenSeq(seqs) = g[Len(seqs)]
  <2>1. PICK f : Flattens(seqs, f) /\ FlattenSeq(seqs) = f[Len(seqs)]
    BY <1>4, FlattenLast
  <2>2. PICK n \in Nat : n = Len(seqs)
    OBVIOUS
  <2>3. /\ n <= Len(more) /\ Len(more) \in Nat /\ n <= Len(seqs) /\ Len(seqs) \in Nat
        /\ \A i \in 1..n : seqs[i] = more[i]
    BY <2>2
  <2>4. \A i \in 1..n : f[i] = g[i]
    BY ONLY <1>1, <2>1, <2>3, FlattenPrefix
  <2> QED BY <1>4, <2>1, <2>2, <2>4
<1> QED BY <1>1, <1>2, <1>3, <1>4

\* FlattenSeq and Append (the batches that BatchReader::get_next returned).
LEMMA FlattenAppend ==
  ASSUME NEW S, NEW seqs \in Seq(Seq(S)), NEW x \in Seq(S)
  PROVE  FlattenSeq(Append(seqs, x)) = FlattenSeq(seqs) \o x
<1> DEFINE T == Seq(S)
           more == Append(seqs, x)
<1>1. FlattenSeq(<<>>) = <<>>
  BY DEF FlattenSeq
<1>2. /\ Len(seqs) \in Nat /\ Len(more) = Len(seqs) + 1 /\ more[Len(seqs) + 1] = x
      /\ \A i \in 1..Len(seqs) : seqs[i] = more[i]
  <2>1. seqs \in Seq(T) /\ x \in T
    OBVIOUS
  <2> HIDE DEF T
  <2> QED BY <2>1
<1> HIDE DEF more
<1>3. FlattenSeq(more) = IF Len(seqs) = 0 THEN more[1] ELSE FlattenSeq(seqs) \o more[Len(seqs) + 1]
  BY ONLY <1>2, FlattenMore
<1>4. CASE Len(seqs) = 0
  <2>1. seqs = <<>> /\ <<>> \o x = x
    BY <1>4
  <2> QED BY <1>1, <1>2, <1>3, <1>4, <2>1 DEF more
<1>5. CASE Len(seqs) # 0
  BY <1>1, <1>2, <1>3, <1>5 DEF more
<1> QED BY <1>4, <1>5

-----------------------------------------------------------------------------
(* MapThenSumSet of the community modules, a recursive function over sets. *)

\* f[s] is the sum of the weights of the members of s.
SumsUp(weight, set, f) ==
  f = [s \in SUBSET set |->
         IF s = {} THEN 0
         ELSE weight[CHOOSE x \in s : TRUE] + f[s \ {CHOOSE x \in s : TRUE}]]

\* The recursive definition defines a function.
LEMMA SumsExist ==
  ASSUME NEW weight, NEW set, IsFiniteSet(set)
  PROVE  \E f : SumsUp(weight, set, f)
<1> DEFINE Pick(s) == CHOOSE x \in s : TRUE
           Add(s, rest) == weight[Pick(s)] + rest
           Small(n) == {s \in SUBSET set : Cardinality(s) <= n}
           Part(n, f) == f = [s \in Small(n) |-> IF s = {} THEN 0 ELSE Add(s, f[s \ {Pick(s)}])]
           Missing == {n \in 0..Cardinality(set) : ~ \E f : Part(n, f)}
<1>1. Cardinality(set) \in Nat
  BY FS_CardinalityType
<1>2. ASSUME NEW s \in SUBSET set
      PROVE  Cardinality(s) \in Nat /\ IsFiniteSet(s) /\ Cardinality(s) <= Cardinality(set)
             /\ (Cardinality(s) = 0 <=> s = {})
  BY FS_Subset, FS_CardinalityType, FS_EmptySet
<1>3. ASSUME NEW s \in SUBSET set, s # {}
      PROVE  s \ {Pick(s)} \in SUBSET set /\ Cardinality(s \ {Pick(s)}) = Cardinality(s) - 1
  <2>1. Pick(s) \in s
    BY <1>3
  <2> HIDE DEF Pick
  <2> QED BY <2>1, <1>2, FS_RemoveElement
<1> HIDE DEF Pick, Add
<1>4. ASSUME NEW n \in Nat, NEW g, Part(n, g)
      PROVE  \E f : Part(n + 1, f)
  <2> DEFINE h == [s \in Small(n + 1) |-> IF s = {} THEN 0 ELSE Add(s, g[s \ {Pick(s)}])]
  <2>1. ASSUME NEW s \in Small(n) PROVE h[s] = g[s]
    <3>1. s \in Small(n + 1)
      BY <1>2
    <3>2. h[s] = IF s = {} THEN 0 ELSE Add(s, g[s \ {Pick(s)}])
      BY <3>1
    <3>3. g[s] = IF s = {} THEN 0 ELSE Add(s, g[s \ {Pick(s)}])
      BY <1>4
    <3> QED BY <3>2, <3>3
  <2>2. ASSUME NEW s \in Small(n + 1), s # {} PROVE s \ {Pick(s)} \in Small(n)
    BY <1>2, <1>3, <2>2
  <2>3. \A s \in Small(n + 1) : h[s] = IF s = {} THEN 0 ELSE Add(s, g[s \ {Pick(s)}])
    OBVIOUS
  <2>4. h = [s \in Small(n + 1) |-> h[s]]
    OBVIOUS
  <2> HIDE DEF h, Small
  <2>5. \A s \in Small(n + 1) : h[s] = IF s = {} THEN 0 ELSE Add(s, h[s \ {Pick(s)}])
    BY <2>1, <2>2, <2>3
  <2>6. Part(n + 1, h)
    BY <2>4, <2>5
  <2> QED BY <2>6
<1>5. \E f : Part(0, f)
  <2> DEFINE h == [s \in Small(0) |-> 0]
  <2>1. \A s \in Small(0) : s = {}
    BY <1>2
  <2>2. Part(0, h)
    BY <2>1
  <2> QED BY <2>2
<1> HIDE DEF Part
<1>6. \A n \in 0..Cardinality(set) : \E f : Part(n, f)
  <2>1. SUFFICES ASSUME Missing # {} PROVE FALSE
    OBVIOUS
  <2>2. Missing \in SUBSET Nat
    BY <1>1
  <2>3. PICK n \in Missing : \A m \in Missing : n <= m
    <3> HIDE DEF Missing
    <3> QED BY <2>1, <2>2, LeastNatural
  <2>4. n \in 0..Cardinality(set) /\ n # 0 /\ ~ \E f : Part(n, f)
    BY <2>3, <1>5
  <2>5. n - 1 \in 0..Cardinality(set) /\ (n - 1) + 1 = n /\ ~(n <= n - 1) /\ n - 1 \in Nat
    BY <1>1, <2>4
  <2>6. n - 1 \notin Missing
    <3> HIDE DEF Missing
    <3> QED BY <2>3, <2>5
  <2>7. PICK g : Part(n - 1, g)
    BY <2>5, <2>6
  <2>8. \E f : Part((n - 1) + 1, f)
    BY <1>4, <2>5, <2>7
  <2> QED BY <2>4, <2>5, <2>8
<1>7. PICK f : Part(Cardinality(set), f)
  BY <1>1, <1>6
<1>8. Small(Cardinality(set)) = SUBSET set
  BY <1>2
<1> QED BY <1>7, <1>8 DEF Part, Add, Pick, SumsUp

\* A sum of natural numbers is one.
LEMMA SumsType ==
  ASSUME NEW weight, NEW set, IsFiniteSet(set), \A x \in set : weight[x] \in Nat,
         NEW f, SumsUp(weight, set, f)
  PROVE  \A s \in SUBSET set : f[s] \in Nat
<1> DEFINE Bad == {Cardinality(s) : s \in {t \in SUBSET set : f[t] \notin Nat}}
<1>1. ASSUME NEW s \in SUBSET set
      PROVE  Cardinality(s) \in Nat /\ IsFiniteSet(s)
  BY FS_Subset, FS_CardinalityType
<1>2. SUFFICES ASSUME Bad # {} PROVE FALSE
  OBVIOUS
<1>3. Bad \in SUBSET Nat
  BY <1>1
<1>4. PICK n \in Bad : \A m \in Bad : n <= m
  <2> HIDE DEF Bad
  <2> QED BY <1>2, <1>3, LeastNatural
<1>5. PICK s \in SUBSET set : n = Cardinality(s) /\ f[s] \notin Nat
  BY <1>4
<1> DEFINE x == CHOOSE x \in s : TRUE
<1>6. f[s] = IF s = {} THEN 0 ELSE weight[x] + f[s \ {x}]
  BY DEF SumsUp
<1>7. s # {}
  BY <1>5, <1>6
<1>8. x \in s
  BY <1>7
<1> HIDE DEF x
<1>9. s \ {x} \in SUBSET set /\ Cardinality(s \ {x}) = n - 1 /\ n \in Nat
  BY <1>1, <1>5, <1>8, FS_RemoveElement
<1>10. f[s \ {x}] \in Nat
  <2>1. SUFFICES ASSUME f[s \ {x}] \notin Nat PROVE FALSE
    OBVIOUS
  <2>2. Cardinality(s \ {x}) \in Bad
    BY <1>9, <2>1
  <2> HIDE DEF Bad
  <2>3. n <= n - 1
    BY <1>4, <1>9, <2>2
  <2> QED BY <1>9, <2>3
<1>11. weight[x] \in Nat
  BY <1>8
<1> QED BY <1>5, <1>6, <1>7, <1>10, <1>11

\* The increments of the first n examples (get_batch_size_increment).
Increments(rest, n, type) == [i \in 1..n |-> Increment(rest[i], type)]
SumOf(weight, n) == (CHOOSE f : SumsUp(weight, 1..n, f))[1..n]

\* Sums are numbers.
LEMMA SumType ==
  ASSUME NEW n \in Nat, NEW weight, \A i \in 1..n : weight[i] \in Nat
  PROVE  SumOf(weight, n) \in Nat
<1> DEFINE f == CHOOSE f : SumsUp(weight, 1..n, f)
<1>1. IsFiniteSet(1..n)
  BY FS_Interval
<1>2. SumsUp(weight, 1..n, f)
  BY <1>1, SumsExist
<1> HIDE DEF f
<1>3. f[1..n] \in Nat
  BY <1>1, <1>2, SumsType
<1> QED BY <1>3 DEF SumOf, f

LEMMA IncrementsSum ==
  ASSUME NEW rest, NEW type, NEW n \in Nat
  PROVE  MapThenSumSet(LAMBDA i : Increment(rest[i], type), 1..n) = SumOf(Increments(rest, n, type), n)
<1> DEFINE weight == Increments(rest, n, type)
           First(s) == CHOOSE x \in s : TRUE
           L(s, f) == IF s = {} THEN 0 ELSE Increment(rest[First(s)], type) + f[s \ {First(s)}]
           R(s, f) == IF s = {} THEN 0 ELSE weight[First(s)] + f[s \ {First(s)}]
<1>1. ASSUME NEW s \in SUBSET (1..n), NEW f PROVE L(s, f) = R(s, f)
  <2>1. CASE s = {}
    BY <2>1
  <2>2. CASE s # {}
    <3>1. First(s) \in 1..n
      BY <2>2
    <3> HIDE DEF First
    <3>2. weight[First(s)] = Increment(rest[First(s)], type)
      BY <3>1 DEF Increments
    <3> QED BY <2>2, <3>2
  <2> QED BY <2>1, <2>2
<1>2. ASSUME NEW f
      PROVE  f = [s \in SUBSET (1..n) |-> L(s, f)] <=> f = [s \in SUBSET (1..n) |-> R(s, f)]
  <2>1. [s \in SUBSET (1..n) |-> L(s, f)] = [s \in SUBSET (1..n) |-> R(s, f)]
    <3> HIDE DEF L, R
    <3> QED BY <1>1
  <2> QED BY <2>1
<1>3. (CHOOSE f : f = [s \in SUBSET (1..n) |-> L(s, f)]) = (CHOOSE f : f = [s \in SUBSET (1..n) |-> R(s, f)])
  <2> DEFINE P(f) == f = [s \in SUBSET (1..n) |-> L(s, f)]
             Q(f) == f = [s \in SUBSET (1..n) |-> R(s, f)]
  <2>1. \A f : P(f) <=> Q(f)
    <3> HIDE DEF L, R
    <3> QED BY <1>2
  <2> HIDE DEF P, Q
  <2>2. (CHOOSE f : P(f)) = (CHOOSE f : Q(f))
    BY <2>1
  <2> QED BY <2>2 DEF P, Q
<1>4. MapThenSumSet(LAMBDA i : Increment(rest[i], type), 1..n)
        = (CHOOSE f : f = [s \in SUBSET (1..n) |-> L(s, f)])[1..n]
  BY DEF MapThenSumSet, MapThenFoldSet
<1>5. SumOf(weight, n) = (CHOOSE f : f = [s \in SUBSET (1..n) |-> R(s, f)])[1..n]
  BY DEF SumOf, SumsUp
<1> HIDE DEF L, R, weight
<1> QED BY <1>3, <1>4, <1>5 DEF weight

\* Volume adds up the same sizes.
LEMMA VolumeSum ==
  ASSUME NEW sizes, NEW n \in Nat, NEW weight, \A i \in 1..n : sizes[i] = weight[i]
  PROVE  MapThenSumSet(LAMBDA i : sizes[i], 1..n) = SumOf(weight, n)
<1> DEFINE First(s) == CHOOSE x \in s : TRUE
           L(s, f) == IF s = {} THEN 0 ELSE sizes[First(s)] + f[s \ {First(s)}]
           R(s, f) == IF s = {} THEN 0 ELSE weight[First(s)] + f[s \ {First(s)}]
<1>1. ASSUME NEW s \in SUBSET (1..n), NEW f PROVE L(s, f) = R(s, f)
  <2>1. CASE s = {}
    BY <2>1
  <2>2. CASE s # {}
    <3>1. First(s) \in 1..n
      BY <2>2
    <3> HIDE DEF First
    <3> QED BY <2>2, <3>1
  <2> QED BY <2>1, <2>2
<1>2. ASSUME NEW f
      PROVE  f = [s \in SUBSET (1..n) |-> L(s, f)] <=> f = [s \in SUBSET (1..n) |-> R(s, f)]
  <2>1. [s \in SUBSET (1..n) |-> L(s, f)] = [s \in SUBSET (1..n) |-> R(s, f)]
    <3> HIDE DEF L, R
    <3> QED BY <1>1
  <2> QED BY <2>1
<1>3. (CHOOSE f : f = [s \in SUBSET (1..n) |-> L(s, f)]) = (CHOOSE f : f = [s \in SUBSET (1..n) |-> R(s, f)])
  <2> DEFINE P(f) == f = [s \in SUBSET (1..n) |-> L(s, f)]
             Q(f) == f = [s \in SUBSET (1..n) |-> R(s, f)]
  <2>1. \A f : P(f) <=> Q(f)
    <3> HIDE DEF L, R
    <3> QED BY <1>2
  <2> HIDE DEF P, Q
  <2>2. (CHOOSE f : P(f)) = (CHOOSE f : Q(f))
    BY <2>1
  <2> QED BY <2>2 DEF P, Q
<1>4. MapThenSumSet(LAMBDA i : sizes[i], 1..n)
        = (CHOOSE f : f = [s \in SUBSET (1..n) |-> L(s, f)])[1..n]
  BY DEF MapThenSumSet, MapThenFoldSet
<1>5. SumOf(weight, n) = (CHOOSE f : f = [s \in SUBSET (1..n) |-> R(s, f)])[1..n]
  BY DEF SumOf, SumsUp
<1> HIDE DEF L, R
<1> QED BY <1>3, <1>4, <1>5

\* The greatest of the first n increments.
LEMMA GreatestNatural ==
  ASSUME NEW n \in Nat \ {0}, NEW weight, \A i \in 1..n : weight[i] \in Nat
  PROVE  Max({weight[i] : i \in 1..n}) \in Nat
<1> DEFINE Best(m) == \E i \in 1..m : \A k \in 1..m : weight[i] >= weight[k]
           Bad == {m \in 1..n : ~Best(m)}
<1>1. Bad = {}
  <2>1. SUFFICES ASSUME Bad # {} PROVE FALSE
    OBVIOUS
  <2>2. PICK m \in Bad : \A k \in Bad : m <= k
    <3>1. Bad \in SUBSET Nat
      OBVIOUS
    <3> HIDE DEF Bad
    <3> QED BY <2>1, <3>1, LeastNatural
  <2>3. m \in 1..n /\ ~Best(m)
    BY <2>2
  <2>4. m # 1
    BY <2>3
  <2>5. m - 1 \in 1..n /\ ~(m <= m - 1) /\ m \in Nat
    BY <2>3, <2>4
  <2>6. Best(m - 1)
    <3> HIDE DEF Best
    <3>1. m - 1 \notin Bad
      <4> HIDE DEF Bad
      <4> QED BY <2>2, <2>5
    <3> QED BY <2>5, <3>1
  <2>7. PICK i \in 1..(m - 1) : \A k \in 1..(m - 1) : weight[i] >= weight[k]
    BY <2>6
  <2>8. \A k \in 1..m : k \in 1..(m - 1) \/ k = m
    BY <2>3
  <2>9. i \in 1..m /\ m \in 1..m /\ i \in 1..n
    BY <2>3, <2>7
  <2>10. weight[i] \in Nat /\ weight[m] \in Nat /\ \A k \in 1..m : weight[k] \in Nat
    BY <2>3, <2>9
  <2>11. CASE weight[i] >= weight[m]
    BY <2>3, <2>7, <2>8, <2>9, <2>11
  <2>12. CASE weight[m] >= weight[i]
    <3>1. \A k \in 1..m : weight[m] >= weight[k]
      BY <2>7, <2>8, <2>10, <2>12
    <3> QED BY <2>3, <2>9, <3>1
  <2> QED BY <2>10, <2>11, <2>12
<1>2. PICK i \in 1..n : \A k \in 1..n : weight[i] >= weight[k]
  BY <1>1
<1> DEFINE S == {weight[k] : k \in 1..n}
<1>3. \E x \in S : \A y \in S : x >= y
  BY <1>2
<1>4. Max(S) \in S
  <2> HIDE DEF S
  <2> QED BY <1>3 DEF Max
<1> QED BY <1>4

\* The size of a batch in terms of the increments.
SizeOf(weight, n, padding) ==
  IF padding THEN n * Max({weight[i] : i \in 1..n}) ELSE SumOf(weight, n)

LEMMA NewBatchSizeIs ==
  ASSUME NEW rest, NEW type, NEW padding, NEW n \in Nat
  PROVE  NewBatchSize(rest, n, type, padding) = SizeOf(Increments(rest, n, type), n, padding)
<1>1. {Increment(rest[i], type) : i \in 1..n} = {Increments(rest, n, type)[i] : i \in 1..n}
  BY DEF Increments
<1>2. MapThenSumSet(LAMBDA i : Increment(rest[i], type), 1..n) = SumOf(Increments(rest, n, type), n)
  BY IncrementsSum
<1>3. NewBatchSize(rest, n, type, padding)
        = IF padding THEN n * Max({Increment(rest[i], type) : i \in 1..n})
          ELSE MapThenSumSet(LAMBDA i : Increment(rest[i], type), 1..n)
  BY DEF NewBatchSize
<1> QED BY <1>1, <1>2, <1>3 DEF SizeOf

\* Sizes are numbers.
LEMMA SizeType ==
  ASSUME NEW n \in Nat \ {0}, NEW weight, NEW padding, \A i \in 1..n : weight[i] \in Nat
  PROVE  SizeOf(weight, n, padding) \in Nat
<1>1. Max({weight[i] : i \in 1..n}) \in Nat
  BY GreatestNatural
<1>2. SumOf(weight, n) \in Nat
  BY SumType
<1>3. n * Max({weight[i] : i \in 1..n}) \in Nat
  <2> DEFINE m == Max({weight[i] : i \in 1..n})
  <2>1. m \in Nat
    BY <1>1
  <2> HIDE DEF m
  <2>2. n * m \in Nat
    BY <2>1
  <2> QED BY <2>2 DEF m
<1> QED BY <1>2, <1>3 DEF SizeOf

\* The volume of the first n examples of the input is the size the fill loops
\* computed for them.
LEMMA VolumeIs ==
  ASSUME NEW rest, NEW c, NEW n \in Nat \ {0}, NEW examples,
         Len(examples) = n, DOMAIN examples = 1..n, \A i \in 1..n : examples[i] = rest[i]
  PROVE  Volume(examples, c) = NewBatchSize(rest, n, c.type, c.padding)
<1> DEFINE sizes == [i \in DOMAIN examples |->
                       IF c.type = "tokens" THEN Length(examples[i]) ELSE 1]
           weight == Increments(rest, n, c.type)
<1>1. \A i \in 1..n : sizes[i] = weight[i]
  BY DEF Increments, Increment
<1>2. DOMAIN sizes = 1..n
  OBVIOUS
<1>3. Volume(examples, c) = IF c.padding THEN n * Max(ToSet(sizes))
                            ELSE MapThenSumSet(LAMBDA i : sizes[i], 1..n)
  BY DEF Volume
<1> HIDE DEF sizes, weight
<1>4. ToSet(sizes) = {weight[i] : i \in 1..n}
  BY <1>1, <1>2 DEF ToSet
<1>5. MapThenSumSet(LAMBDA i : sizes[i], 1..n) = SumOf(weight, n)
  BY <1>1, VolumeSum
<1>6. NewBatchSize(rest, n, c.type, c.padding) = SizeOf(weight, n, c.padding)
  BY NewBatchSizeIs DEF weight
<1> QED BY <1>3, <1>4, <1>5, <1>6 DEF SizeOf

\* A batch fits, unless it is one example, and with the next one it would not
\* (the break conditions of the two fill loops).
LEMMA BatchLengthFits ==
  ASSUME NEW rest, Len(rest) \in Nat \ {0}, NEW max \in Nat, NEW type, NEW padding,
         \A i \in 1..Len(rest) : Increment(rest[i], type) \in Nat
  PROVE  LET count == BatchLength(rest, max, type, padding)
         IN  /\ count = 1 \/ NewBatchSize(rest, count, type, padding) <= max
             /\ count < Len(rest) => NewBatchSize(rest, count + 1, type, padding) > max
<1> DEFINE Size(n) == NewBatchSize(rest, n, type, padding)
           breaks == {n \in 2..Len(rest) : Size(n) > max}
           count == BatchLength(rest, max, type, padding)
<1>1. count \in 1..Len(rest)
  BY BatchLengthRange
<1>2. count = IF breaks = {} THEN Len(rest) ELSE Min(breaks) - 1
  BY DEF BatchLength
<1>3. ASSUME NEW n \in 1..Len(rest) PROVE Size(n) \in Nat
  <2>1. n \in Nat \ {0} /\ \A i \in 1..n : Increments(rest, n, type)[i] \in Nat
    BY DEF Increments
  <2> QED BY <2>1, NewBatchSizeIs, SizeType
<1> HIDE DEF Size, count
<1>4. breaks # {} => Min(breaks) \in breaks /\ \A n \in breaks : Min(breaks) <= n
  <2>1. breaks \in SUBSET Nat
    OBVIOUS
  <2> HIDE DEF breaks
  <2>2. ASSUME breaks # {} PROVE \E x \in breaks : \A y \in breaks : x <= y
    BY <2>1, <2>2, LeastNatural
  <2> QED BY <2>2 DEF Min
<1>5. ASSUME count # 1 PROVE Size(count) <= max
  <2>1. count \in 2..Len(rest) /\ count \in Nat
    BY <1>1, <1>5
  <2>2. count \notin breaks
    <3>1. CASE breaks = {}
      BY <3>1
    <3>2. CASE breaks # {}
      <4>1. Min(breaks) \in Nat /\ count = Min(breaks) - 1
        BY <1>2, <1>4, <3>2
      <4>2. ~(Min(breaks) <= count)
        BY <4>1
      <4> HIDE DEF breaks
      <4> QED BY <1>4, <3>2, <4>2
    <3> QED BY <3>1, <3>2
  <2>3. ~(Size(count) > max)
    BY <2>1, <2>2
  <2> QED BY <1>1, <1>3, <2>3
<1>6. ASSUME count < Len(rest) PROVE Size(count + 1) > max
  <2>1. breaks # {}
    BY <1>2, <1>6
  <2>2. PICK m \in breaks : m = Min(breaks)
    BY <1>4, <2>1
  <2>3. count + 1 = m
    BY <1>2, <2>1, <2>2
  <2> QED BY <2>2, <2>3
<1> QED BY <1>5, <1>6 DEF Size, count

-----------------------------------------------------------------------------
(* General facts about numbers, sequences, sums and records. *)

\* Products are compared factor by factor.
LEMMA TimesLeq ==
  ASSUME NEW a \in Nat, NEW b \in Nat, NEW c \in Nat, a <= b
  PROVE  a * c <= b * c /\ a * c \in Nat /\ b * c \in Nat
<1>1. PICK d \in Nat : b = a + d
  <2>1. b - a \in Nat /\ b = a + (b - a)
    OBVIOUS
  <2> QED BY <2>1
<1>2. b * c = a * c + d * c
  BY <1>1
<1>3. a * c \in Nat /\ d * c \in Nat
  OBVIOUS
<1> QED BY <1>2, <1>3

\* The least and greatest of two numbers.
LEMMA MinOfTwo ==
  ASSUME NEW a \in Nat, NEW b \in Nat
  PROVE  /\ Min({a, b}) = IF a <= b THEN a ELSE b
         /\ Max({a, b}) = IF a <= b THEN b ELSE a
<1>1. \E x \in {a, b} : \A y \in {a, b} : x <= y
  OBVIOUS
<1>2. \E x \in {a, b} : \A y \in {a, b} : x >= y
  OBVIOUS
<1>3. Min({a, b}) \in {a, b} /\ \A y \in {a, b} : Min({a, b}) <= y
  BY <1>1 DEF Min
<1>4. Max({a, b}) \in {a, b} /\ \A y \in {a, b} : Max({a, b}) >= y
  BY <1>2 DEF Max
<1> QED BY <1>3, <1>4

\* Concatenation, element by element.
LEMMA JoinElements ==
  ASSUME NEW S, NEW s \in Seq(S), NEW t \in Seq(S)
  PROVE  /\ s \o t \in Seq(S) /\ Len(s \o t) = Len(s) + Len(t)
         /\ \A i \in 1..Len(s) : (s \o t)[i] = s[i]
         /\ \A i \in 1..Len(t) : (s \o t)[Len(s) + i] = t[i]
OBVIOUS

\* IsSuffix of the community modules, element by element.
LEMMA SuffixElements ==
  ASSUME NEW S, NEW a \in Seq(S), NEW b \in Seq(S)
  PROVE  IsSuffix(a, b) <=>
           /\ Len(a) <= Len(b)
           /\ \A i \in 0..(Len(a) - 1) : a[Len(a) - i] = b[Len(b) - i]
<1> DEFINE ra == [i \in 1..Len(a) |-> a[Len(a) - i + 1]]
           rb == [i \in 1..Len(b) |-> b[Len(b) - i + 1]]
<1>1. IsSuffix(a, b) <=> Len(ra) <= Len(rb) /\ SubSeq(ra, 1, Len(ra)) = SubSeq(rb, 1, Len(ra))
  BY DEF IsSuffix, IsPrefix, Reverse
<1>2. ra \in Seq(S) /\ rb \in Seq(S) /\ Len(ra) = Len(a) /\ Len(rb) = Len(b)
  <2>1. \A i \in 1..Len(a) : a[Len(a) - i + 1] \in S
    OBVIOUS
  <2>2. \A i \in 1..Len(b) : b[Len(b) - i + 1] \in S
    OBVIOUS
  <2> QED BY <2>1, <2>2
<1>3. /\ \A i \in 1..Len(a) : ra[i] = a[Len(a) - i + 1]
      /\ \A i \in 1..Len(b) : rb[i] = b[Len(b) - i + 1]
  OBVIOUS
<1> HIDE DEF ra, rb
<1>4. Len(a) <= Len(b) =>
        (SubSeq(ra, 1, Len(ra)) = SubSeq(rb, 1, Len(ra)) <=> \A i \in 1..Len(a) : ra[i] = rb[i])
  BY <1>2
<1>5. Len(a) <= Len(b) =>
        ((\A i \in 1..Len(a) : ra[i] = rb[i]) <=> \A i \in 0..(Len(a) - 1) : a[Len(a) - i] = b[Len(b) - i])
  <2> SUFFICES ASSUME Len(a) <= Len(b)
               PROVE  (\A i \in 1..Len(a) : ra[i] = rb[i]) <=>
                        \A i \in 0..(Len(a) - 1) : a[Len(a) - i] = b[Len(b) - i]
    OBVIOUS
  <2>1. \A i \in 1..Len(a) : ra[i] = a[Len(a) - (i - 1)] /\ rb[i] = b[Len(b) - (i - 1)]
    <3>1. \A i \in 1..Len(a) : Len(a) - i + 1 = Len(a) - (i - 1) /\ Len(b) - i + 1 = Len(b) - (i - 1)
      OBVIOUS
    <3> QED BY <1>3, <3>1
  <2>2. ASSUME \A i \in 1..Len(a) : ra[i] = rb[i], NEW i \in 0..(Len(a) - 1)
        PROVE  a[Len(a) - i] = b[Len(b) - i]
    <3>1. i + 1 \in 1..Len(a) /\ (i + 1) - 1 = i
      OBVIOUS
    <3> QED BY <2>1, <2>2, <3>1
  <2>3. ASSUME \A i \in 0..(Len(a) - 1) : a[Len(a) - i] = b[Len(b) - i], NEW i \in 1..Len(a)
        PROVE  ra[i] = rb[i]
    <3>1. i - 1 \in 0..(Len(a) - 1)
      OBVIOUS
    <3> QED BY <2>1, <2>3, <3>1
  <2> QED BY <2>2, <2>3
<1> QED BY <1>1, <1>2, <1>4, <1>5

\* Part of a sequence, element by element.
LEMMA SubSeqIs ==
  ASSUME NEW S, NEW s \in Seq(S), NEW a \in Nat \ {0}, NEW b \in Nat, b <= Len(s), a <= b + 1
  PROVE  /\ SubSeq(s, a, b) \in Seq(S) /\ Len(SubSeq(s, a, b)) = b - a + 1
         /\ \A i \in 1..(b - a + 1) : SubSeq(s, a, b)[i] = s[a + i - 1]
OBVIOUS

\* Sequences with the same elements are equal.
LEMMA SameElements ==
  ASSUME NEW S, NEW s \in Seq(S), NEW t \in Seq(S), Len(s) = Len(t),
         \A i \in 1..Len(s) : s[i] = t[i]
  PROVE  s = t
OBVIOUS

\* Any member may be added last.
LEMMA SumsAnyMember ==
  ASSUME NEW weight, NEW set, IsFiniteSet(set), \A x \in set : weight[x] \in Nat,
         NEW f, SumsUp(weight, set, f)
  PROVE  \A s \in SUBSET set, x \in set : x \in s => f[s] = weight[x] + f[s \ {x}]
<1> DEFINE Wrong(s) == \E x \in set : x \in s /\ f[s] # weight[x] + f[s \ {x}]
           Bad == {Cardinality(s) : s \in {t \in SUBSET set : Wrong(t)}}
<1>1. ASSUME NEW s \in SUBSET set
      PROVE  Cardinality(s) \in Nat /\ IsFiniteSet(s)
  BY FS_Subset, FS_CardinalityType
<1>2. \A s \in SUBSET set : f[s] \in Nat
  BY SumsType
<1>3. SUFFICES ASSUME Bad # {} PROVE FALSE
  OBVIOUS
<1>4. Bad \in SUBSET Nat
  BY <1>1
<1>5. PICK size \in Bad : \A other \in Bad : size <= other
  <2> HIDE DEF Bad
  <2> QED BY <1>3, <1>4, LeastNatural
<1>6. PICK s \in SUBSET set : size = Cardinality(s) /\ Wrong(s)
  BY <1>5
<1>7. PICK x \in set : x \in s /\ f[s] # weight[x] + f[s \ {x}]
  BY <1>6
<1> DEFINE y == CHOOSE y \in s : TRUE
<1>8. f[s] = weight[y] + f[s \ {y}]
  BY <1>7 DEF SumsUp
<1>9. y \in s /\ y \in set
  BY <1>7
<1> HIDE DEF y
<1>10. x # y
  BY <1>7, <1>8
<1>11. ASSUME NEW t \in SUBSET set, Cardinality(t) = size - 1, NEW z \in set, z \in t
       PROVE  f[t] = weight[z] + f[t \ {z}]
  <2>1. SUFFICES ASSUME Wrong(t) PROVE FALSE
    BY <1>11
  <2>2. Cardinality(t) \in Bad
    BY <2>1
  <2> HIDE DEF Bad, Wrong
  <2>3. size <= size - 1 /\ size \in Nat
    BY <1>4, <1>5, <1>11, <2>2
  <2> QED BY <2>3
<1>12. /\ Cardinality(s \ {x}) = size - 1 /\ Cardinality(s \ {y}) = size - 1
       /\ s \ {x} \in SUBSET set /\ s \ {y} \in SUBSET set
  BY <1>1, <1>6, <1>7, <1>9, FS_RemoveElement
<1>13. f[s \ {y}] = weight[x] + f[(s \ {y}) \ {x}]
  BY <1>7, <1>10, <1>11, <1>12
<1>14. f[s \ {x}] = weight[y] + f[(s \ {x}) \ {y}]
  BY <1>9, <1>10, <1>11, <1>12
<1>15. (s \ {x}) \ {y} = (s \ {y}) \ {x}
  OBVIOUS
<1>16. weight[x] \in Nat /\ weight[y] \in Nat /\ f[(s \ {x}) \ {y}] \in Nat
  <2>1. (s \ {x}) \ {y} \in SUBSET set
    BY <1>12
  <2> QED BY <1>2, <1>7, <1>9, <2>1
<1>17. f[s] = weight[x] + f[s \ {x}]
  <2>1. PICK a \in Nat, b \in Nat, d \in Nat :
          a = weight[x] /\ b = weight[y] /\ d = f[(s \ {x}) \ {y}]
    BY <1>16
  <2>2. f[s] = b + (a + d) /\ f[s \ {x}] = b + d
    BY <1>8, <1>13, <1>14, <1>15, <2>1
  <2> QED BY <2>1, <2>2
<1> QED BY <1>7, <1>17

\* Sums over two sets agree on what is in both, if the weights do.
LEMMA SumsAgree ==
  ASSUME NEW set, IsFiniteSet(set), NEW more, IsFiniteSet(more), set \subseteq more,
         NEW weight, NEW heavy, \A x \in set : weight[x] = heavy[x],
         NEW f, SumsUp(weight, set, f), NEW g, SumsUp(heavy, more, g)
  PROVE  f[set] = g[set]
<1> DEFINE Bad == {Cardinality(s) : s \in {t \in SUBSET set : f[t] # g[t]}}
<1>1. ASSUME NEW s \in SUBSET set
      PROVE  Cardinality(s) \in Nat /\ IsFiniteSet(s)
  BY FS_Subset, FS_CardinalityType
<1>2. SUFFICES ASSUME Bad # {} PROVE FALSE
  OBVIOUS
<1>3. Bad \in SUBSET Nat
  BY <1>1
<1>4. PICK size \in Bad : \A other \in Bad : size <= other
  <2> HIDE DEF Bad
  <2> QED BY <1>2, <1>3, LeastNatural
<1>5. PICK s \in SUBSET set : size = Cardinality(s) /\ f[s] # g[s]
  BY <1>4
<1> DEFINE y == CHOOSE y \in s : TRUE
<1>6. f[s] = IF s = {} THEN 0 ELSE weight[y] + f[s \ {y}]
  BY DEF SumsUp
<1>7. g[s] = IF s = {} THEN 0 ELSE heavy[y] + g[s \ {y}]
  BY DEF SumsUp
<1>8. s # {}
  BY <1>5, <1>6, <1>7
<1>9. y \in s /\ y \in set
  BY <1>8
<1> HIDE DEF y
<1>10. Cardinality(s \ {y}) = size - 1 /\ s \ {y} \in SUBSET set /\ size \in Nat
  BY <1>1, <1>5, <1>9, FS_RemoveElement
<1>11. f[s \ {y}] = g[s \ {y}]
  <2>1. SUFFICES ASSUME f[s \ {y}] # g[s \ {y}] PROVE FALSE
    OBVIOUS
  <2>2. size - 1 \in Bad
    BY <1>10, <2>1
  <2> HIDE DEF Bad
  <2> QED BY <1>4, <1>10, <2>2
<1> QED BY <1>5, <1>6, <1>7, <1>8, <1>9, <1>11

SumOver(weight, set) == (CHOOSE f : SumsUp(weight, set, f))[set]

\* One more member adds its weight.
LEMMA SumOverMore ==
  ASSUME NEW set, IsFiniteSet(set), NEW x, x \notin set,
         NEW weight, NEW heavy, \A y \in set : weight[y] = heavy[y] /\ weight[y] \in Nat,
         heavy[x] \in Nat
  PROVE  /\ SumOver(heavy, set \cup {x}) = heavy[x] + SumOver(weight, set)
         /\ SumOver(weight, set) \in Nat
<1> DEFINE more == set \cup {x}
           f == CHOOSE f : SumsUp(weight, set, f)
           g == CHOOSE g : SumsUp(heavy, more, g)
<1>1. IsFiniteSet(more)
  BY FS_AddElement
<1>2. SumsUp(weight, set, f)
  BY SumsExist
<1>3. SumsUp(heavy, more, g)
  <2> HIDE DEF more
  <2> QED BY <1>1, SumsExist
<1> HIDE DEF f, g
<1>4. set \in SUBSET more /\ more \in SUBSET more /\ x \in more /\ more \ {x} = set
  OBVIOUS
<1>5. \A y \in more : heavy[y] \in Nat
  OBVIOUS
<1> HIDE DEF more
<1>6. g[more] = heavy[x] + g[more \ {x}]
  BY <1>1, <1>3, <1>4, <1>5, SumsAnyMember
<1>7. f[set] = g[set]
  BY <1>1, <1>2, <1>3, <1>4, SumsAgree
<1>8. f[set] \in Nat
  BY <1>2, SumsType
<1> QED BY <1>4, <1>6, <1>7, <1>8 DEF SumOver, f, g, more

\* The sum over no member.
LEMMA SumOverNone ==
  ASSUME NEW weight
  PROVE  SumOver(weight, {}) = 0
<1> DEFINE f == CHOOSE f : SumsUp(weight, {}, f)
<1>1. SumsUp(weight, {}, f)
  BY SumsExist, FS_EmptySet
<1> HIDE DEF f
<1>2. f[{}] = 0
  BY <1>1 DEF SumsUp
<1> QED BY <1>2 DEF SumOver, f

\* The fields of an updated state.
LEMMA UpdateIs ==
  ASSUME NEW s, NEW memory, NEW offset, NEW old1, NEW old2, NEW old3, NEW old4, NEW old5, NEW old6,
         NEW old7, NEW old8,
         NEW step, NEW expanded, NEW results, NEW topDone, NEW ids, NEW scores, NEW alive, NEW cache,
         s = [step |-> old1, expanded |-> old2, ids |-> old3, scores |-> old4, alive |-> old5,
              cache |-> old6, memory |-> memory, offset |-> offset, topDone |-> old7,
              results |-> old8]
  PROVE  [s EXCEPT !.step = step, !.expanded = expanded, !.results = results, !.topDone = topDone,
                   !.ids = ids, !.scores = scores, !.alive = alive, !.cache = cache]
           = [step |-> step, expanded |-> expanded, ids |-> ids, scores |-> scores, alive |-> alive,
              cache |-> cache, memory |-> memory, offset |-> offset, topDone |-> topDone,
              results |-> results]
<1> DEFINE s1 == [s EXCEPT !.step = step]
           s2 == [s1 EXCEPT !.expanded = expanded]
           s3 == [s2 EXCEPT !.results = results]
           s4 == [s3 EXCEPT !.topDone = topDone]
           s5 == [s4 EXCEPT !.ids = ids]
           s6 == [s5 EXCEPT !.scores = scores]
           s7 == [s6 EXCEPT !.alive = alive]
           s8 == [s7 EXCEPT !.cache = cache]
<1>1. s1 = [step |-> step, expanded |-> old2, ids |-> old3, scores |-> old4, alive |-> old5,
             cache |-> old6, memory |-> memory, offset |-> offset, topDone |-> old7, results |-> old8]
  OBVIOUS
<1> HIDE DEF s1
<1>2. s2 = [step |-> step, expanded |-> expanded, ids |-> old3, scores |-> old4, alive |-> old5,
             cache |-> old6, memory |-> memory, offset |-> offset, topDone |-> old7, results |-> old8]
  BY <1>1
<1> HIDE DEF s2
<1>3. s3 = [step |-> step, expanded |-> expanded, ids |-> old3, scores |-> old4, alive |-> old5,
             cache |-> old6, memory |-> memory, offset |-> offset, topDone |-> old7, results |-> results]
  BY <1>2
<1> HIDE DEF s3
<1>4. s4 = [step |-> step, expanded |-> expanded, ids |-> old3, scores |-> old4, alive |-> old5,
             cache |-> old6, memory |-> memory, offset |-> offset, topDone |-> topDone, results |-> results]
  BY <1>3
<1> HIDE DEF s4
<1>5. s5 = [step |-> step, expanded |-> expanded, ids |-> ids, scores |-> old4, alive |-> old5,
             cache |-> old6, memory |-> memory, offset |-> offset, topDone |-> topDone, results |-> results]
  BY <1>4
<1> HIDE DEF s5
<1>6. s6 = [step |-> step, expanded |-> expanded, ids |-> ids, scores |-> scores, alive |-> old5,
             cache |-> old6, memory |-> memory, offset |-> offset, topDone |-> topDone, results |-> results]
  BY <1>5
<1> HIDE DEF s6
<1>7. s7 = [step |-> step, expanded |-> expanded, ids |-> ids, scores |-> scores, alive |-> alive,
             cache |-> old6, memory |-> memory, offset |-> offset, topDone |-> topDone, results |-> results]
  BY <1>6
<1> HIDE DEF s7
<1>8. s8 = [step |-> step, expanded |-> expanded, ids |-> ids, scores |-> scores, alive |-> alive,
             cache |-> cache, memory |-> memory, offset |-> offset, topDone |-> topDone, results |-> results]
  BY <1>7
<1> QED BY <1>8 DEF s1, s2, s3, s4, s5, s6, s7, s8

\* The fields of a state without some of its entries.
LEMMA CompactUpdate ==
  ASSUME NEW s, NEW step, NEW expanded, NEW ids, NEW scores, NEW alive, NEW cache, NEW memory,
         NEW offset, NEW topDone, NEW results, NEW oldIds, NEW oldScores, NEW oldAlive,
         NEW oldCache, NEW oldMemory, NEW oldOffset, NEW oldTopdone,
         s = [step |-> step, expanded |-> expanded, ids |-> oldIds, scores |-> oldScores,
              alive |-> oldAlive, cache |-> oldCache, memory |-> oldMemory,
              offset |-> oldOffset, topDone |-> oldTopdone, results |-> results]
  PROVE  [s EXCEPT !.ids = ids, !.scores = scores, !.alive = alive, !.cache = cache,
                   !.memory = memory, !.offset = offset, !.topDone = topDone]
           = [step |-> step, expanded |-> expanded, ids |-> ids, scores |-> scores,
              alive |-> alive, cache |-> cache, memory |-> memory, offset |-> offset,
              topDone |-> topDone, results |-> results]
<1> DEFINE s1 == [s EXCEPT !.ids = ids]
           s2 == [s1 EXCEPT !.scores = scores]
           s3 == [s2 EXCEPT !.alive = alive]
           s4 == [s3 EXCEPT !.cache = cache]
           s5 == [s4 EXCEPT !.memory = memory]
           s6 == [s5 EXCEPT !.offset = offset]
           s7 == [s6 EXCEPT !.topDone = topDone]
<1>1. s1 = [step |-> step, expanded |-> expanded, ids |-> ids, scores |-> oldScores,
            alive |-> oldAlive, cache |-> oldCache, memory |-> oldMemory, offset |-> oldOffset,
            topDone |-> oldTopdone, results |-> results]
  OBVIOUS
<1> HIDE DEF s1
<1>2. s2 = [step |-> step, expanded |-> expanded, ids |-> ids, scores |-> scores,
            alive |-> oldAlive, cache |-> oldCache, memory |-> oldMemory, offset |-> oldOffset,
            topDone |-> oldTopdone, results |-> results]
  BY <1>1
<1> HIDE DEF s2
<1>3. s3 = [step |-> step, expanded |-> expanded, ids |-> ids, scores |-> scores,
            alive |-> alive, cache |-> oldCache, memory |-> oldMemory, offset |-> oldOffset,
            topDone |-> oldTopdone, results |-> results]
  BY <1>2
<1> HIDE DEF s3
<1>4. s4 = [step |-> step, expanded |-> expanded, ids |-> ids, scores |-> scores,
            alive |-> alive, cache |-> cache, memory |-> oldMemory, offset |-> oldOffset,
            topDone |-> oldTopdone, results |-> results]
  BY <1>3
<1> HIDE DEF s4
<1>5. s5 = [step |-> step, expanded |-> expanded, ids |-> ids, scores |-> scores,
            alive |-> alive, cache |-> cache, memory |-> memory, offset |-> oldOffset,
            topDone |-> oldTopdone, results |-> results]
  BY <1>4
<1> HIDE DEF s5
<1>6. s6 = [step |-> step, expanded |-> expanded, ids |-> ids, scores |-> scores,
            alive |-> alive, cache |-> cache, memory |-> memory, offset |-> offset,
            topDone |-> oldTopdone, results |-> results]
  BY <1>5
<1> HIDE DEF s6
<1>7. s7 = [step |-> step, expanded |-> expanded, ids |-> ids, scores |-> scores,
            alive |-> alive, cache |-> cache, memory |-> memory, offset |-> offset,
            topDone |-> topDone, results |-> results]
  BY <1>6
<1> QED BY <1>7 DEF s1, s2, s3, s4, s5, s6, s7

\* The fields of a state with its rows repeated.
LEMMA RepeatedUpdate ==
  ASSUME NEW s, NEW step, NEW expanded, NEW ids, NEW scores, NEW alive, NEW cache, NEW memory,
         NEW offset, NEW topDone, NEW results, NEW oldExpanded, NEW oldIds, NEW oldScores,
         NEW oldAlive, NEW oldCache,
         s = [step |-> step, expanded |-> oldExpanded, ids |-> oldIds, scores |-> oldScores,
              alive |-> oldAlive, cache |-> oldCache, memory |-> memory, offset |-> offset,
              topDone |-> topDone, results |-> results]
  PROVE  [s EXCEPT !.expanded = expanded, !.ids = ids, !.alive = alive, !.cache = cache,
                   !.scores = scores]
           = [step |-> step, expanded |-> expanded, ids |-> ids, scores |-> scores,
              alive |-> alive, cache |-> cache, memory |-> memory, offset |-> offset,
              topDone |-> topDone, results |-> results]
<1> DEFINE s1 == [s EXCEPT !.expanded = expanded]
           s2 == [s1 EXCEPT !.ids = ids]
           s3 == [s2 EXCEPT !.alive = alive]
           s4 == [s3 EXCEPT !.cache = cache]
           s5 == [s4 EXCEPT !.scores = scores]
<1>1. s1 = [step |-> step, expanded |-> expanded, ids |-> oldIds, scores |-> oldScores,
            alive |-> oldAlive, cache |-> oldCache, memory |-> memory, offset |-> offset,
            topDone |-> topDone, results |-> results]
  OBVIOUS
<1> HIDE DEF s1
<1>2. s2 = [step |-> step, expanded |-> expanded, ids |-> ids, scores |-> oldScores,
            alive |-> oldAlive, cache |-> oldCache, memory |-> memory, offset |-> offset,
            topDone |-> topDone, results |-> results]
  BY <1>1
<1> HIDE DEF s2
<1>3. s3 = [step |-> step, expanded |-> expanded, ids |-> ids, scores |-> oldScores,
            alive |-> alive, cache |-> oldCache, memory |-> memory, offset |-> offset,
            topDone |-> topDone, results |-> results]
  BY <1>2
<1> HIDE DEF s3
<1>4. s4 = [step |-> step, expanded |-> expanded, ids |-> ids, scores |-> oldScores,
            alive |-> alive, cache |-> cache, memory |-> memory, offset |-> offset,
            topDone |-> topDone, results |-> results]
  BY <1>3
<1> HIDE DEF s4
<1>5. s5 = [step |-> step, expanded |-> expanded, ids |-> ids, scores |-> scores,
            alive |-> alive, cache |-> cache, memory |-> memory, offset |-> offset,
            topDone |-> topDone, results |-> results]
  BY <1>4
<1> QED BY <1>5 DEF s1, s2, s3, s4, s5

\* The fields of a state after a turn of greedy search.
LEMMA GreedyUpdate ==
  ASSUME NEW s, NEW step, NEW expanded, NEW ids, NEW scores, NEW alive, NEW cache, NEW memory,
         NEW offset, NEW topDone, NEW results, NEW oldStep, NEW oldIds, NEW oldAlive,
         NEW oldCache, NEW oldResults,
         s = [step |-> oldStep, expanded |-> expanded, ids |-> oldIds, scores |-> scores,
              alive |-> oldAlive, cache |-> oldCache, memory |-> memory, offset |-> offset,
              topDone |-> topDone, results |-> oldResults]
  PROVE  [s EXCEPT !.step = step, !.ids = ids, !.alive = alive, !.cache = cache,
                   !.results = results]
           = [step |-> step, expanded |-> expanded, ids |-> ids, scores |-> scores,
              alive |-> alive, cache |-> cache, memory |-> memory, offset |-> offset,
              topDone |-> topDone, results |-> results]
<1> DEFINE s1 == [s EXCEPT !.step = step]
           s2 == [s1 EXCEPT !.ids = ids]
           s3 == [s2 EXCEPT !.alive = alive]
           s4 == [s3 EXCEPT !.cache = cache]
           s5 == [s4 EXCEPT !.results = results]
<1>1. s1 = [step |-> step, expanded |-> expanded, ids |-> oldIds, scores |-> scores,
            alive |-> oldAlive, cache |-> oldCache, memory |-> memory, offset |-> offset,
            topDone |-> topDone, results |-> oldResults]
  OBVIOUS
<1> HIDE DEF s1
<1>2. s2 = [step |-> step, expanded |-> expanded, ids |-> ids, scores |-> scores,
            alive |-> oldAlive, cache |-> oldCache, memory |-> memory, offset |-> offset,
            topDone |-> topDone, results |-> oldResults]
  BY <1>1
<1> HIDE DEF s2
<1>3. s3 = [step |-> step, expanded |-> expanded, ids |-> ids, scores |-> scores,
            alive |-> alive, cache |-> oldCache, memory |-> memory, offset |-> offset,
            topDone |-> topDone, results |-> oldResults]
  BY <1>2
<1> HIDE DEF s3
<1>4. s4 = [step |-> step, expanded |-> expanded, ids |-> ids, scores |-> scores,
            alive |-> alive, cache |-> cache, memory |-> memory, offset |-> offset,
            topDone |-> topDone, results |-> oldResults]
  BY <1>3
<1> HIDE DEF s4
<1>5. s5 = [step |-> step, expanded |-> expanded, ids |-> ids, scores |-> scores,
            alive |-> alive, cache |-> cache, memory |-> memory, offset |-> offset,
            topDone |-> topDone, results |-> results]
  BY <1>4
<1> QED BY <1>5 DEF s1, s2, s3, s4, s5

\* The fields of a state without some of its rows.
LEMMA KeepAliveUpdate ==
  ASSUME NEW s, NEW step, NEW expanded, NEW ids, NEW scores, NEW alive, NEW cache, NEW memory,
         NEW offset, NEW topDone, NEW results, NEW oldIds, NEW oldScores, NEW oldAlive,
         NEW oldCache, NEW oldMemory, NEW oldOffset, NEW oldTopdone,
         s = [step |-> step, expanded |-> expanded, ids |-> oldIds, scores |-> oldScores,
              alive |-> oldAlive, cache |-> oldCache, memory |-> oldMemory,
              offset |-> oldOffset, topDone |-> oldTopdone, results |-> results]
  PROVE  [s EXCEPT !.alive = alive, !.ids = ids, !.scores = scores, !.topDone = topDone,
                   !.cache = cache, !.memory = memory, !.offset = offset]
           = [step |-> step, expanded |-> expanded, ids |-> ids, scores |-> scores,
              alive |-> alive, cache |-> cache, memory |-> memory, offset |-> offset,
              topDone |-> topDone, results |-> results]
<1> DEFINE s1 == [s EXCEPT !.alive = alive]
           s2 == [s1 EXCEPT !.ids = ids]
           s3 == [s2 EXCEPT !.scores = scores]
           s4 == [s3 EXCEPT !.topDone = topDone]
           s5 == [s4 EXCEPT !.cache = cache]
           s6 == [s5 EXCEPT !.memory = memory]
           s7 == [s6 EXCEPT !.offset = offset]
<1>1. s1 = [step |-> step, expanded |-> expanded, ids |-> oldIds, scores |-> oldScores,
            alive |-> alive, cache |-> oldCache, memory |-> oldMemory, offset |-> oldOffset,
            topDone |-> oldTopdone, results |-> results]
  OBVIOUS
<1> HIDE DEF s1
<1>2. s2 = [step |-> step, expanded |-> expanded, ids |-> ids, scores |-> oldScores,
            alive |-> alive, cache |-> oldCache, memory |-> oldMemory, offset |-> oldOffset,
            topDone |-> oldTopdone, results |-> results]
  BY <1>1
<1> HIDE DEF s2
<1>3. s3 = [step |-> step, expanded |-> expanded, ids |-> ids, scores |-> scores,
            alive |-> alive, cache |-> oldCache, memory |-> oldMemory, offset |-> oldOffset,
            topDone |-> oldTopdone, results |-> results]
  BY <1>2
<1> HIDE DEF s3
<1>4. s4 = [step |-> step, expanded |-> expanded, ids |-> ids, scores |-> scores,
            alive |-> alive, cache |-> oldCache, memory |-> oldMemory, offset |-> oldOffset,
            topDone |-> topDone, results |-> results]
  BY <1>3
<1> HIDE DEF s4
<1>5. s5 = [step |-> step, expanded |-> expanded, ids |-> ids, scores |-> scores,
            alive |-> alive, cache |-> cache, memory |-> oldMemory, offset |-> oldOffset,
            topDone |-> topDone, results |-> results]
  BY <1>4
<1> HIDE DEF s5
<1>6. s6 = [step |-> step, expanded |-> expanded, ids |-> ids, scores |-> scores,
            alive |-> alive, cache |-> cache, memory |-> memory, offset |-> oldOffset,
            topDone |-> topDone, results |-> results]
  BY <1>5
<1> HIDE DEF s6
<1>7. s7 = [step |-> step, expanded |-> expanded, ids |-> ids, scores |-> scores,
            alive |-> alive, cache |-> cache, memory |-> memory, offset |-> offset,
            topDone |-> topDone, results |-> results]
  BY <1>6
<1> QED BY <1>7 DEF s1, s2, s3, s4, s5, s6, s7
=============================================================================
