------------------------------ MODULE Batching ------------------------------
(***************************************************************************)
(* How CTranslate2 cuts examples into batches (src/batch_reader.cc).       *)
(*                                                                         *)
(* A stream is the sequence of the lengths of its lines. An example has the*)
(* number "line" of the lines it was read from, and the lengths of those   *)
(* lines, one per stream; what the lines say makes no difference here.     *)
(***************************************************************************)
EXTENDS Naturals, Sequences, FiniteSets, SequencesExt

BatchTypes == {"examples", "tokens"}

\* Example::length(): the length of the first stream.
Length(example) == example.lengths[1]

\* get_batch_size_increment
Increment(example, type) == IF type = "tokens" THEN Length(example) ELSE 1

-----------------------------------------------------------------------------
(* Faulty variants of operators below, for mutation testing.               *)

\* ParallelBatchReader does not notice that a stream ended before the first.
ShortStreamIgnored(streams) == FALSE

\* The size of a batch is computed before the last example is added to it.
NewBatchSizeLate(rest, n, type, padding) ==
  IF padding
  THEN (n - 1) * Max({Increment(rest[i], type) : i \in 1..n})
  ELSE MapThenSumSet(LAMBDA i : Increment(rest[i], type), 1..(n - 1))

-----------------------------------------------------------------------------
(* ParallelBatchReader::get_next_example. The first stream says where the  *)
(* input ends: a stream that ends before it is an error, what other streams*)
(* still have is not looked at.                                            *)

StreamLengths(streams) == {Len(streams[s]) : s \in DOMAIN streams}

\* The exception "One input stream has less examples than the others".
ShortStream(streams) == \E s \in DOMAIN streams : Len(streams[s]) < Len(streams[1])

\* The examples it returns before the end or the exception.
Examples(streams) ==
  [line \in 1..Min(StreamLengths(streams)) |->
     [line |-> line, lengths |-> [s \in DOMAIN streams |-> streams[s][line]]]]

-----------------------------------------------------------------------------
(* BatchReader::fill_batch_with_fixed_increment ("padding") and            *)
(* fill_batch_with_variable_increment.                                     *)

\* new_batch_size when the n-th of the remaining examples is looked at: what
\* padding the first n to the longest takes, or the sum of their increments.
NewBatchSize(rest, n, type, padding) ==
  IF padding
  THEN n * Max({Increment(rest[i], type) : i \in 1..n})
  ELSE MapThenSumSet(LAMBDA i : Increment(rest[i], type), 1..n)

\* The number of examples in the batch: the loop breaks at the first one, but
\* never at the very first, that does not fit.
BatchLength(rest, max_batch_size, type, padding) ==
  LET breaks == {n \in 2..Len(rest) :
                   NewBatchSize(rest, n, type, padding) > max_batch_size}
  IN IF breaks = {} THEN Len(rest) ELSE Min(breaks) - 1

-----------------------------------------------------------------------------
(* rebatch_input.                                                          *)

\* std::sort by decreasing length: it may leave equal ones in any order.
SortedOrders(examples) ==
  {order \in [DOMAIN examples -> DOMAIN examples] :
     /\ \A i, k \in DOMAIN examples : i # k => order[i] # order[k]
     /\ IsSorted(order, LAMBDA i, k : Length(examples[i]) >= Length(examples[k]))}

\* The batch of "count" examples from position "first" of the sorted input.
BatchAt(examples, order, first, count) ==
  [examples      |-> [i \in 1..count |-> examples[order[first + i - 1]]],
   example_index |-> [i \in 1..count |-> order[first + i - 1]]]

\* A max_batch_size of 0 means one batch.
Rebatch(examples, order, max_batch_size, type) ==
  LET total == Len(examples)
      max  == IF max_batch_size = 0 THEN total ELSE max_batch_size
      kind == IF max_batch_size = 0 THEN "examples" ELSE type
      sorted == [i \in 1..total |-> examples[order[i]]]
      from[first \in 1..(total + 1)] ==
        IF first > total THEN <<>>
        ELSE LET count == BatchLength(SubSeq(sorted, first, total), max, kind, TRUE)
             IN <<BatchAt(examples, order, first, count)>> \o from[first + count]
  IN from[1]
-----------------------------------------------------------------------------
\* What max_batch_size is meant to bound, for the properties: the number of
\* examples or of tokens, where padding makes each as long as the longest.
Volume(examples, call) ==
  LET sizes == [i \in DOMAIN examples |->
                  IF call.type = "tokens" THEN Length(examples[i]) ELSE 1]
  IN IF call.padding THEN Len(examples) * Max(ToSet(sizes))
     ELSE MapThenSumSet(LAMBDA i : sizes[i], DOMAIN examples)
=============================================================================
