------------------------------- MODULE Search -------------------------------
(***************************************************************************)
(* What the two search strategies of src/decoding.cc share. A score is     *)
(* modelled by its cost, the negated log probability, so lower is better.  *)
(* Every StorageView with a batch*beam dimension is a sequence of rows.    *)
(***************************************************************************)
EXTENDS Naturals, FiniteSets, Sequences, SequencesExt, FiniteSetsExt

CONSTANTS VocabularySize,  \* the words are 0 .. VocabularySize - 1
          Cost(_, _, _),   \* cost of a word, given the memory and the words read
          Calls            \* the calls of run_generation a behaviour may make

Words == 0 .. (VocabularySize - 1)

ASSUME SearchAssumption ==
  /\ VocabularySize \in Nat \ {0, 1}
  /\ \A c \in Calls :
       /\ c.prompts \in Seq(Seq(Words) \ {<<>>}) /\ c.prompts # <<>>
       /\ DOMAIN c.memories = DOMAIN c.prompts
       /\ {c.memories[e] : e \in DOMAIN c.memories} \subseteq Nat
       /\ {c.beamSize, c.maxCandidates, c.numHypotheses, c.maxLength, c.minLength,
           c.repetition, c.noRepeatNgram} \subseteq Nat
       /\ c.endIds \cup c.suppressed \cup c.suppressedBegin \subseteq Words
       /\ {c.includePrompt, c.normalize, c.includeEos, c.cpu, c.ascending} \subseteq BOOLEAN
       /\ c.bannedSequences \subseteq Seq(Words) \ {<<>>}

VARIABLE call  \* prompts, memories (one of each per entry), includePrompt, beamSize,
               \* maxCandidates, numHypotheses, maxLength, minLength, normalize
               \* (length_penalty is 1, else 0), endIds, includeEos, cpu, ascending
               \* (how equal scores are ordered), stops (when the callback is true);
               \* the logits processors: repetition (what repetition_penalty adds to
               \* a cost), noRepeatNgram, suppressed (disable_ids), suppressedBegin
               \* (disable_ids_begin), bannedSequences (disable_sequences)

Entries == DOMAIN call.prompts

\* -1e10, lowest() and infinity: a sum with one of the first two is absorbed by
\* it, but twice lowest() overflows.
Penalised == 1000
Disabled == 2000
Infinite == 3000
Plus(a, b) ==
  IF Min({a, b}) >= Disabled THEN Infinite
  ELSE IF Max({a, b}) >= Penalised THEN Max({a, b}) ELSE a + b

\* The positions of a batch of rows of the given size: the flat index of the
\* k-th row of entry n, and back.
Flat(n, k, size) == (n - 1) * size + k
EntryRows(n, size) == [k \in 1..size |-> Flat(n, k, size)]
EntryOf(index, size) == (index - 1) \div size + 1
RowOf(index, size) == ((index - 1) % size) + 1

Gather(data, indices) == [n \in DOMAIN indices |-> data[indices[n]]]
RepeatBatch(data, times) ==
  [n \in 1..(Len(data) * times) |-> data[EntryOf(n, times)]]

\* The members of a set of positions, the first one first.
InOrder(positions) ==
  [m \in 1..Cardinality(positions) |->
     CHOOSE p \in positions : Cardinality({q \in positions : q < p}) + 1 = m]

\* The tokens run_generation forwards at once, before the search.
ForwardLength ==
  IF call.includePrompt THEN 0 ELSE Min({Len(call.prompts[e]) : e \in Entries}) - 1
ReturnPrefix == ForwardLength = 0

StartWord(e) == call.prompts[e][ForwardLength + 1]
Prefix(e) == SubSeq(call.prompts[e], ForwardLength + 2, Len(call.prompts[e]))
HasPrefix == \E e \in Entries : Prefix(e) # <<>>

\* The state of a search over the entries in the sequence offset.
SearchState(offset) ==
  [step      |-> 0,
   expanded  |-> FALSE,                             \* beam_size rows per entry
   ids       |-> [n \in DOMAIN offset |-> StartWord(offset[n])],
   scores    |-> [n \in DOMAIN offset |-> 0],
   alive     |-> [n \in DOMAIN offset |-> <<>>],    \* alive_seq
   cache     |-> [n \in DOMAIN offset |->           \* the words a row has read
                    SubSeq(call.prompts[offset[n]], 1, ForwardLength)],
   memory    |-> [n \in DOMAIN offset |-> call.memories[offset[n]]],
   offset    |-> offset,                            \* batch_offset
   topDone   |-> [n \in DOMAIN offset |-> FALSE],   \* top_beam_finished
   results   |-> [e \in Entries |-> <<>>]]

Width(s) == IF s.expanded THEN call.beamSize ELSE 1

\* decoder(step, topk_ids, state, &logits): each row reads its last word.
Read(s, r) == Append(s.cache[r], s.ids[r])

\* apply_min_length: the rows whose end tokens are disabled. With a prefix that
\* is not returned the code uses the index of the entry as that of the row.
MinLengthByEntry == HasPrefix /\ ~ReturnPrefix
MinLengthRows(s) ==
  IF MinLengthByEntry
  THEN {n \in DOMAIN s.offset : s.step < Len(Prefix(s.offset[n])) + call.minLength}
  ELSE IF s.step < call.minLength THEN DOMAIN s.cache ELSE {}

\* NoRepeatNgram: the words that end an n-gram whose other words end the row.
NgramFinals(words) ==
  LET n == call.noRepeatNgram
      starts == {i \in 1..(Len(words) - n + 1) :
                   SubSeq(words, i, i + n - 2) = SubSeq(words, Len(words) - n + 2, Len(words))}
  IN IF n = 0 THEN {} ELSE {words[i + n - 1] : i \in starts}

\* SuppressSequences: the last words of the sequences the row ends with the rest of.
SequenceFinals(words) ==
  {Last(banned) : banned \in {b \in call.bannedSequences : IsSuffix(Front(b), words)}}

\* SuppressTokensBegin: only for the first word after the prefix of the row's entry.
BeginWords(s, r) ==
  IF s.step = Len(Prefix(s.offset[EntryOf(r, Width(s))])) THEN call.suppressedBegin ELSE {}

DisabledWords(s, r) ==
  UNION {IF r \in MinLengthRows(s) THEN call.endIds ELSE {}, call.suppressed,
         BeginWords(s, r), NgramFinals(s.alive[r]), SequenceFinals(s.alive[r])}

\* The log softmax of a row in which every word is disabled is uniform.
Uniform == 2

\* The cost of word w in row r after the logits processors.
WordCost(s, r, w) ==
  IF DisabledWords(s, r) = Words THEN Uniform
  ELSE IF w \in DisabledWords(s, r) THEN Disabled
  ELSE Cost(s.memory[EntryOf(r, Width(s))], Read(s, r), w)
         + IF w \in ToSet(s.alive[r]) THEN call.repetition ELSE 0

\* The sampler: the best candidates, the best one first (BestSampler).
TopK(candidates, count) ==
  LET id(c) == c.origin * VocabularySize + c.word
      before(c, d) ==
        \/ c.cost < d.cost
        \/ c.cost = d.cost /\ IF call.ascending THEN id(c) < id(d) ELSE id(c) > id(d)
      rank(c) == Cardinality({d \in candidates : before(d, c)}) + 1
  IN SubSeq([k \in 1..count |-> CHOOSE c \in candidates : rank(c) = k], 1, count)

\* update_sample_with_prefix: inside the prefix its word is forced on every
\* candidate, right after it the end tokens are kept from secondary candidates.
WithPrefix(s, n, k, candidate) ==
  LET prefix == Prefix(s.offset[n])
      first == Flat(n, 1, Width(s))
  IN IF s.step < Len(prefix)
     THEN [origin |-> first, word |-> prefix[s.step + 1],
           cost |-> IF k = 1 THEN 0 ELSE Penalised]
     ELSE IF HasPrefix /\ s.step = Len(prefix) /\ k > 1 /\ candidate.word \in call.endIds
     THEN [origin |-> first, word |-> 0, cost |-> Penalised]
     ELSE candidate

IsLastStep(s, e) ==
  s.step + 1 = call.maxLength + IF ReturnPrefix THEN 0 ELSE Len(Prefix(e))

\* An end token ends a sequence unless it is part of the prefix.
Ends(s, e, word) == word \in call.endIds /\ s.step >= Len(Prefix(e))

\* finalize_result: normalize the scores, sort, and keep num_hypotheses.
Finalized(hypotheses) ==
  LET length(h) == IF call.normalize THEN Len(h.words) ELSE 1
      better(i, j) ==
        LET left == hypotheses[i].cost * length(hypotheses[j])
            right == hypotheses[j].cost * length(hypotheses[i])
        IN left < right \/ (left = right /\ i < j)
      rank(i) == Cardinality({j \in DOMAIN hypotheses : better(j, i)}) + 1
  IN [k \in 1..Min({Len(hypotheses), call.numHypotheses}) |->
        hypotheses[CHOOSE i \in DOMAIN hypotheses : rank(i) = k]]
=============================================================================
