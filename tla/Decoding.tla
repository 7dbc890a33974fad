------------------------------ MODULE Decoding ------------------------------
(***************************************************************************)
(* decode (src/decoding.cc) as DecoderReplica::run_generation calls it     *)
(* (src/models/language_model.cc): the loop over the steps of the search   *)
(* for a batch of entries. Next to it runs, for comparison, the call that  *)
(* has one of the entries alone: what shares the batch must not matter.    *)
(***************************************************************************)
EXTENDS DecodingLoop

VARIABLES search,  \* the search over the batch
          entry,   \* the entry that is compared
          alone    \* reference: the search of the call that has only this entry

vars == <<call, search, entry, alone>>

\* validate_decoding_options.
Valid(c) ==
  /\ c.beamSize > 0 /\ c.numHypotheses > 0
  /\ c.numHypotheses <= c.maxCandidates
  /\ c.maxLength > 0 /\ c.minLength <= c.maxLength
  /\ c.stops # {} => c.beamSize = 1

Options ==
  {"prompts", "memories", "includePrompt", "beamSize", "maxCandidates", "numHypotheses",
   "maxLength", "minLength", "normalize", "endIds", "includeEos", "cpu", "ascending", "stops",
   "repetition", "noRepeatNgram", "suppressed", "suppressedBegin", "bannedSequences"}

\* The call that has the compared entry alone. Its prompt stands at every place, so
\* that the entry keeps its number; the search below starts with this entry only.
OwnCall ==
  [option \in Options |->
     IF option \in {"prompts", "memories"}
     THEN [e \in Entries |-> call[option][entry]] ELSE call[option]]

Own == INSTANCE DecodingLoop WITH call <- OwnCall

Init ==
  /\ call \in {c \in Calls : Valid(c)}
  /\ entry \in Entries
  /\ search = Start([e \in Entries |-> e])
  /\ alone = Own!Start(<<entry>>)

\* The other call runs at the pace of the batch.
OwnTurn == IF Own!Running(alone) THEN Own!Turn(alone) ELSE alone

GreedySearchStep ==
  /\ IsGreedy /\ Running(search)
  /\ search' = GreedyStep(search)
  /\ alone' = OwnTurn
  /\ UNCHANGED <<call, entry>>

BeamSearchStep ==
  /\ ~IsGreedy /\ Running(search)
  /\ search' = BeamStep(search)
  /\ alone' = OwnTurn
  /\ UNCHANGED <<call, entry>>

Next == GreedySearchStep \/ BeamSearchStep

Spec == Init /\ [][Next]_vars

-----------------------------------------------------------------------------
Finished(e) == e \notin ToSet(search.offset)

\* A beam of which apply_min_length takes wrong rows: while there is one row for
\* each entry, its index is that of the entry.
MinLengthMisplaced ==
  /\ ~IsGreedy /\ MinLengthByEntry
  /\ ~ExpandAfterFirstStep \/ \E e \in Entries : Len(Prefix(e)) + call.minLength > 1

\* What the decoder of entry e has read before the words.
History(e, words) == SubSeq(call.prompts[e], 1, ForwardLength + 1) \o words

\* Reference: what the options forbid to entry e after the given words.
Forbidden(e, before) ==
  LET read == Len(before)
      free == read + 1 - Len(Prefix(e))
      n == call.noRepeatNgram
      repeats(w) ==
        \E i \in n..read :
          SubSeq(before, i - n + 1, i) = Append(SubSeq(before, read - n + 2, read), w)
  IN {w \in Words :
        \/ w \in call.suppressed
        \/ free = 1 /\ w \in call.suppressedBegin
        \/ (IF ReturnPrefix THEN read + 1 ELSE free) <= call.minLength /\ w \in call.endIds
        \/ n > 0 /\ repeats(w)
        \/ \E banned \in call.bannedSequences : IsSuffix(banned, Append(before, w))}

\* Reference: the cost of a word after the given ones.
NextCost(e, before, word) ==
  IF Forbidden(e, before) = Words THEN Uniform
  ELSE IF word \in Forbidden(e, before) THEN Disabled
  ELSE Cost(call.memories[e], History(e, before), word)
         + IF word \in ToSet(before) THEN call.repetition ELSE 0

\* Reference: the cost of a sequence of words that starts with the prefix.
PathCost(e, words) ==
  LET cost(t) == NextCost(e, SubSeq(words, 1, t - 1), words[t])
  IN MapThenSumSet(cost, (Len(Prefix(e)) + 1)..Len(words))

\* The parallel arrays of a search stay aligned: after every reordering of the
\* beams and removal of finished entries each row holds the decoder state, the
\* last word and the score of one and the same sequence of its own entry.
\* (The score only if the minimum length is applied to the right rows.)
RowsAligned ==
  \A n \in DOMAIN search.offset : \A k \in 1..Width(search) :
    LET e == search.offset[n]
        r == Flat(n, k, Width(search))
        read == History(e, search.alive[r])
    IN /\ search.memory[n] = call.memories[e]
       /\ Append(search.cache[r], search.ids[r]) = read
       /\ IsGreedy \/ MinLengthMisplaced \/ search.scores[r] >= Penalised
            \/ search.scores[r] = PathCost(e, search.alive[r])

\* The words of a hypothesis of entry e after its prefix.
Continuation(e, words) ==
  IF ReturnPrefix THEN SubSeq(words, Len(Prefix(e)) + 1, Len(words)) ELSE words

\* With several end tokens the secondary candidates of a beam may all end.
SeveralEnds == \E v, w \in call.endIds : v # w

\* The prefix, as far as the maximum length returns it.
ReturnedPrefix(e) == SubSeq(Prefix(e), 1, Min({Len(Prefix(e)), call.maxLength}))

\* include_eos_in_hypothesis leaves out end tokens of a prefix that is returned.
EndInPrefix(e) ==
  /\ ReturnPrefix /\ ~call.includeEos
  /\ ToSet(ReturnedPrefix(e)) \cap call.endIds # {}

\* An end token right after the prefix that costs nothing: without it a hypothesis is
\* empty, and normalizing divides its score, zero, by zero.
EmptyForFree(e) ==
  /\ ~IsGreedy /\ call.normalize /\ ~call.includeEos
  /\ ReturnPrefix => Prefix(e) = <<>>
  /\ \E w \in call.endIds : Cost(call.memories[e], History(e, Prefix(e)), w) = 0

\* A hypothesis of entry e continues the prefix and is within the length limits (if
\* the options leave it a word that does not end it), has no end token but its last
\* word and no word the options forbid at its place (unless they leave none).
WordsComplete(e, words) ==
  LET free == Continuation(e, words)
      forbidden(t) == Forbidden(e, Prefix(e) \o SubSeq(free, 1, t - 1))
  IN /\ Len(words) <= call.maxLength
     /\ \/ Len(words) >= call.minLength
        \/ call.stops # {} \/ MinLengthMisplaced
        \/ \E t \in 1..(Len(free) + 1) : forbidden(t) = Words
     /\ ReturnPrefix => \/ IsPrefix(ReturnedPrefix(e), words)
                        \/ call.stops # {} /\ IsPrefix(words, Prefix(e))
     /\ \A t \in DOMAIN free :
          /\ IsGreedy \/ ~SeveralEnds => (free[t] \in call.endIds => call.includeEos /\ t = Len(free))
          /\ free[t] \in forbidden(t) => forbidden(t) = Words \/ MinLengthMisplaced

\* A finished entry has the hypotheses that were asked for (fewer only when patience
\* allows more than a beam holds), best first. Unless its score is a penalty, each
\* has the words it should have and is returned once.
ResultsComplete ==
  \A e \in {f \in Entries : Finished(f)} :
    LET hypotheses == search.results[e]
        own(h) == h.cost < Penalised
        length(h) == IF call.normalize THEN Len(h.words) ELSE 1
    IN /\ Len(hypotheses) >= Min({call.numHypotheses, call.beamSize})
       /\ ~EndInPrefix(e) /\ ~EmptyForFree(e) =>
            /\ \A i, j \in DOMAIN hypotheses : i < j =>
                 LET g == hypotheses[i] h == hypotheses[j]
                 IN /\ g.cost * length(h) <= h.cost * length(g)
                    /\ own(g) /\ own(h) /\ g.words = h.words => SeveralEnds /\ ~call.includeEos
            /\ \A i \in DOMAIN hypotheses :
                 own(hypotheses[i]) => WordsComplete(e, hypotheses[i].words)

\* What the code takes from the batch as a whole is what the entry alone gives: the
\* number of tokens forwarded at once and, in beam search, whether there is a prefix.
SettingsOwn ==
  /\ Own!ForwardLength = ForwardLength
  /\ IsGreedy \/ Own!HasPrefix = HasPrefix

\* The result of an entry does not depend on the entries it shares a batch with,
\* except through these two.
BatchIndependent == SettingsOwn => search.results[entry] = alone.results[entry]

\* Every complete sequence: up to an end token, or as long as allowed.
CompleteSequences ==
  {words \in BoundedSeq(Words, call.maxLength) :
     /\ words # <<>>
     /\ \A t \in 1..(Len(words) - 1) : words[t] \notin call.endIds
     /\ Len(words) = call.maxLength \/ Last(words) \in call.endIds}

\* A beam as wide as the tree of the sequences finds a best one: leaving when
\* the first beam has finished loses nothing (the comment on allow_early_exit).
WideBeamIsExact ==
  \A e \in {f \in Entries : Finished(f)} :
    /\ AllowEarlyExit /\ ~IsGreedy /\ ~HasPrefix
    /\ call.beamSize >= VocabularySize ^ (call.maxLength - 1)
    => search.results[e][1].cost = Min({PathCost(e, words) : words \in CompleteSequences})
=============================================================================
