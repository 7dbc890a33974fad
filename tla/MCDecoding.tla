----------------------------- MODULE MCDecoding -----------------------------
EXTENDS Decoding

\* A cost from 1 to 9 that differs with the memory, the words read and their order.
MCCost(memory, read, word) ==
  LET hash(acc, w) == (acc * 5 + w + 1) % 101
      seed == FoldLeft(hash, memory * 7 + 3, Append(read, word))
  IN <<1, 1, 2, 4, 6, 9>>[1 + (((seed * 11) % 97) % 6)]

\* The calls with the given prompts, where the end token is word 3 and the other
\* options have a few values each.
Family(prompts, include, beam, candidates, hypotheses, length, minimum, stops) ==
  [prompts : {prompts}, includePrompt : {include},
   memories : [DOMAIN prompts -> IF Len(prompts) = 2 THEN 1..12 ELSE 1..4],
   beamSize : {beam}, maxCandidates : {candidates}, numHypotheses : {hypotheses},
   maxLength : {length}, minLength : {minimum}, normalize : BOOLEAN, endIds : {{3}},
   includeEos : BOOLEAN, cpu : BOOLEAN, ascending : {TRUE}, stops : {stops},
   repetition : {0}, noRepeatNgram : {0}, suppressed : {{}}, suppressedBegin : {{}},
   bannedSequences : {{}}]

\* Some of the calls, with logits processors.
Processed(calls, repetition, ngram, suppressed, begin, banned) ==
  {[c EXCEPT !.repetition = repetition, !.noRepeatNgram = ngram,
             !.suppressed = suppressed, !.suppressedBegin = begin,
             !.bannedSequences = banned] :
     c \in {d \in calls : d.cpu = d.includeEos /\ \A e \in DOMAIN d.memories : d.memories[e] <= 6}}

\* Some of the calls, with other end tokens.
Ending(calls, tokens) ==
  {[c EXCEPT !.endIds = tokens] :
     c \in {d \in calls : \A e \in DOMAIN d.memories : d.memories[e] <= 6}}

Plain == << <<1>>, <<1>> >>
Triple == << <<1>>, <<0>>, <<2>> >>
Mixed == << <<1>>, <<1, 2, 0>> >>
Long == << <<1, 2>>, <<1, 0, 2>> >>
Both == << <<1, 0>>, <<1, 2, 0>> >>
Level == << <<1, 2>>, <<0, 2>> >>

MCCalls ==
  UNION {
    Family(Plain, TRUE, 1, 1, 1, 3, 1, {}),               \* greedy search
    Family(Mixed, TRUE, 1, 1, 1, 4, 0, {<<1, 1>>}),       \*   stopped by the callback
    Family(Long, FALSE, 1, 1, 1, 2, 1, {}),               \*   with a hidden prefix
    Family(Plain, TRUE, 2, 2, 1, 4, 0, {}),
    Family(Plain, TRUE, 2, 2, 2, 3, 1, {}),
    Family(Mixed, TRUE, 2, 4, 3, 4, 0, {}),               \* patience 2
    Family(Long, FALSE, 2, 2, 2, 2, 0, {}),
    Family(Plain, TRUE, 4, 4, 1, 2, 0, {}),               \* a wide beam
    Family(Triple, TRUE, 2, 2, 1, 3, 0, {}),
    \* the logits processors, the second with no word left for some rows
    Processed(Family(Plain, TRUE, 1, 1, 1, 4, 0, {}), 3, 2, {}, {2}, {}),
    Processed(Family(Mixed, TRUE, 2, 2, 2, 4, 4, {}), 0, 1, {}, {}, {<<2>>}),
    Processed(Family(Long, FALSE, 2, 2, 1, 2, 0, {}), 3, 1, {}, {3}, {}),
    Processed(Family(Mixed, TRUE, 2, 4, 2, 4, 0, {}), 0, 2, {}, {0}, {<<1, 2>>, <<1, 3>>}),
    Processed(Family(Plain, TRUE, 4, 4, 1, 2, 1, {}), 2, 0, {2}, {0}, {<<1, 0>>}),
    \* prompts that are all longer than a token, or hidden and equally long
    Ending(Family(Both, TRUE, 2, 2, 2, 4, 3, {}), {3}),
    Ending(Family(Level, FALSE, 2, 4, 3, 3, 2, {}), {3}),
    Ending(Family(Mixed, FALSE, 1, 1, 1, 4, 2, {}), {3}),
    \* no end token, several ones, and one that is in a prefix
    Ending(Family(Plain, TRUE, 2, 2, 2, 3, 2, {}), {}),
    Ending(Family(Plain, TRUE, 2, 4, 3, 3, 0, {}), {2, 3}),
    Ending(Family(Long, FALSE, 2, 2, 2, 3, 0, {}), {0}),
    Ending(Family(Mixed, TRUE, 1, 1, 1, 4, 0, {}), {0}),
    Ending(Family(Mixed, TRUE, 2, 2, 2, 4, 0, {}), {0, 3})}
=============================================================================
