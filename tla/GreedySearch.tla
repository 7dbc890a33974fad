---------------------------- MODULE GreedySearch ----------------------------
(***************************************************************************)
(* GreedySearch::search (src/decoding.cc) with one hypothesis per entry.   *)
(***************************************************************************)
EXTENDS Search

GreedyStart(offset) == SearchState(offset)

\* The word sampled for row n and its cost.
GreedyWord(s, n) ==
  WithPrefix(s, n, 1,
             TopK({[origin |-> n, word |-> w, cost |-> WordCost(s, n, w)] : w \in Words}, 1)[1])

\* The hypothesis of row n with the word of this step.
Extended(s, n, sample) ==
  LET e == s.offset[n]
      result == IF s.step = 0 THEN [words |-> <<>>, cost |-> 0] ELSE s.results[e][1]
      kept == /\ sample.word \notin call.endIds \/ call.includeEos
              /\ ReturnPrefix \/ s.step >= Len(Prefix(e))
  IN [words |-> IF kept THEN Append(result.words, sample.word) ELSE result.words,
      cost  |-> Plus(result.cost, sample.cost)]

\* The callback sees the words that are not a hidden prefix and may stop the entry.
Stopped(s, e) ==
  (ReturnPrefix \/ s.step >= Len(Prefix(e))) /\ <<e, s.step>> \in call.stops

\* Faulty variant: the words read next are not reordered with the other rows.
KeepAliveUnordered(s, alive) ==
  [s EXCEPT !.alive = Gather(@, alive), !.ids = SubSeq(@, 1, Len(alive)),
            !.scores = Gather(@, alive), !.topDone = Gather(@, alive),
            !.cache = Gather(@, alive), !.memory = Gather(@, alive),
            !.offset = Gather(@, alive)]

\* Finished entries are removed from the batch.
KeepAlive(s, alive) ==
  [s EXCEPT !.alive = Gather(@, alive), !.ids = Gather(@, alive),
            !.scores = Gather(@, alive), !.topDone = Gather(@, alive),
            !.cache = Gather(@, alive), !.memory = Gather(@, alive),
            !.offset = Gather(@, alive)]

\* One turn of the loop over the steps.
GreedyStep(s) ==
  LET rows == DOMAIN s.offset
      sample == [n \in rows |-> GreedyWord(s, n)]
      finished == {n \in rows : \/ Ends(s, s.offset[n], sample[n].word)
                                \/ IsLastStep(s, s.offset[n])
                                \/ Stopped(s, s.offset[n])}
      rowOf(e) == {n \in rows : s.offset[n] = e}
      next == [s EXCEPT !.step = @ + 1,
                        !.ids = [n \in rows |-> sample[n].word],
                        !.alive = [n \in rows |-> Append(s.alive[n], sample[n].word)],
                        !.cache = [n \in rows |-> Read(s, n)],
                        !.results = [e \in Entries |->
                          IF rowOf(e) = {} THEN s.results[e]
                          ELSE LET n == CHOOSE n \in rowOf(e) : TRUE
                               IN <<Extended(s, n, sample[n])>>]]
  IN KeepAlive(next, InOrder(rows \ finished))
=============================================================================
