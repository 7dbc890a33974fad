----------------------------- MODULE BeamSearch -----------------------------
(***************************************************************************)
(* BeamSearch::search (src/decoding.cc), without biased decoding and       *)
(* coverage penalty.                                                       *)
(***************************************************************************)
EXTENDS Search

NumCandidates == 2 * call.beamSize
ExpandAfterFirstStep == call.cpu /\ NumCandidates <= VocabularySize
AllowEarlyExit == ~call.normalize

BeamStart(offset) ==
  LET s == SearchState(offset)
      size == call.beamSize
      repeated == [s EXCEPT !.expanded = TRUE,
                            !.ids = RepeatBatch(@, size),
                            !.alive = RepeatBatch(@, size),
                            !.cache = RepeatBatch(@, size),
                            !.scores = [r \in 1..(Len(@) * size) |->
                                          IF RowOf(r, size) = 1 THEN 0 ELSE Disabled]]
  IN IF ExpandAfterFirstStep THEN s ELSE repeated

\* The candidates of all the entries, NumCandidates for each, best first.
BeamCandidates(s) ==
  LET of(n) ==
        LET best == TopK({[origin |-> r, word |-> w,
                           cost |-> Plus(s.scores[r], WordCost(s, r, w))] :
                            r \in ToSet(EntryRows(n, Width(s))), w \in Words}, NumCandidates)
        IN [k \in 1..NumCandidates |-> WithPrefix(s, n, k, best[k])]
  IN FlattenSeq([n \in DOMAIN s.offset |-> of(n)])

\* The beams of entry n that hold a finished hypothesis.
FinishedBeams(s, n, candidates) ==
  {k \in 1..call.beamSize :
     \/ Ends(s, s.offset[n], candidates[Flat(n, k, NumCandidates)].word)
     \/ IsLastStep(s, s.offset[n])}

\* Faulty variant: a finished beam stays where it is.
NoReplacement(s, n, k, candidates) == k

\* The candidate that goes on in beam k: a finished one is replaced by the next
\* secondary candidate that is not an end token, as long as there is one.
ActiveCandidate(s, n, k, candidates) ==
  LET finished == FinishedBeams(s, n, candidates)
      position == Cardinality({j \in finished : j <= k})
      spare == InOrder({j \in (call.beamSize + 1)..NumCandidates :
                          candidates[Flat(n, j, NumCandidates)].word \notin call.endIds})
  IN IF k \in finished /\ position <= Len(spare) THEN spare[position] ELSE k

\* The hypotheses entry n registers in this step; alive is the new alive_seq.
Registered(s, n, candidates, alive) ==
  LET prefix == Len(Prefix(s.offset[n]))
      start == IF ReturnPrefix THEN 1 ELSE prefix + 1
      hypothesis(k) ==
        LET p == Flat(n, k, NumCandidates)
            ignore == candidates[p].word \in call.endIds /\ ~call.includeEos
        IN [words |-> SubSeq(alive[p], start, s.step + IF ignore THEN 0 ELSE 1),
            cost  |-> candidates[p].cost]
      beams == InOrder(FinishedBeams(s, n, candidates))
  IN [m \in DOMAIN beams |-> hypothesis(beams[m])]

\* Faulty variant: enough hypotheses end the search, the first beam or not.
FinishedByCount(s, n, topDone, hypotheses) ==
  IsLastStep(s, s.offset[n]) \/ Len(hypotheses) >= call.numHypotheses

\* Entry n is finished: at its last step, or with enough hypotheses, which
\* without penalties also takes that the first beam has finished.
IsFinished(s, n, topDone, hypotheses) ==
  \/ IsLastStep(s, s.offset[n])
  \/ IF AllowEarlyExit THEN topDone /\ Len(hypotheses) >= call.numHypotheses
                       ELSE Len(hypotheses) >= call.maxCandidates

\* Faulty variant: top_beam_finished keeps the flags of the finished entries.
CompactWithoutTop(s, kept) ==
  LET rows == FlattenSeq([m \in DOMAIN kept |-> EntryRows(kept[m], call.beamSize)])
  IN [s EXCEPT !.ids = Gather(@, rows), !.scores = Gather(@, rows),
               !.alive = Gather(@, rows), !.cache = Gather(@, rows),
               !.memory = Gather(@, kept), !.offset = Gather(@, kept)]

\* Finished entries are ignored for the next step (keep_batches).
Compact(s, kept) ==
  LET rows == FlattenSeq([m \in DOMAIN kept |-> EntryRows(kept[m], call.beamSize)])
  IN [s EXCEPT !.ids = Gather(@, rows), !.scores = Gather(@, rows),
               !.alive = Gather(@, rows), !.cache = Gather(@, rows),
               !.memory = Gather(@, kept), !.offset = Gather(@, kept),
               !.topDone = Gather(@, kept)]

\* One turn of the loop over the steps.
BeamStep(s) ==
  LET candidates == BeamCandidates(s)
      origins == [p \in DOMAIN candidates |-> candidates[p].origin]
      alive == [p \in DOMAIN candidates |->
                  Append(s.alive[origins[p]], candidates[p].word)]
      active == FlattenSeq([n \in DOMAIN s.offset |->
                  [k \in 1..call.beamSize |->
                     Flat(n, ActiveCandidate(s, n, k, candidates), NumCandidates)]])
      topDone == [n \in DOMAIN s.offset |->
                    s.topDone[n] \/ 1 \in FinishedBeams(s, n, candidates)]
      hypotheses == [n \in DOMAIN s.offset |->
                       s.results[s.offset[n]] \o Registered(s, n, candidates, alive)]
      finished == {n \in DOMAIN s.offset : IsFinished(s, n, topDone[n], hypotheses[n])}
      results == [e \in Entries |->
                    IF \E n \in DOMAIN s.offset : s.offset[n] = e
                    THEN LET n == CHOOSE n \in DOMAIN s.offset : s.offset[n] = e
                         IN IF n \in finished THEN Finalized(hypotheses[n])
                                              ELSE hypotheses[n]
                    ELSE s.results[e]]
      next == [s EXCEPT !.step = @ + 1, !.expanded = TRUE, !.results = results,
                        !.topDone = topDone,
                        !.ids = [q \in DOMAIN active |-> candidates[active[q]].word],
                        !.scores = [q \in DOMAIN active |-> candidates[active[q]].cost],
                        !.alive = Gather(alive, active),
                        !.cache = [q \in DOMAIN active |-> Read(s, origins[active[q]])]]
  IN Compact(next, InOrder(DOMAIN s.offset \ finished))
=============================================================================
