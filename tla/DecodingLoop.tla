---------------------------- MODULE DecodingLoop ----------------------------
(***************************************************************************)
(* One call of decode (src/decoding.cc): the strategy it makes, the number *)
(* of its steps, and one turn of its loop.                                 *)
(***************************************************************************)
EXTENDS BeamSearch, GreedySearch

\* make_search_strategy.
IsGreedy == call.beamSize = 1

Start(offset) == IF IsGreedy THEN GreedyStart(offset) ELSE BeamStart(offset)

\* get_max_step.
MaxStep ==
  call.maxLength + IF ReturnPrefix THEN 0 ELSE Max({Len(Prefix(e)) : e \in Entries})

Running(s) == s.offset # <<>> /\ s.step < MaxStep

Turn(s) == IF IsGreedy THEN GreedyStep(s) ELSE BeamStep(s)
=============================================================================
