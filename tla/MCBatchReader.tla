--------------------------- MODULE MCBatchReader ---------------------------
EXTENDS BatchReader

\* A source of up to 4 lines of 0, 1 or 3 tokens and a target of up to 4 lines.
MCInputs ==
  {<<source, [line \in 1..size |-> 1]>> :
     source \in BoundedSeq({0, 1, 3}, 4), size \in 0..4}

MCCalls == [max : {1, 3, 4}, type : BatchTypes, padding : BOOLEAN]
=============================================================================
