------------------------- MODULE MCFileTranslation -------------------------
EXTENDS FileTranslation

\* An empty file, one of lines that the sort has to reorder, and two with a
\* target, which is complete or one line short.
MCInputs ==
  {<<<<>>>>, <<<<1, 2, 1, 2>>>>}
    \cup {<<<<1, 2, 1>>, [line \in 1..size |-> 1]>> : size \in {2, 3}}
=============================================================================
