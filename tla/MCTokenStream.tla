--------------------------- MODULE MCTokenStream ---------------------------
EXTENDS TokenStream

\* Two batches for the workers, one with two entries.
MCBatches == <<{1, 2}, {3}>>
MCLength == <<1, 1, 2>>
=============================================================================
