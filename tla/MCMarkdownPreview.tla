--------------------------- MODULE MCMarkdownPreview ---------------------------
(* Small instances of MarkdownPreview for TLC: every document of up to three *)
(* lines, and longer ones with few kinds of lines.                           *)
EXTENDS MarkdownPreview

Plain(kind) == [kind |-> kind, indented |-> FALSE, pipe |-> FALSE, delimiter |-> FALSE]

FewLines ==
  {Plain(kind) : kind \in {"blank", "fence", "task", "bullet", "text"}}
  \cup {[Plain("text") EXCEPT !.pipe = TRUE, !.delimiter = d] : d \in BOOLEAN}
  \cup {[Plain("bullet") EXCEPT !.indented = TRUE]}

MCDocuments ==
  UNION {[1..n -> Lines] : n \in 1..3} \cup UNION {[1..n -> FewLines] : n \in 4..5}
=============================================================================
