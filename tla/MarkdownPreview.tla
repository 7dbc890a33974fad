--------------------------- MODULE MarkdownPreview ---------------------------
(***************************************************************************)
(* The Markdown preview of the note editor: the loop over the lines of a   *)
(* document in renderMarkdownToHtml (components/editor/note-editor.tsx).   *)
(*                                                                         *)
(* Of a line only the tests matter that the loop makes of it. The block    *)
(* rules test the line with its white space in front, the inner loops the  *)
(* trimmed one; `kind` is the rule the trimmed line matches, so that a rule*)
(* matches the line itself exactly when it is not indented. One action is  *)
(* one iteration of the loop.                                              *)
(***************************************************************************)
EXTENDS Naturals, SequencesExt

CONSTANT Documents   \* the documents to render: sequences of Lines

Kinds == {"blank", "fence", "heading", "rule", "quote", "task", "bullet",
          "number", "text"}

\* A line may contain "|", and may be the row under the header of a table. Such
\* a row has no character but - : | and space.
Lines ==
  {line \in [kind : Kinds, indented : BOOLEAN, pipe : BOOLEAN, delimiter : BOOLEAN] :
     /\ line.kind \in {"blank", "rule"} => ~line.pipe
     /\ line.kind = "blank" => ~line.indented
     /\ line.delimiter => line.pipe /\ line.kind \in {"text", "bullet"}}

ASSUME DocumentsAssumption == Documents \subseteq Seq(Lines)

VARIABLES lines,      \* the document
          index,      \* the next line, from 1
          inCode,     \* inCodeBlock
          codeLines,  \* the lines of the open code block
          html        \* the blocks rendered, each with the lines it shows

previewVars == <<lines, index, inCode, codeLines, html>>

PreviewInit ==
  /\ lines \in Documents
  /\ index = 1
  /\ inCode = FALSE /\ codeLines = <<>>
  /\ html = <<>>

Done == index > Len(lines)

\* Outside of a code block a line is looked at, and starts a block of the kind.
Looking == ~Done /\ ~inCode
Starts(kind) == Looking /\ lines[index].kind = kind /\ ~lines[index].indented

\* No rule for a block of one kind matches the line.
Unmatched == Looking /\ lines[index].kind # "blank"
             /\ (lines[index].kind = "text" \/ lines[index].indented)

\* The first line from i on that is of another kind.
RunEnd(i, kinds) ==
  Min({j \in i..Len(lines) : lines[j].kind \notin kinds} \cup {Len(lines) + 1})

Numbers(from, to) == [k \in 1..(to - from) |-> from + k - 1]

\* A block that shows the given lines; the loop goes on at line `to`.
Push(kind, shown, to) ==
  /\ html' = Append(html, [kind |-> kind, shown |-> shown])
  /\ index' = to
  /\ UNCHANGED lines

PushRun(kind, to) ==
  /\ Push(kind, Numbers(index, to), to)
  /\ UNCHANGED <<inCode, codeLines>>

-----------------------------------------------------------------------------
(* Faulty variants of definitions below, for mutation testing.             *)

\* Every line with a "|" ends a paragraph, as if it had to start a table.
ParagraphEndAtPipes ==
  Min({j \in index..Len(lines) : lines[j].kind # "text" \/ lines[j].pipe}
        \cup {Len(lines) + 1})

\* The rows of a table are counted from its header, which is shown again.
TableBodyEarly == index

-----------------------------------------------------------------------------
OpenFence ==
  /\ Starts("fence")
  /\ inCode' = TRUE /\ index' = index + 1
  /\ UNCHANGED <<lines, codeLines, html>>

CodeLine ==
  /\ ~Done /\ inCode
  /\ lines[index].kind # "fence" \/ lines[index].indented
  /\ codeLines' = Append(codeLines, index)
  /\ index' = index + 1
  /\ UNCHANGED <<lines, inCode, html>>

CloseFence ==
  /\ ~Done /\ inCode
  /\ lines[index].kind = "fence" /\ ~lines[index].indented
  /\ Push("code", codeLines, index + 1)
  /\ inCode' = FALSE /\ codeLines' = <<>>

\* The empty string it pushes is filtered out at the end.
Blank ==
  /\ Looking /\ lines[index].kind = "blank"
  /\ index' = index + 1
  /\ UNCHANGED <<lines, inCode, codeLines, html>>

HeadingOrRule ==
  \E kind \in {"heading", "rule"} : Starts(kind) /\ PushRun(kind, index + 1)

\* A list of bullets takes in tasks; a list of tasks ends at a bullet.
ListKinds(kind) == IF kind = "bullet" THEN {"bullet", "task"} ELSE {kind}

QuoteOrList ==
  \E kind \in {"quote", "task", "bullet", "number"} :
    Starts(kind) /\ PushRun(kind, RunEnd(index, ListKinds(kind)))

\* A row of cells over a delimiter, then every line that contains "|".
TableHere ==
  Unmatched /\ lines[index].pipe /\ index < Len(lines) /\ lines[index + 1].delimiter

TableBody == index + 2

Table ==
  /\ TableHere
  /\ LET to == Min({j \in TableBody..Len(lines) : ~lines[j].pipe} \cup {Len(lines) + 1})
     IN Push("table", <<index>> \o Numbers(TableBody, to), to)
  /\ UNCHANGED <<inCode, codeLines>>

ParagraphEnd == RunEnd(index, {"text"})

\* An indented line of another kind ends the paragraph before it began: nothing
\* is pushed, and the loop looks at the same line again.
Paragraph ==
  /\ Unmatched /\ ~TableHere
  /\ IF ParagraphEnd > index THEN PushRun("paragraph", ParagraphEnd)
     ELSE UNCHANGED previewVars

PreviewNext ==
  \/ OpenFence \/ CodeLine \/ CloseFence
  \/ Blank \/ HeadingOrRule \/ QuoteOrList \/ Table \/ Paragraph

\* The function runs until it returns.
PreviewSpec == PreviewInit /\ [][PreviewNext]_previewVars /\ WF_previewVars(PreviewNext)

-----------------------------------------------------------------------------
\* The lines that blocks show, and those with the lines of an open code block.
Shown == FlattenSeq([b \in DOMAIN html |-> html[b].shown])
Taken == Shown \o codeLines

\* The lines of a code block are rendered by the fence that closes it, so those
\* of a block that is open, at the end of the document for good, are not.
Unclosed(line) == inCode /\ \E k \in DOMAIN codeLines : codeLines[k] = line

\* The preview shows the lines in their order, none twice, and leaves out only
\* blank lines, fences, the row under the header of a table, and the lines of a
\* code block that no fence closes, none of which it shows, through all the
\* loops that move the index (renderMarkdownToHtml).
LinesShownOnce ==
  /\ \A j, k \in DOMAIN Taken : j < k => Taken[j] < Taken[k]
  /\ \A line \in 1..(index - 1) :
       \/ \E k \in DOMAIN Shown : Shown[k] = line
       \/ Unclosed(line)
       \/ lines[line].kind \in {"blank", "fence"}
       \/ /\ lines[line].delimiter
          /\ \E b \in DOMAIN html : html[b].kind = "table" /\ html[b].shown[1] = line - 1

\* The rules and the loops test the same line in two ways. They agree, and the
\* preview is rendered, unless it comes to an indented line that would start a
\* block if it were not indented.
StopsOnlyAtIndentedBlocks ==
  <>(Done \/ (lines[index].indented /\ lines[index].kind # "text"))
=============================================================================
