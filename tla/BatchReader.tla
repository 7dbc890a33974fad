---------------------------- MODULE BatchReader ----------------------------
(***************************************************************************)
(* BatchReader::get_next over a ParallelBatchReader (src/batch_reader.cc). *)
(* The reader keeps one example read ahead in _next. The code destroys a   *)
(* reader that threw, and passes it the same arguments in every call.      *)
(***************************************************************************)
EXTENDS Batching

CONSTANTS Inputs,   \* the tuples of streams a behaviour may read
          Calls     \* the arguments it may pass to get_next

ASSUME ReaderAssumption ==
  /\ \A input \in Inputs : input \in Seq(Seq(Nat)) /\ input # <<>>
  /\ Calls \subseteq [max : Nat \ {0}, type : BatchTypes, padding : BOOLEAN]

VARIABLES streams,  \* the input
          call,     \* the arguments: max, type, padding
          next,     \* the line in _next; the first get_next reads line 1
          batches,  \* history: the batches returned
          status    \* "open", "ended" (an empty batch was returned), "thrown"

readerVars == <<streams, call, next, batches, status>>

ReaderInit ==
  /\ streams \in Inputs
  /\ call \in Calls
  /\ next = 1
  /\ batches = <<>>
  /\ status = "open"

LastLine == Len(Examples(streams))

\* get_next_example throws when it is asked for this line.
Throws(line) == line > LastLine /\ ShortStream(streams)

\* Faulty variant: the example in _next is overwritten by the one after it.
FillDropsNext ==
  /\ status = "open" /\ next <= LastLine
  /\ LET rest == SubSeq(Examples(streams), next, LastLine)
         count == BatchLength(rest, call.max, call.type, call.padding)
     IN /\ ~Throws(next + count)
        /\ batches' = Append(batches, SubSeq(rest, 1, count))
        /\ next' = next + count + 1
  /\ UNCHANGED <<streams, call, status>>

\* get_next fills a batch; after each example of it the next one is read.
Fill ==
  /\ status = "open" /\ next <= LastLine
  /\ LET rest == SubSeq(Examples(streams), next, LastLine)
         count == BatchLength(rest, call.max, call.type, call.padding)
     IN /\ ~Throws(next + count)
        /\ batches' = Append(batches, SubSeq(rest, 1, count))
        /\ next' = next + count
  /\ UNCHANGED <<streams, call, status>>

\* Reading ahead throws: the examples of the unfinished batch are lost.
FillThrows ==
  /\ status = "open" /\ next <= LastLine
  /\ Throws(next + BatchLength(SubSeq(Examples(streams), next, LastLine),
                               call.max, call.type, call.padding))
  /\ status' = "thrown"
  /\ UNCHANGED <<streams, call, next, batches>>

\* The first call throws already when it initializes _next.
FirstThrows ==
  /\ status = "open"
  /\ Throws(next)
  /\ status' = "thrown"
  /\ UNCHANGED <<streams, call, next, batches>>

End ==
  /\ status = "open" /\ next > LastLine /\ ~Throws(next)
  /\ status' = "ended"
  /\ UNCHANGED <<streams, call, next, batches>>

ReaderNext == Fill \/ FillThrows \/ FirstThrows \/ End

ReaderSpec == ReaderInit /\ [][ReaderNext]_readerVars

-----------------------------------------------------------------------------
\* The example read ahead is neither lost nor returned twice: the batches are
\* the lines of the input, in order, up to the one in _next.
NothingSkipped ==
  FlattenSeq(batches) = SubSeq(Examples(streams), 1, Min({next - 1, LastLine}))

\* A batch is within max_batch_size unless it is one example too long on its
\* own, and it is as large as it can be: with the next example of the input it
\* would not fit (the break conditions of the fill loops).
BatchesFull ==
  \A b \in DOMAIN batches :
    /\ Len(batches[b]) = 1 \/ Volume(batches[b], call) <= call.max
    /\ b < Len(batches) => Volume(batches[b] \o <<batches[b + 1][1]>>, call) > call.max

\* A stream that ends before the first is an error for the caller, at the
\* latest when the whole input is read: an input that just ends was read
\* completely (ParallelBatchReader::get_next_example).
EndedMeansComplete ==
  status = "ended" => FlattenSeq(batches) = Examples(streams)
                      /\ Len(FlattenSeq(batches)) = Len(streams[1])
=============================================================================
