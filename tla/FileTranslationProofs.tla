------------------------ MODULE FileTranslationProofs ------------------------
(***************************************************************************)
(* Theorems about FileTranslation and the BatchReader it reads from, for   *)
(* any inputs, sizes, number of workers and capacity of the queue.         *)
(***************************************************************************)
EXTENDS FileTranslation, BatchingProofs

\* The examples of the input.
ExampleSet == {Examples(streams)[line] : line \in 1..LastLine}

\* The line at which the chunk in work starts.
First == next - Len(Last(batches))

Batch == [examples : Seq(ExampleSet), promises : Seq(Nat)]
Piece == [examples : Seq(ExampleSet), example_index : Seq(Nat)]

\* What PostBatch makes of a piece of the chunk that starts at line "first"; the
\* batches posted and to post.
Promised(first, piece) ==
  [examples |-> piece.examples,
   promises |-> [k \in DOMAIN piece.example_index |-> first + piece.example_index[k] - 1]]
Issued == posted \o [b \in DOMAIN chunk |-> Promised(First, chunk[b])]

FileType ==
  /\ streams \in Inputs
  /\ next \in 1..(LastLine + 1)
  /\ batches \in Seq(Seq(ExampleSet))
  /\ chunk \in Seq(Piece) /\ posted \in Seq(Batch)
  /\ buffer \in Seq(1..Len(posted)) /\ finished \subseteq 1..Len(posted)
  /\ running \in [Workers -> 1..Len(posted) \cup {NoJob}]
  /\ result \in [Workers -> {"none", "value", "error"}]
  /\ answer \in [Lines -> Int]
  /\ pending \in Seq(Nat) /\ output \in Seq(Int)
  /\ pc \in {"read", "post", "pop", "drain", "done", "failed"}

\* A promise is set to the translation of its own line, or to an exception.
OwnAnswers == \A line \in Lines : answer[line] \in {Unset, Exception, line}

\* Every batch has promises for the lines of its examples, which were read, and
\* no two promises of any batches are for the same line.
OwnPromises ==
  /\ \A b \in DOMAIN Issued :
       /\ 1 \in DOMAIN Issued[b].promises
       /\ DOMAIN Issued[b].examples = DOMAIN Issued[b].promises
       /\ \A k \in DOMAIN Issued[b].promises :
            /\ Issued[b].promises[k] \in 1..(next - 1)
            /\ Issued[b].examples[k].line = Issued[b].promises[k]
  /\ \A b, c \in DOMAIN Issued :
       \A k \in DOMAIN Issued[b].promises, l \in DOMAIN Issued[c].promises :
         Issued[b].promises[k] = Issued[c].promises[l] => b = c /\ k = l

\* A job is in one place, and a running one has a promise left to set; nothing
\* is set before the job is run.
PromisesLeft ==
  /\ \A i, k \in DOMAIN buffer : buffer[i] = buffer[k] => i = k
  /\ \A w \in Workers : running[w] # NoJob =>
       /\ \A i \in DOMAIN buffer : buffer[i] # running[w]
       /\ \A v \in Workers : running[v] = running[w] => v = w
       /\ \E k \in DOMAIN posted[running[w]].promises :
            answer[posted[running[w]].promises[k]] = Unset
  /\ \A b \in DOMAIN Issued :
       (b > Len(posted) \/ \E i \in DOMAIN buffer : buffer[i] = b) =>
         \A k \in DOMAIN Issued[b].promises : answer[Issued[b].promises[k]] = Unset
  /\ \A line \in Lines : line >= next => answer[line] = Unset

\* The queue of futures goes on where the output stops, up to what was read or,
\* while its batches are posted, to the last line before the chunk.
FuturesInOrder ==
  /\ pc = "post" => batches # <<>> /\ Len(Last(batches)) \in 1..(next - 1)
  /\ pc # "post" => chunk = <<>>
  /\ pc \in {"read", "post", "pop", "drain"} =>
       /\ Len(output) + Len(pending) = (IF pc = "post" THEN First ELSE next) - 1
       /\ \A i \in DOMAIN pending : pending[i] = Len(output) + i
  /\ pc = "drain" => next = LastLine + 1 /\ LastLine = Len(streams[1])

FileInv ==
  /\ FileType /\ OwnAnswers /\ OwnPromises /\ PromisesLeft /\ FuturesInOrder
  /\ OutputInOrder /\ DoneMeansComplete

-----------------------------------------------------------------------------
(* What the reader reads. *)

\* The input has a number of examples, at most that of the lines of its first
\* stream; it is less only when a stream is too short.
LEMMA InputType ==
  ASSUME streams \in Inputs
  PROVE  /\ LastLine \in Nat /\ Len(streams[1]) \in Nat /\ LastLine <= Len(streams[1])
         /\ Lines = 1..Len(streams[1])
         /\ ~ShortStream(streams) => LastLine = Len(streams[1])
         /\ Examples(streams) \in Seq(ExampleSet)
         /\ Len(Examples(streams)) = LastLine
         /\ \A line \in 1..LastLine : Examples(streams)[line].line = line
<1> DEFINE lengths == StreamLengths(streams)
<1>1. streams \in Seq(Seq(Nat)) /\ streams # <<>>
  BY ReaderAssumption
<1>2. 1 \in DOMAIN streams /\ Len(streams[1]) \in Nat /\ Lines = 1..Len(streams[1])
  BY <1>1 DEF Lines
<1>3. lengths \in SUBSET Nat /\ Len(streams[1]) \in lengths
  BY <1>1, <1>2 DEF StreamLengths
<1> HIDE DEF lengths
<1>4. PICK total \in lengths : total = Min(lengths) /\ \A n \in lengths : total <= n
  <2>1. \E x \in lengths : \A y \in lengths : x <= y
    BY <1>3, LeastNatural
  <2> QED BY <2>1 DEF Min
<1>5. Examples(streams) =
        [line \in 1..total |-> [line |-> line, lengths |-> [s \in DOMAIN streams |-> streams[s][line]]]]
  BY <1>4 DEF Examples, lengths
<1>6. LastLine = total /\ total \in Nat
  BY <1>3, <1>5 DEF LastLine
<1>7. \A line \in 1..total : Examples(streams)[line].line = line
  BY <1>5
<1>8. Examples(streams) \in Seq(ExampleSet)
  <2> DEFINE all == Examples(streams)
  <2>1. all = [line \in 1..total |-> all[line]]
    BY <1>5
  <2>2. \A line \in 1..total : all[line] \in ExampleSet
    BY <1>6 DEF ExampleSet
  <2> HIDE DEF all
  <2>3. all \in Seq(ExampleSet)
    BY <1>6, <2>1, <2>2
  <2> QED BY <2>3 DEF all
<1>9. ASSUME ~ShortStream(streams) PROVE LastLine = Len(streams[1])
  <2>1. \A s \in DOMAIN streams : Len(streams[s]) >= Len(streams[1])
    BY <1>1, <1>2, <1>9 DEF ShortStream
  <2>2. PICK s \in DOMAIN streams : total = Len(streams[s])
    BY DEF lengths, StreamLengths
  <2> QED BY <1>2, <1>3, <1>4, <1>6, <2>1, <2>2
<1> QED BY <1>2, <1>3, <1>4, <1>5, <1>6, <1>7, <1>8, <1>9

\* The length of an example is a number.
LEMMA InputLengths ==
  ASSUME streams \in Inputs
  PROVE  \A line \in 1..LastLine : Length(Examples(streams)[line]) \in Nat
<1> SUFFICES ASSUME NEW line \in 1..LastLine
             PROVE  Length(Examples(streams)[line]) \in Nat
  OBVIOUS
<1>1. streams \in Seq(Seq(Nat)) /\ streams # <<>>
  BY ReaderAssumption
<1>2. 1 \in DOMAIN streams /\ streams[1] \in Seq(Nat)
  BY <1>1
<1>3. line \in 1..Len(streams[1]) /\ line \in 1..Len(Examples(streams))
  BY InputType DEF LastLine
<1>4. streams[1][line] \in Nat
  BY <1>2, <1>3
<1>5. Examples(streams)[line].lengths[1] = streams[1][line]
  <2> DEFINE total == Min(StreamLengths(streams))
             all == [l \in 1..total |->
                       [line |-> l, lengths |-> [s \in DOMAIN streams |-> streams[s][l]]]]
  <2>1. Examples(streams) = all
    BY DEF Examples
  <2>2. DOMAIN all = 1..total
    OBVIOUS
  <2>3. DOMAIN Examples(streams) = 1..LastLine
    BY InputType
  <2>4. line \in 1..total
    BY <2>1, <2>2, <2>3
  <2> HIDE DEF total
  <2>5. all[line].lengths[1] = streams[1][line]
    BY <1>2, <2>4
  <2> QED BY <2>1, <2>5
<1> QED BY <1>4, <1>5 DEF Length

\* What get_next returns is not empty and goes on where the reader is.
LEMMA ChunkType ==
  ASSUME streams \in Inputs, next \in 1..LastLine, NEW max, NEW type, NEW padding
  PROVE  LET rest == SubSeq(Examples(streams), next, LastLine)
             count == BatchLength(rest, max, type, padding)
         IN /\ count \in 1..(LastLine + 1 - next)
            /\ SubSeq(rest, 1, count) \in Seq(ExampleSet)
            /\ Len(SubSeq(rest, 1, count)) = count
            /\ \A i \in 1..count :
                 SubSeq(rest, 1, count)[i] = Examples(streams)[next + i - 1]
<1> DEFINE all == Examples(streams)
           rest == SubSeq(all, next, LastLine)
           breaks == {n \in 2..Len(rest) : NewBatchSize(rest, n, type, padding) > max}
           count == BatchLength(rest, max, type, padding)
<1>1. all \in Seq(ExampleSet) /\ Len(all) = LastLine /\ LastLine \in Nat
  BY InputType
<1> HIDE DEF all
<1>2. /\ rest \in Seq(ExampleSet) /\ Len(rest) = LastLine + 1 - next
      /\ \A i \in 1..Len(rest) : rest[i] = all[next + i - 1]
  BY <1>1
<1>3. count = IF breaks = {} THEN Len(rest) ELSE Min(breaks) - 1
  BY DEF BatchLength, Min
<1>4. breaks \in SUBSET (2..Len(rest)) /\ Len(rest) \in Nat \ {0}
  BY <1>1, <1>2
<1> HIDE DEF breaks, rest, count
<1>5. count \in 1..Len(rest)
  BY <1>3, <1>4, FirstBreakRange
<1>6. /\ SubSeq(rest, 1, count) \in Seq(ExampleSet) /\ Len(SubSeq(rest, 1, count)) = count
      /\ \A i \in 1..count : SubSeq(rest, 1, count)[i] = rest[i]
  BY <1>2, <1>5
<1> QED BY <1>2, <1>5, <1>6 DEF all, rest, count

-----------------------------------------------------------------------------
(* What a step that does not read leaves alone. *)

\* The batches posted come first, then those to post.
IssuedParts ==
  /\ Len(posted) \in Nat /\ DOMAIN posted = 1..Len(posted)
  /\ Len(chunk) \in Nat /\ DOMAIN chunk = 1..Len(chunk)
  /\ DOMAIN Issued = 1..(Len(posted) + Len(chunk))
  /\ \A b \in 1..Len(posted) : Issued[b] = posted[b]
  /\ \A b \in (Len(posted) + 1)..(Len(posted) + Len(chunk)) :
       Issued[b] = Promised(First, chunk[b - Len(posted)])

\* Batches that are posted and pieces of the chunk have their types.
LEMMA IssuedType == posted \in Seq(Batch) /\ chunk \in Seq(Piece) => IssuedParts
<1> SUFFICES ASSUME posted \in Seq(Batch), chunk \in Seq(Piece) PROVE IssuedParts
  OBVIOUS
<1> DEFINE promised == [b \in DOMAIN chunk |-> Promised(First, chunk[b])]
           S == {Promised(First, chunk[b]) : b \in DOMAIN chunk} \cup {posted[b] : b \in DOMAIN posted}
<1>1. /\ Len(posted) \in Nat /\ DOMAIN posted = 1..Len(posted)
      /\ Len(chunk) \in Nat /\ DOMAIN chunk = 1..Len(chunk)
  OBVIOUS
<1>2. promised \in Seq(S) /\ Len(promised) = Len(chunk)
  <2> HIDE DEF Promised
  <2>1. \A b \in 1..Len(chunk) : Promised(First, chunk[b]) \in S
    BY <1>1
  <2> HIDE DEF S
  <2> QED BY <1>1, <2>1
<1>3. posted \in Seq(S)
  <2>1. \A b \in 1..Len(posted) : posted[b] \in S
    BY <1>1
  <2> HIDE DEF S
  <2> QED BY <1>1, <2>1
<1> HIDE DEF S, promised
<1>4. /\ DOMAIN (posted \o promised) = 1..(Len(posted) + Len(chunk))
      /\ \A b \in 1..(Len(posted) + Len(chunk)) :
           (posted \o promised)[b] = IF b <= Len(posted) THEN posted[b] ELSE promised[b - Len(posted)]
  <2>1. /\ posted \o promised \in Seq(S)
        /\ Len(posted \o promised) = Len(posted) + Len(promised)
        /\ \A b \in 1..(Len(posted) + Len(promised)) :
             (posted \o promised)[b] = IF b <= Len(posted) THEN posted[b] ELSE promised[b - Len(posted)]
    BY <1>2, <1>3, ConcatProperties
  <2>2. DOMAIN (posted \o promised) = 1..Len(posted \o promised)
    BY <2>1
  <2> QED BY <1>2, <2>1, <2>2
<1>5. \A b \in (Len(posted) + 1)..(Len(posted) + Len(chunk)) :
        promised[b - Len(posted)] = Promised(First, chunk[b - Len(posted)])
  BY <1>1 DEF promised
<1> QED BY <1>1, <1>4, <1>5 DEF IssuedParts, Issued, promised

\* Reading is what changes the examples and where the chunk starts.
LEMMA ReaderFrame ==
  ASSUME UNCHANGED <<streams, next, batches>>
  PROVE  /\ LastLine' = LastLine /\ ExampleSet' = ExampleSet /\ Lines' = Lines
         /\ Batch' = Batch /\ Piece' = Piece /\ First' = First
BY DEF LastLine, ExampleSet, Lines, Batch, Piece, First

\* Issuing goes on only where a chunk is read and its batches are posted.
LEMMA IssuedFrame ==
  ASSUME UNCHANGED <<streams, next, batches, chunk, posted>>
  PROVE  Issued' = Issued
BY ReaderFrame DEF Issued, Promised

\* The invariant holds when the call starts.
LEMMA FileInitially == Init => FileInv
<1> SUFFICES ASSUME Init PROVE FileInv
  OBVIOUS
<1>1. /\ streams \in Inputs /\ next = 1 /\ batches = <<>>
      /\ buffer = <<>> /\ running = [w \in Workers |-> NoJob] /\ finished = {}
      /\ chunk = <<>> /\ posted = <<>>
      /\ result = [w \in Workers |-> "none"]
      /\ answer = [line \in Lines |-> 0]
      /\ pending = <<>> /\ output = <<>> /\ pc = "read"
  BY DEF Init, ReaderInit, Pool!Init, Unset
<1>2. LastLine \in Nat
  BY <1>1, InputType
<1>3. FileType
  BY <1>1, <1>2 DEF FileType
<1>4. DOMAIN Issued = {}
  <2>1. IssuedParts
    BY <1>1, IssuedType
  <2> QED BY <1>1, <2>1 DEF IssuedParts
<1>5. OwnAnswers /\ OwnPromises /\ PromisesLeft
  BY <1>1, <1>4 DEF OwnAnswers, OwnPromises, PromisesLeft, Unset
<1>6. FuturesInOrder
  BY <1>1 DEF FuturesInOrder
<1>7. OutputInOrder /\ DoneMeansComplete
  BY <1>1 DEF OutputInOrder, DoneMeansComplete
<1> QED BY <1>3, <1>5, <1>6, <1>7 DEF FileInv

\* What the calling thread does with its results moves no promise.
LEMMA CallerFrame ==
  ASSUME FileInv,
         UNCHANGED <<streams, next, batches, chunk, posted, buffer, running, finished, result, answer>>,
         pending' \in Seq(Nat), output' \in Seq(Int),
         pc' \in {"read", "post", "pop", "drain", "done", "failed"}
  PROVE  FileType' /\ OwnAnswers' /\ OwnPromises' /\ PromisesLeft'
<1>1. /\ LastLine' = LastLine /\ ExampleSet' = ExampleSet /\ Lines' = Lines
      /\ Batch' = Batch /\ Piece' = Piece /\ First' = First /\ Issued' = Issued
  BY ReaderFrame, IssuedFrame
<1>2. FileType'
  BY <1>1 DEF FileInv, FileType
<1>3. OwnAnswers'
  BY <1>1 DEF FileInv, OwnAnswers
<1>4. OwnPromises'
  BY <1>1 DEF FileInv, OwnPromises
<1>5. PromisesLeft'
  BY <1>1 DEF FileInv, PromisesLeft
<1> QED BY <1>2, <1>3, <1>4, <1>5

-----------------------------------------------------------------------------
(* The steps of the calling thread. *)

\* After an exception of the reader nothing is written any more.
LEMMA ReadThrowsKeeps ==
  ASSUME FileInv, ReadThrows
  PROVE  FileInv'
<1>1. /\ UNCHANGED <<streams, next, batches, chunk, posted, buffer, running, finished, result, answer>>
      /\ UNCHANGED <<pending, output>> /\ pc' = "failed" /\ chunk = <<>>
  BY DEF ReadThrows, FillThrows, FirstThrows, poolVars, workerVars, FileInv, FuturesInOrder
<1>2. FileType' /\ OwnAnswers' /\ OwnPromises' /\ PromisesLeft'
  BY <1>1, CallerFrame DEF FileInv, FileType
<1> QED BY <1>1, <1>2 DEF FileInv, FuturesInOrder, OutputInOrder, DoneMeansComplete

\* The input ended and was complete.
LEMMA ReadEndKeeps ==
  ASSUME FileInv, ReadEnd
  PROVE  FileInv'
<1>1. /\ UNCHANGED <<streams, next, batches, chunk, posted, buffer, running, finished, result, answer>>
      /\ UNCHANGED <<pending, output>> /\ pc = "read" /\ pc' = "drain" /\ chunk = <<>>
  BY DEF ReadEnd, End, poolVars, workerVars, FileInv, FuturesInOrder
<1>2. FileType' /\ OwnAnswers' /\ OwnPromises' /\ PromisesLeft'
  BY <1>1, CallerFrame DEF FileInv, FileType
<1>3. next > LastLine /\ ~ShortStream(streams)
  BY DEF ReadEnd, End, Throws
<1>4. next = LastLine + 1 /\ LastLine = Len(streams[1])
  BY <1>3, InputType DEF FileInv, FileType
<1>5. LastLine' = LastLine
  BY <1>1, ReaderFrame
<1> QED BY <1>1, <1>2, <1>4, <1>5 DEF FileInv, FuturesInOrder, OutputInOrder, DoneMeansComplete

\* The futures of the chunk follow those of the chunks before it.
LEMMA QueueFuturesKeeps ==
  ASSUME FileInv, QueueFutures
  PROVE  FileInv'
<1> DEFINE size == Len(Last(batches))
           new == [i \in DOMAIN Last(batches) |-> next - Len(Last(batches)) + i - 1]
<1>1. /\ UNCHANGED <<streams, next, batches, chunk, posted, buffer, running, finished, result, answer>>
      /\ UNCHANGED output /\ pc = "post" /\ pc' = "pop" /\ chunk = <<>> /\ pending' = pending \o new
  BY DEF QueueFutures, readerVars, poolVars, workerVars
<1>2. next \in Nat /\ size \in 1..(next - 1)
  BY <1>1, InputType DEF FileInv, FileType, FuturesInOrder
<1>3. DOMAIN Last(batches) = 1..size
  <2>1. batches # <<>> /\ batches \in Seq(Seq(ExampleSet))
    BY <1>1 DEF FileInv, FileType, FuturesInOrder
  <2>2. Last(batches) \in Seq(ExampleSet)
    BY <2>1 DEF Last
  <2> QED BY <2>2
<1> HIDE DEF size
<1>4. new \in Seq(Nat) /\ Len(new) = size /\ \A i \in 1..size : new[i] = next - size + i - 1
  BY <1>2, <1>3 DEF size
<1> HIDE DEF new
<1>5. pending \in Seq(Nat) /\ output \in Seq(Int) /\ Len(pending) \in Nat /\ Len(output) \in Nat
  BY DEF FileInv, FileType
<1>6. /\ pending' \in Seq(Nat) /\ Len(pending') = Len(pending) + size
      /\ \A i \in 1..(Len(pending) + size) :
           pending'[i] = IF i <= Len(pending) THEN pending[i] ELSE new[i - Len(pending)]
  BY <1>1, <1>4, <1>5, ConcatProperties
<1>7. FileType' /\ OwnAnswers' /\ OwnPromises' /\ PromisesLeft'
  BY <1>1, <1>6, CallerFrame DEF FileInv, FileType
<1>8. /\ Len(output) + Len(pending) = next - size - 1
      /\ \A i \in DOMAIN pending : pending[i] = Len(output) + i
  BY <1>1 DEF FileInv, FuturesInOrder, First, size
<1>9. DOMAIN pending = 1..Len(pending) /\ DOMAIN pending' = 1..(Len(pending) + size)
  BY <1>5, <1>6
<1>10. ASSUME NEW i \in DOMAIN pending' PROVE pending'[i] = Len(output) + i
  <2>1. i \in 1..(Len(pending) + size) /\ i \in Nat /\ size \in Nat
    BY <1>2, <1>9
  <2>2. CASE i <= Len(pending)
    <3>1. i \in DOMAIN pending /\ pending'[i] = pending[i]
      BY <1>5, <1>6, <1>9, <2>1, <2>2
    <3> QED BY <1>8, <3>1
  <2>3. CASE i > Len(pending)
    <3>1. i - Len(pending) \in 1..size /\ pending'[i] = new[i - Len(pending)]
      BY <1>5, <1>6, <2>1, <2>3
    <3>2. pending'[i] = next - size + (i - Len(pending)) - 1
      BY <1>4, <3>1
    <3>3. next - size = Len(output) + Len(pending) + 1
      BY <1>2, <1>5, <1>8, <2>1
    <3> QED BY <1>5, <2>1, <3>2, <3>3
  <2> QED BY <1>5, <2>1, <2>2, <2>3
<1>11. Len(output') + Len(pending') = next' - 1
  BY <1>1, <1>2, <1>5, <1>6, <1>8
<1>12. FuturesInOrder'
  BY <1>1, <1>10, <1>11 DEF FuturesInOrder
<1> QED BY <1>1, <1>7, <1>12 DEF FileInv, OutputInOrder, DoneMeansComplete

\* The front of the queue is the line after the last one written.
LEMMA PopResultKeeps ==
  ASSUME FileInv, PopResult
  PROVE  FileInv'
<1>1. /\ UNCHANGED <<streams, next, batches, chunk, posted, buffer, running, finished, result, answer>>
      /\ pc \in {"pop", "drain"} /\ chunk = <<>> /\ pending # <<>> /\ answer[Head(pending)] # Unset
  BY DEF PopResult, readerVars, poolVars, workerVars, FileInv, FuturesInOrder
<1>2. pending \in Seq(Nat) /\ output \in Seq(Int) /\ Len(pending) \in Nat /\ Len(output) \in Nat
  BY DEF FileInv, FileType
<1>3. CASE answer[Head(pending)] = Exception
  <2>1. UNCHANGED <<pending, output>> /\ pc' = "failed"
    BY <1>3 DEF PopResult
  <2>2. FileType' /\ OwnAnswers' /\ OwnPromises' /\ PromisesLeft'
    BY <1>1, <1>2, <2>1, CallerFrame
  <2> QED BY <1>1, <2>1, <2>2 DEF FileInv, FuturesInOrder, OutputInOrder, DoneMeansComplete
<1>4. CASE answer[Head(pending)] # Exception
  <2>1. output' = Append(output, answer[Head(pending)]) /\ pending' = Tail(pending) /\ pc' = pc
    BY <1>4 DEF PopResult
  <2>2. /\ Len(output) + Len(pending) = next - 1
        /\ \A i \in DOMAIN pending : pending[i] = Len(output) + i
    BY <1>1 DEF FileInv, FuturesInOrder
  <2>3. 1 \in DOMAIN pending /\ Len(pending) >= 1 /\ Head(pending) = pending[1]
    BY <1>1, <1>2
  <2>4. Head(pending) = Len(output) + 1 /\ Head(pending) \in Lines
    <3>1. next - 1 <= Len(streams[1]) /\ Lines = 1..Len(streams[1]) /\ next \in Nat
          /\ Len(streams[1]) \in Nat
      BY InputType DEF FileInv, FileType
    <3> QED BY <1>2, <2>2, <2>3, <3>1
  <2>5. answer[Head(pending)] = Len(output) + 1
    BY <1>1, <1>4, <2>4 DEF FileInv, OwnAnswers
  <2>6. /\ output' \in Seq(Int) /\ Len(output') = Len(output) + 1
        /\ \A n \in 1..(Len(output) + 1) :
             output'[n] = IF n <= Len(output) THEN output[n] ELSE Len(output) + 1
    BY <1>2, <2>1, <2>5
  <2>7. /\ pending' \in Seq(Nat) /\ Len(pending') = Len(pending) - 1
        /\ \A i \in 1..(Len(pending) - 1) : pending'[i] = pending[i + 1]
    BY <1>1, <1>2, <2>1
  <2>8. FileType' /\ OwnAnswers' /\ OwnPromises' /\ PromisesLeft'
    BY <1>1, <2>1, <2>6, <2>7, CallerFrame
  <2>9. OutputInOrder'
    <3>1. DOMAIN output' = 1..(Len(output) + 1) /\ DOMAIN output = 1..Len(output)
      BY <1>2, <2>6
    <3>2. \A n \in 1..Len(output) : output[n] = n
      BY <3>1 DEF FileInv, OutputInOrder
    <3>3. \A n \in 1..(Len(output) + 1) : output'[n] = n
      BY <1>2, <2>6, <3>2
    <3> QED BY <3>1, <3>3 DEF OutputInOrder
  <2>10. \A i \in DOMAIN pending' : pending'[i] = Len(output') + i
    <3>1. DOMAIN pending' = 1..(Len(pending) - 1) /\ DOMAIN pending = 1..Len(pending)
      BY <1>2, <2>7
    <3>2. ASSUME NEW i \in 1..(Len(pending) - 1) PROVE pending'[i] = Len(output') + i
      <4>1. i + 1 \in DOMAIN pending /\ pending'[i] = pending[i + 1]
        BY <1>2, <2>7, <3>1
      <4>2. pending[i + 1] = Len(output) + (i + 1)
        BY <2>2, <4>1
      <4> QED BY <1>2, <2>6, <4>1, <4>2
    <3> QED BY <3>1, <3>2
  <2>11. Len(output') + Len(pending') = next' - 1
    BY <1>1, <1>2, <2>2, <2>6, <2>7
  <2>12. FuturesInOrder'
    BY <1>1, <2>1, <2>10, <2>11, ReaderFrame DEF FileInv, FuturesInOrder
  <2> QED BY <1>1, <2>1, <2>8, <2>9, <2>12 DEF FileInv, DoneMeansComplete
<1> QED BY <1>3, <1>4

\* Going back to the reader changes nothing else.
LEMMA StopPoppingKeeps ==
  ASSUME FileInv, StopPopping
  PROVE  FileInv'
<1>1. /\ UNCHANGED <<streams, next, batches, chunk, posted, buffer, running, finished, result, answer>>
      /\ UNCHANGED <<pending, output>> /\ pc = "pop" /\ pc' = "read" /\ chunk = <<>>
  BY DEF StopPopping, readerVars, poolVars, workerVars, FileInv, FuturesInOrder
<1>2. FileType' /\ OwnAnswers' /\ OwnPromises' /\ PromisesLeft'
  BY <1>1, CallerFrame DEF FileInv, FileType
<1> QED BY <1>1, <1>2 DEF FileInv, FuturesInOrder, OutputInOrder, DoneMeansComplete

\* When the input is read and no future is left, every line was written.
LEMMA ReturnKeeps ==
  ASSUME FileInv, Return
  PROVE  FileInv'
<1>1. /\ UNCHANGED <<streams, next, batches, chunk, posted, buffer, running, finished, result, answer>>
      /\ UNCHANGED <<pending, output>> /\ pc = "drain" /\ pc' = "done" /\ chunk = <<>> /\ pending = <<>>
  BY DEF Return, readerVars, poolVars, workerVars, FileInv, FuturesInOrder
<1>2. FileType' /\ OwnAnswers' /\ OwnPromises' /\ PromisesLeft'
  BY <1>1, CallerFrame DEF FileInv, FileType
<1>3. Len(output) = Len(streams[1])
  <2>1. Len(output) + Len(pending) = next - 1 /\ next = LastLine + 1 /\ LastLine = Len(streams[1])
    BY <1>1 DEF FileInv, FuturesInOrder
  <2>2. Len(output) \in Nat /\ LastLine \in Nat
    BY InputType DEF FileInv, FileType
  <2> QED BY <1>1, <2>1, <2>2
<1> QED BY <1>1, <1>2, <1>3 DEF FileInv, FuturesInOrder, OutputInOrder, DoneMeansComplete

\* Posting moves a batch from the chunk to the pool, with the same promises.
LEMMA PostBatchKeeps ==
  ASSUME FileInv, PostBatch
  PROVE  FileInv'
<1> DEFINE job == Len(posted) + 1
<1>1. /\ UNCHANGED <<streams, next, batches, running, finished, result, answer, pending, output>>
      /\ pc = "post" /\ pc' = "post" /\ chunk # <<>>
      /\ posted' = Append(posted, Promised(First, Head(chunk))) /\ chunk' = Tail(chunk)
      /\ buffer' = Append(buffer, job)
  BY DEF PostBatch, Pool!Accept, readerVars, workerVars, Promised, First
<1>2. /\ LastLine' = LastLine /\ ExampleSet' = ExampleSet /\ Lines' = Lines
      /\ Batch' = Batch /\ Piece' = Piece /\ First' = First
  BY <1>1, ReaderFrame
<1>3. IssuedParts
  BY IssuedType DEF FileInv, FileType
<1>4. /\ posted \in Seq(Batch) /\ chunk \in Seq(Piece) /\ Len(posted) \in Nat
      /\ buffer \in Seq(1..Len(posted)) /\ LastLine \in Nat /\ next \in 1..(LastLine + 1)
  BY InputType DEF FileInv, FileType
<1>5. Issued[job] = Promised(First, chunk[1]) /\ job \in DOMAIN Issued /\ Head(chunk) = chunk[1]
  <2>1. Len(chunk) \in Nat /\ Len(chunk) >= 1 /\ Head(chunk) = chunk[1]
    BY <1>1, <1>4
  <2>2. job \in (Len(posted) + 1)..(Len(posted) + Len(chunk)) /\ job - Len(posted) = 1
    BY <1>4, <2>1
  <2>3. job \in 1..(Len(posted) + Len(chunk))
    BY <1>4, <2>1
  <2> HIDE DEF job
  <2> QED BY <1>3, <2>1, <2>2, <2>3 DEF IssuedParts
<1>6. Promised(First, Head(chunk)) \in Batch
  <2> DEFINE index == chunk[1].example_index
             own == [k \in DOMAIN index |-> First + index[k] - 1]
  <2>1. chunk[1] \in Piece
    BY <1>1, <1>4
  <2>2. index \in Seq(Nat) /\ chunk[1].examples \in Seq(ExampleSet)
    BY <2>1 DEF Piece
  <2>3. Promised(First, chunk[1]) = [examples |-> chunk[1].examples, promises |-> own]
    BY DEF Promised
  <2>4. \A k \in DOMAIN own : own[k] \in 1..(next - 1)
    BY <1>5, <2>3 DEF FileInv, OwnPromises
  <2>5. DOMAIN own = 1..Len(index) /\ Len(index) \in Nat
    BY <2>2
  <2>6. own = [k \in 1..Len(index) |-> own[k]]
    BY <2>5
  <2> HIDE DEF index, own
  <2>7. own \in Seq(Nat)
    BY <1>4, <2>4, <2>5, <2>6
  <2> QED BY <1>5, <2>2, <2>3, <2>7 DEF Batch
<1> HIDE DEF job
<1>7. /\ posted' \in Seq(Batch) /\ Len(posted') = job /\ chunk' \in Seq(Piece)
      /\ \A b \in 1..Len(posted) : posted'[b] = posted[b]
      /\ posted'[job] = Promised(First, Head(chunk))
      /\ Len(chunk') = Len(chunk) - 1 /\ \A b \in 1..Len(chunk') : chunk'[b] = chunk[b + 1]
  BY <1>1, <1>4, <1>6 DEF job
<1>8. 1..Len(posted) \subseteq 1..job /\ job \in 1..job /\ job \notin 1..Len(posted)
  BY <1>4 DEF job
<1>9. /\ buffer' \in Seq(1..job) /\ Len(buffer') = Len(buffer) + 1 /\ Len(buffer) \in Nat
      /\ \A i \in 1..Len(buffer) : buffer'[i] = buffer[i] /\ buffer[i] \in 1..Len(posted)
      /\ buffer'[Len(buffer) + 1] = job
  <2>1. buffer \in Seq(1..job)
    BY <1>4, <1>8, SeqMonotonic
  <2> QED BY <1>1, <1>4, <1>8, <2>1
<1>10. FileType'
  <2>1. running' \in [Workers -> 1..job \cup {NoJob}] /\ finished' \subseteq 1..job
    BY <1>1, <1>8 DEF FileInv, FileType
  <2> QED BY <1>1, <1>2, <1>7, <1>9, <2>1 DEF FileInv, FileType
<1>11. IssuedParts'
  <2>1. (posted \in Seq(Batch))' /\ (chunk \in Seq(Piece))'
    BY <1>2, <1>7
  <2> QED BY <2>1, IssuedType, PTL
<1>12. DOMAIN Issued' = DOMAIN Issued /\ \A b \in DOMAIN Issued : Issued'[b] = Issued[b]
  <2>1. DOMAIN Issued' = DOMAIN Issued
    BY <1>3, <1>4, <1>7, <1>11 DEF IssuedParts, job
  <2>2. \A b \in 1..Len(posted) : Issued'[b] = Issued[b]
    <3>1. ASSUME NEW b \in 1..Len(posted) PROVE Issued'[b] = posted'[b]
      BY <1>7, <1>8, <1>11, <3>1 DEF IssuedParts
    <3> QED BY <1>3, <1>7, <3>1 DEF IssuedParts
  <2>3. Issued'[job] = Issued[job]
    BY <1>5, <1>7, <1>8, <1>11 DEF IssuedParts
  <2>4. ASSUME NEW b \in (job + 1)..(Len(posted) + Len(chunk)) PROVE Issued'[b] = Issued[b]
    <3>1. /\ b \in (Len(posted) + 1)..(Len(posted) + Len(chunk))
          /\ b \in (Len(posted') + 1)..(Len(posted') + Len(chunk'))
          /\ b - job \in 1..Len(chunk') /\ (b - job) + 1 = b - Len(posted)
      BY <1>3, <1>4, <1>7 DEF IssuedParts, job
    <3>2. Issued'[b] = Promised(First', chunk'[b - job])
      BY <1>7, <1>11, <3>1 DEF IssuedParts
    <3>3. chunk'[b - job] = chunk[b - Len(posted)]
      <4> DEFINE c == b - job
      <4>1. c \in 1..Len(chunk') /\ c + 1 = b - Len(posted)
        BY <3>1
      <4> HIDE DEF c
      <4>2. chunk'[c] = chunk[c + 1]
        BY <1>7, <4>1
      <4> QED BY <4>1, <4>2 DEF c
    <3>4. Issued[b] = Promised(First, chunk[b - Len(posted)])
      BY <1>3, <3>1 DEF IssuedParts
    <3> QED BY <1>2, <3>2, <3>3, <3>4
  <2>5. \A b \in DOMAIN Issued :
          b \in 1..Len(posted) \/ b = job \/ b \in (job + 1)..(Len(posted) + Len(chunk))
    BY <1>3, <1>4 DEF IssuedParts, job
  <2> QED BY <2>1, <2>2, <2>3, <2>4, <2>5
<1>13. OwnAnswers'
  BY <1>1, <1>2 DEF FileInv, OwnAnswers
<1>14. OwnPromises'
  BY <1>1, <1>12 DEF FileInv, OwnPromises
<1>15. PromisesLeft'
  <2>1. \A i, k \in DOMAIN buffer' : buffer'[i] = buffer'[k] => i = k
    <3>1. DOMAIN buffer' = 1..(Len(buffer) + 1) /\ DOMAIN buffer = 1..Len(buffer)
      BY <1>4, <1>9
    <3>2. \A i, k \in 1..Len(buffer) : buffer[i] = buffer[k] => i = k
      BY <3>1 DEF FileInv, PromisesLeft
    <3>3. \A i \in 1..(Len(buffer) + 1) : i \in 1..Len(buffer) \/ i = Len(buffer) + 1
      BY <1>9
    <3> QED BY <1>8, <1>9, <3>1, <3>2, <3>3
  <2>2. ASSUME NEW w \in Workers, running'[w] # NoJob
        PROVE  /\ \A i \in DOMAIN buffer' : buffer'[i] # running'[w]
               /\ \A v \in Workers : running'[v] = running'[w] => v = w
               /\ \E k \in DOMAIN posted'[running'[w]].promises :
                    answer'[posted'[running'[w]].promises[k]] = Unset
    <3>1. running[w] \in 1..Len(posted) /\ running[w] # NoJob
      BY <1>1, <2>2 DEF FileInv, FileType
    <3>2. DOMAIN buffer' = 1..(Len(buffer) + 1) /\ DOMAIN buffer = 1..Len(buffer)
      BY <1>4, <1>9
    <3>3. \A i \in DOMAIN buffer' : i \in DOMAIN buffer \/ i = Len(buffer) + 1
      BY <1>9, <3>2
    <3>4. \A i \in DOMAIN buffer : buffer[i] # running[w]
      BY <3>1 DEF FileInv, PromisesLeft
    <3>5. posted'[running[w]] = posted[running[w]]
      BY <1>7, <3>1
    <3>6. \A i \in DOMAIN buffer' : buffer'[i] # running'[w]
      <4> SUFFICES ASSUME NEW i \in DOMAIN buffer' PROVE buffer'[i] # running'[w]
        OBVIOUS
      <4>1. CASE i \in DOMAIN buffer
        BY <1>1, <1>9, <3>2, <3>4, <4>1
      <4>2. CASE i = Len(buffer) + 1
        BY <1>1, <1>8, <1>9, <3>1, <4>2
      <4> QED BY <3>3, <4>1, <4>2
    <3>7. \A v \in Workers : running'[v] = running'[w] => v = w
      BY <1>1, <3>1 DEF FileInv, PromisesLeft
    <3>8. \E k \in DOMAIN posted'[running'[w]].promises :
            answer'[posted'[running'[w]].promises[k]] = Unset
      BY <1>1, <3>1, <3>5 DEF FileInv, PromisesLeft
    <3> QED BY <3>6, <3>7, <3>8
  <2>3. ASSUME NEW b \in DOMAIN Issued, b > Len(posted') \/ \E i \in DOMAIN buffer' : buffer'[i] = b
        PROVE  \A k \in DOMAIN Issued[b].promises : answer[Issued[b].promises[k]] = Unset
    <3>1. b > Len(posted) \/ \E i \in DOMAIN buffer : buffer[i] = b
      <4>1. CASE b > Len(posted')
        <5>1. b \in Nat
          BY <1>3 DEF IssuedParts
        <5> QED BY <1>4, <1>7, <4>1, <5>1 DEF job
      <4>2. CASE \E i \in DOMAIN buffer' : buffer'[i] = b
        <5>1. PICK i \in DOMAIN buffer' : buffer'[i] = b
          BY <4>2
        <5>2. DOMAIN buffer' = 1..(Len(buffer) + 1) /\ DOMAIN buffer = 1..Len(buffer)
          BY <1>4, <1>9
        <5>3. CASE i \in DOMAIN buffer
          BY <1>9, <5>1, <5>2, <5>3
        <5>4. CASE i = Len(buffer) + 1
          BY <1>4, <1>9, <5>1, <5>4 DEF job
        <5> QED BY <1>9, <5>2, <5>3, <5>4
      <4> QED BY <2>3, <4>1, <4>2
    <3> QED BY <3>1 DEF FileInv, PromisesLeft
  <2>4. \A b \in DOMAIN Issued' :
          (b > Len(posted') \/ \E i \in DOMAIN buffer' : buffer'[i] = b) =>
            \A k \in DOMAIN Issued'[b].promises : answer'[Issued'[b].promises[k]] = Unset
    BY <1>1, <1>12, <2>3
  <2>5. \A line \in Lines' : line >= next' => answer'[line] = Unset
    BY <1>1, <1>2 DEF FileInv, PromisesLeft
  <2> QED BY <2>1, <2>2, <2>4, <2>5 DEF PromisesLeft
<1>16. FuturesInOrder'
  BY <1>1, <1>2 DEF FileInv, FuturesInOrder
<1> QED BY <1>1, <1>10, <1>13, <1>14, <1>15, <1>16 DEF FileInv, OutputInOrder, DoneMeansComplete

-----------------------------------------------------------------------------
(* The steps of a worker. *)

\* The job at the front of the buffer has all its promises to set.
LEMMA RunBatchKeeps ==
  ASSUME FileInv, NEW w \in Workers, RunBatch(w)
  PROVE  FileInv'
<1> DEFINE job == Head(buffer)
<1>1. /\ UNCHANGED <<streams, next, batches, chunk, posted, finished, answer, pending, output, pc>>
      /\ buffer # <<>> /\ running[w] = NoJob /\ buffer' = Tail(buffer)
      /\ running' = [running EXCEPT ![w] = job]
      /\ \E r \in {"value", "error"} : result' = [result EXCEPT ![w] = r]
  BY DEF RunBatch, Pool!Start, readerVars, callerVars
<1>2. /\ LastLine' = LastLine /\ ExampleSet' = ExampleSet /\ Lines' = Lines
      /\ Batch' = Batch /\ Piece' = Piece /\ First' = First /\ Issued' = Issued
  BY <1>1, ReaderFrame, IssuedFrame
<1>3. buffer \in Seq(1..Len(posted)) /\ running \in [Workers -> 1..Len(posted) \cup {NoJob}]
      /\ posted \in Seq(Batch) /\ Len(posted) \in Nat
  BY DEF FileInv, FileType
<1>4. /\ buffer' \in Seq(1..Len(posted)) /\ Len(buffer) \in Nat /\ Len(buffer') = Len(buffer) - 1
      /\ job = buffer[1] /\ 1 \in DOMAIN buffer /\ job \in 1..Len(posted)
      /\ DOMAIN buffer' = 1..(Len(buffer) - 1) /\ DOMAIN buffer = 1..Len(buffer)
      /\ \A i \in 1..(Len(buffer) - 1) : buffer'[i] = buffer[i + 1]
  BY <1>1, <1>3
<1> HIDE DEF job
<1>5. job # NoJob /\ running'[w] = job /\ \A v \in Workers : v # w => running'[v] = running[v]
  BY <1>1, <1>3, <1>4, FileAssumption
<1>6. FileType'
  BY <1>1, <1>2, <1>3, <1>4 DEF FileInv, FileType
<1>7. \A i \in DOMAIN buffer' : i + 1 \in DOMAIN buffer /\ i + 1 # 1 /\ buffer'[i] = buffer[i + 1]
  BY <1>4
<1>8. \A i, k \in DOMAIN buffer : buffer[i] = buffer[k] => i = k
  BY DEF FileInv, PromisesLeft
<1>9. PromisesLeft'
  <2>1. \A i, k \in DOMAIN buffer' : buffer'[i] = buffer'[k] => i = k
    <3> SUFFICES ASSUME NEW i \in DOMAIN buffer', NEW k \in DOMAIN buffer', buffer'[i] = buffer'[k]
                 PROVE  i = k
      OBVIOUS
    <3>1. i + 1 = k + 1
      BY <1>7, <1>8
    <3> QED BY <1>4, <3>1
  <2>2. \A i \in DOMAIN buffer' : buffer'[i] # job
    BY <1>4, <1>7, <1>8
  <2>3. \A i \in DOMAIN buffer' : \E k \in DOMAIN buffer : buffer[k] = buffer'[i]
    BY <1>7
  <2>4. \A v \in Workers : running[v] # job
    BY <1>4, <1>5 DEF FileInv, PromisesLeft
  <2>5. \A v \in Workers : running'[v] # NoJob => \A i \in DOMAIN buffer' : buffer'[i] # running'[v]
    <3> SUFFICES ASSUME NEW v \in Workers, running'[v] # NoJob, NEW i \in DOMAIN buffer'
                 PROVE  buffer'[i] # running'[v]
      OBVIOUS
    <3>1. CASE v = w
      BY <1>5, <2>2, <3>1
    <3>2. CASE v # w
      BY <1>5, <2>3, <3>2 DEF FileInv, PromisesLeft
    <3> QED BY <3>1, <3>2
  <2>6. \A u, v \in Workers : running'[u] # NoJob /\ running'[v] = running'[u] => v = u
    <3> SUFFICES ASSUME NEW u \in Workers, NEW v \in Workers,
                        running'[u] # NoJob, running'[v] = running'[u]
                 PROVE  v = u
      OBVIOUS
    <3>1. CASE u = w \/ v = w
      BY <1>5, <2>4, <3>1
    <3>2. CASE u # w /\ v # w
      BY <1>5, <3>2 DEF FileInv, PromisesLeft
    <3> QED BY <3>1, <3>2
  <2>7. \E k \in DOMAIN posted[job].promises : answer[posted[job].promises[k]] = Unset
    <3>1. IssuedParts
      BY IssuedType DEF FileInv, FileType
    <3>2. job \in DOMAIN Issued /\ Issued[job] = posted[job]
      BY <1>4, <3>1 DEF IssuedParts
    <3>3. \A k \in DOMAIN Issued[job].promises : answer[Issued[job].promises[k]] = Unset
      BY <1>4, <3>2 DEF FileInv, PromisesLeft
    <3>4. 1 \in DOMAIN Issued[job].promises
      BY <3>2 DEF FileInv, OwnPromises
    <3> QED BY <3>2, <3>3, <3>4
  <2>8. \A v \in Workers : running'[v] # NoJob =>
          \E k \in DOMAIN posted'[running'[v]].promises :
            answer'[posted'[running'[v]].promises[k]] = Unset
    <3> SUFFICES ASSUME NEW v \in Workers, running'[v] # NoJob
                 PROVE  \E k \in DOMAIN posted[running'[v]].promises :
                          answer[posted[running'[v]].promises[k]] = Unset
      BY <1>1
    <3>1. CASE v = w
      BY <1>5, <2>7, <3>1
    <3>2. CASE v # w
      BY <1>5, <3>2 DEF FileInv, PromisesLeft
    <3> QED BY <3>1, <3>2
  <2>9. \A b \in DOMAIN Issued' :
          (b > Len(posted') \/ \E i \in DOMAIN buffer' : buffer'[i] = b) =>
            \A k \in DOMAIN Issued'[b].promises : answer'[Issued'[b].promises[k]] = Unset
    BY <1>1, <1>2, <2>3 DEF FileInv, PromisesLeft
  <2>10. \A line \in Lines' : line >= next' => answer'[line] = Unset
    BY <1>1, <1>2 DEF FileInv, PromisesLeft
  <2> QED BY <2>1, <2>5, <2>6, <2>8, <2>9, <2>10 DEF PromisesLeft
<1>10. OwnAnswers'
  BY <1>1, <1>2 DEF FileInv, OwnAnswers
<1>11. OwnPromises'
  BY <1>1, <1>2 DEF FileInv, OwnPromises
<1>12. FuturesInOrder'
  BY <1>1, <1>2 DEF FileInv, FuturesInOrder
<1> QED BY <1>1, <1>6, <1>9, <1>10, <1>11, <1>12 DEF FileInv, OutputInOrder, DoneMeansComplete

\* Which promise a worker sets: one of its job's that is not set, for a line
\* that was read, with that line's result or an exception.
LEMMA SetPromiseSets ==
  ASSUME FileInv, NEW w \in Workers, SetPromise(w)
  PROVE  LET job == posted[running[w]] IN
         \E k \in DOMAIN job.promises :
           /\ running[w] \in DOMAIN Issued /\ Issued[running[w]] = job
           /\ job.promises[k] \in Lines /\ job.promises[k] < next
           /\ answer[job.promises[k]] = Unset
           /\ answer'[job.promises[k]] \in {Exception, job.promises[k]}
           /\ \A line \in Lines : line # job.promises[k] => answer'[line] = answer[line]
           /\ answer' \in [Lines -> Int]
           /\ \/ Pool!Finish(w)
              \/ /\ UNCHANGED poolVars
                 /\ \E l \in DOMAIN job.promises : l # k /\ answer[job.promises[l]] = Unset
<1> DEFINE job == posted[running[w]]
           unset == {k \in DOMAIN job.promises : answer[job.promises[k]] = Unset}
           k == Min(unset)
<1>1. running[w] # NoJob /\ running[w] \in 1..Len(posted)
  BY DEF SetPromise, FileInv, FileType
<1>2. running[w] \in DOMAIN Issued /\ Issued[running[w]] = job
  <2>1. IssuedParts
    BY IssuedType DEF FileInv, FileType
  <2> QED BY <1>1, <2>1 DEF IssuedParts
<1>3. job \in Batch
  BY <1>1 DEF FileInv, FileType
<1>4. unset # {} /\ unset \in SUBSET Nat
  <2>1. unset # {}
    BY <1>1 DEF FileInv, PromisesLeft
  <2>2. job.promises \in Seq(Nat)
    BY <1>3 DEF Batch
  <2>3. DOMAIN job.promises \subseteq Nat
    BY <2>2
  <2> QED BY <2>1, <2>3
<1>5. k \in unset
  <2> HIDE DEF unset
  <2>1. \E x \in unset : \A y \in unset : x <= y
    BY <1>4, LeastNatural
  <2> QED BY <2>1 DEF Min
<1>6. /\ answer' = [answer EXCEPT ![job.promises[k]] =
                      IF result[w] = "error" THEN Exception ELSE job.examples[k].line]
      /\ IF Cardinality(unset) = 1 THEN Pool!Finish(w) ELSE UNCHANGED poolVars
  BY DEF SetPromise
<1>7. PICK l \in DOMAIN job.promises : l = k /\ answer[job.promises[l]] = Unset
  BY <1>5
<1>8. job.promises[l] \in 1..(next - 1) /\ job.examples[l].line = job.promises[l]
  BY <1>2 DEF FileInv, OwnPromises
<1>9. job.promises[l] \in Lines /\ job.promises[l] < next
  <2>1. /\ Lines = 1..Len(streams[1]) /\ Len(streams[1]) \in Nat /\ LastLine \in Nat
        /\ LastLine <= Len(streams[1]) /\ next \in 1..(LastLine + 1)
    BY InputType DEF FileInv, FileType
  <2> HIDE DEF job
  <2> QED BY <1>8, <2>1
<1>10. answer \in [Lines -> Int] /\ job.promises[l] \in Int
  <2>1. Lines = 1..Len(streams[1]) /\ Len(streams[1]) \in Nat
    BY InputType DEF FileInv, FileType
  <2> QED BY <1>9, <2>1 DEF FileInv, FileType
<1>11. /\ answer'[job.promises[l]] \in {Exception, job.promises[l]}
       /\ \A line \in Lines : line # job.promises[l] => answer'[line] = answer[line]
       /\ answer' \in [Lines -> Int]
  <2> HIDE DEF unset, k, job
  <2> QED BY <1>6, <1>7, <1>8, <1>9, <1>10 DEF Exception
<1>12. ASSUME Cardinality(unset) # 1
       PROVE  \E m \in DOMAIN job.promises : m # l /\ answer[job.promises[m]] = Unset
  <2>1. unset # {l}
    BY <1>12, FS_Singleton
  <2>2. PICK m \in unset : m # l
    BY <1>5, <1>7, <2>1
  <2> QED BY <2>2
<1> HIDE DEF unset, k
<1>13. Pool!Finish(w) \/ (UNCHANGED poolVars /\ Cardinality(unset) # 1)
  BY <1>6
<1> QED BY <1>2, <1>7, <1>9, <1>11, <1>12, <1>13

\* A promise is set for its own line, once, and disturbs no other batch.
LEMMA SetPromiseKeeps ==
  ASSUME FileInv, NEW w \in Workers, SetPromise(w)
  PROVE  FileInv'
<1> DEFINE j == running[w]
<1>1. /\ UNCHANGED <<streams, next, batches, chunk, posted, result, pending, output, pc>>
      /\ running[w] # NoJob
  BY DEF SetPromise, readerVars, callerVars
<1>2. /\ LastLine' = LastLine /\ ExampleSet' = ExampleSet /\ Lines' = Lines
      /\ Batch' = Batch /\ Piece' = Piece /\ First' = First /\ Issued' = Issued
  BY <1>1, ReaderFrame, IssuedFrame
<1>3. PICK k \in DOMAIN posted[j].promises :
           /\ j \in DOMAIN Issued /\ Issued[j] = posted[j]
           /\ posted[j].promises[k] \in Lines /\ posted[j].promises[k] < next
           /\ answer[posted[j].promises[k]] = Unset
           /\ answer'[posted[j].promises[k]] \in {Exception, posted[j].promises[k]}
           /\ \A line \in Lines : line # posted[j].promises[k] => answer'[line] = answer[line]
           /\ answer' \in [Lines -> Int]
           /\ \/ Pool!Finish(w)
              \/ /\ UNCHANGED poolVars
                 /\ \E l \in DOMAIN posted[j].promises : l # k /\ answer[posted[j].promises[l]] = Unset
  BY SetPromiseSets
<1> DEFINE set == posted[j].promises[k]
<1>4. j \in 1..Len(posted) /\ Len(posted) \in Nat /\ posted \in Seq(Batch)
      /\ running \in [Workers -> 1..Len(posted) \cup {NoJob}]
      /\ finished \subseteq 1..Len(posted)
  BY <1>1 DEF FileInv, FileType
<1>5. \A b \in DOMAIN Issued, l \in Nat :
        l \in DOMAIN Issued[b].promises /\ (b # j \/ l # k) =>
          /\ Issued[b].promises[l] # set
          /\ answer'[Issued[b].promises[l]] = answer[Issued[b].promises[l]]
  <2> SUFFICES ASSUME NEW b \in DOMAIN Issued, NEW l \in DOMAIN Issued[b].promises, b # j \/ l # k
               PROVE  /\ Issued[b].promises[l] # set
                      /\ answer'[Issued[b].promises[l]] = answer[Issued[b].promises[l]]
    OBVIOUS
  <2>1. Issued[b].promises[l] # set
    BY <1>3 DEF FileInv, OwnPromises
  <2>2. Issued[b].promises[l] \in 1..(next - 1)
    BY DEF FileInv, OwnPromises
  <2>3. Issued[b].promises[l] \in Lines
    BY <2>2, InputType DEF FileInv, FileType
  <2> QED BY <1>3, <2>1, <2>3
<1>6. /\ UNCHANGED buffer
      /\ running' \in [Workers -> 1..Len(posted) \cup {NoJob}]
      /\ finished' \subseteq 1..Len(posted)
      /\ \A v \in Workers : v # w => running'[v] = running[v]
      /\ running'[w] = NoJob \/ (/\ running'[w] = j
                               /\ \E l \in DOMAIN posted[j].promises :
                                    l # k /\ answer[posted[j].promises[l]] = Unset)
  <2>1. CASE Pool!Finish(w)
    BY <1>4, <2>1 DEF Pool!Finish
  <2>2. CASE UNCHANGED poolVars
    BY <1>3, <1>4, <2>1, <2>2 DEF poolVars
  <2> QED BY <1>3, <2>1, <2>2
<1> HIDE DEF set
<1>7. FileType'
  BY <1>1, <1>2, <1>3, <1>6 DEF FileInv, FileType
<1>8. OwnAnswers'
  BY <1>2, <1>3 DEF FileInv, OwnAnswers, set
<1>9. PromisesLeft'
  <2>1. \A i, l \in DOMAIN buffer' : buffer'[i] = buffer'[l] => i = l
    BY <1>6 DEF FileInv, PromisesLeft
  <2>2. ASSUME NEW v \in Workers, running'[v] # NoJob
        PROVE  running'[v] = running[v] /\ running[v] # NoJob
    BY <1>1, <1>6, <2>2
  <2>3. \A v \in Workers : running'[v] # NoJob => \A i \in DOMAIN buffer' : buffer'[i] # running'[v]
    BY <1>6, <2>2 DEF FileInv, PromisesLeft
  <2>4. \A u, v \in Workers : running'[u] # NoJob /\ running'[v] = running'[u] => v = u
    BY <2>2 DEF FileInv, PromisesLeft
  <2>5. \A b \in DOMAIN Issued : \A l \in DOMAIN Issued[b].promises : l \in Nat
    <3>1. IssuedParts
      BY IssuedType DEF FileInv, FileType
    <3> SUFFICES ASSUME NEW b \in DOMAIN Issued PROVE DOMAIN Issued[b].promises \subseteq Nat
      OBVIOUS
    <3>2. CASE b \in 1..Len(posted)
      <4>1. Issued[b] = posted[b] /\ posted[b] \in Batch
        BY <1>4, <3>1, <3>2 DEF IssuedParts
      <4>2. posted[b].promises \in Seq(Nat)
        BY <4>1 DEF Batch
      <4> QED BY <4>1, <4>2
    <3>3. CASE b \notin 1..Len(posted)
      <4>1. b \in (Len(posted) + 1)..(Len(posted) + Len(chunk)) /\ b - Len(posted) \in 1..Len(chunk)
        BY <3>1, <3>3 DEF IssuedParts
      <4>2. Issued[b] = Promised(First, chunk[b - Len(posted)])
        BY <3>1, <4>1 DEF IssuedParts
      <4>3. chunk \in Seq(Piece)
        BY DEF FileInv, FileType
      <4>4. chunk[b - Len(posted)] \in Piece
        BY <4>1, <4>3
      <4>5. chunk[b - Len(posted)].example_index \in Seq(Nat)
        BY <4>4 DEF Piece
      <4> QED BY <4>2, <4>5 DEF Promised
    <3> QED BY <3>2, <3>3
  <2>6. ASSUME NEW v \in Workers, running'[v] # NoJob
        PROVE  \E l \in DOMAIN posted'[running'[v]].promises :
                 answer'[posted'[running'[v]].promises[l]] = Unset
    <3>1. CASE v = w
      <4>1. PICK l \in DOMAIN posted[j].promises : l # k /\ answer[posted[j].promises[l]] = Unset
        BY <1>6, <2>6, <3>1
      <4>2. answer'[posted[j].promises[l]] = Unset
        BY <1>3, <1>5, <2>5, <4>1
      <4> QED BY <1>1, <1>6, <2>6, <3>1, <4>2
    <3>2. CASE v # w
      <4>1. running'[v] = running[v] /\ running[v] # j /\ running[v] \in 1..Len(posted)
        BY <1>1, <1>4, <1>6, <2>6, <3>2 DEF FileInv, PromisesLeft
      <4>2. PICK l \in DOMAIN posted[running[v]].promises :
              answer[posted[running[v]].promises[l]] = Unset
        BY <2>6, <4>1 DEF FileInv, PromisesLeft
      <4>3. IssuedParts
        BY IssuedType DEF FileInv, FileType
      <4>4. running[v] \in DOMAIN Issued /\ Issued[running[v]] = posted[running[v]]
        BY <4>1, <4>3 DEF IssuedParts
      <4>5. answer'[posted[running[v]].promises[l]] = Unset
        BY <1>5, <2>5, <4>1, <4>2, <4>4
      <4> QED BY <1>1, <4>1, <4>5
    <3> QED BY <3>1, <3>2
  <2>7. ASSUME NEW b \in DOMAIN Issued, b > Len(posted) \/ \E i \in DOMAIN buffer : buffer[i] = b,
               NEW l \in DOMAIN Issued[b].promises
        PROVE  answer'[Issued[b].promises[l]] = Unset
    <3>1. b # j
      BY <1>1, <1>4, <2>7 DEF FileInv, PromisesLeft
    <3>2. answer[Issued[b].promises[l]] = Unset
      BY <2>7 DEF FileInv, PromisesLeft
    <3> QED BY <1>5, <2>5, <3>1, <3>2
  <2>8. \A b \in DOMAIN Issued' :
          (b > Len(posted') \/ \E i \in DOMAIN buffer' : buffer'[i] = b) =>
            \A l \in DOMAIN Issued'[b].promises : answer'[Issued'[b].promises[l]] = Unset
    BY <1>1, <1>2, <1>6, <2>7
  <2>9. \A line \in Lines' : line >= next' => answer'[line] = Unset
    <3>1. Lines \subseteq Int /\ next \in Int
      BY InputType DEF FileInv, FileType
    <3>2. \A line \in Lines : line >= next => line # set
      BY <1>3, <3>1 DEF set
    <3> QED BY <1>1, <1>2, <1>3, <3>2 DEF FileInv, PromisesLeft, set
  <2> QED BY <2>1, <2>3, <2>4, <2>6, <2>8, <2>9 DEF PromisesLeft
<1>10. OwnPromises'
  BY <1>1, <1>2 DEF FileInv, OwnPromises
<1>11. FuturesInOrder'
  BY <1>1, <1>2 DEF FileInv, FuturesInOrder
<1> QED BY <1>1, <1>7, <1>8, <1>9, <1>10, <1>11 DEF FileInv, OutputInOrder, DoneMeansComplete

-----------------------------------------------------------------------------
\* The lines of a chunk are new, and each is in one place of one batch.
LEMMA ReadChunkKeeps ==
  ASSUME FileInv, ReadChunk
  PROVE  FileInv'
<1> DEFINE rest == SubSeq(Examples(streams), next, LastLine)
           count == BatchLength(rest, call.max, call.type, call.padding)
           read == SubSeq(rest, 1, count)
<1>1. /\ UNCHANGED <<streams, posted, buffer, running, finished, result, answer, pending, output>>
      /\ pc = "read" /\ pc' = "post" /\ next <= LastLine
      /\ batches' = Append(batches, read) /\ next' = next + count
      /\ \E order \in SortedOrders(Last(batches')) :
           chunk' = Rebatch(Last(batches'), order, MaxBatchSize, call.type)
  BY DEF ReadChunk, Fill, poolVars, workerVars
<1>2. /\ LastLine' = LastLine /\ ExampleSet' = ExampleSet /\ Lines' = Lines
      /\ Batch' = Batch /\ Piece' = Piece
  BY <1>1 DEF LastLine, ExampleSet, Lines, Batch, Piece
<1>3. /\ streams \in Inputs /\ LastLine \in Nat /\ next \in 1..LastLine
      /\ Lines = 1..Len(streams[1]) /\ Len(streams[1]) \in Nat /\ LastLine <= Len(streams[1])
      /\ \A line \in 1..LastLine : Examples(streams)[line].line = line
  BY <1>1, InputType DEF FileInv, FileType
<1>4. /\ count \in 1..(LastLine + 1 - next) /\ read \in Seq(ExampleSet) /\ Len(read) = count
      /\ \A i \in 1..count : read[i] = Examples(streams)[next + i - 1]
  BY <1>3, ChunkType
<1> HIDE DEF read, count
<1>5. \A i \in 1..count : read[i].line = next + i - 1 /\ next + i - 1 \in next..(next' - 1)
  <2> SUFFICES ASSUME NEW i \in 1..count
               PROVE  read[i].line = next + i - 1 /\ next + i - 1 \in next..(next' - 1)
    OBVIOUS
  <2>1. next + i - 1 \in 1..LastLine
    BY <1>3, <1>4
  <2>2. read[i].line = next + i - 1
    BY <1>3, <1>4, <2>1
  <2> QED BY <1>1, <1>3, <1>4, <2>2
<1>6. /\ batches' \in Seq(Seq(ExampleSet)) /\ Last(batches') = read /\ batches' # <<>>
      /\ DOMAIN read = 1..count /\ First' = next /\ next' \in 1..(LastLine + 1)
  <2>1. batches \in Seq(Seq(ExampleSet))
    BY DEF FileInv, FileType
  <2>2. batches' \in Seq(Seq(ExampleSet)) /\ Last(batches') = read /\ batches' # <<>>
    <3> DEFINE T == Seq(ExampleSet)
    <3>1. read \in T /\ batches \in Seq(T) /\ batches' = Append(batches, read)
      BY <1>1, <1>4, <2>1
    <3> HIDE DEF T
    <3>2. /\ batches' \in Seq(T) /\ Len(batches') = Len(batches) + 1 /\ Len(batches) \in Nat
          /\ batches'[Len(batches) + 1] = read
      BY <3>1
    <3>3. batches' # <<>>
      BY <3>2
    <3> QED BY <3>2, <3>3 DEF T, Last
  <2>3. First' = next' - Len(Last(batches'))
    BY DEF First
  <2> QED BY <1>1, <1>3, <1>4, <2>2, <2>3
<1>7. PICK order \in SortedOrders(read) : chunk' = Rebatch(read, order, MaxBatchSize, call.type)
  BY <1>1, <1>6
<1>8. chunk' \in Seq(Piece)
  BY <1>4, <1>7, RebatchType DEF Piece
<1>9. /\ DOMAIN chunk' = 1..Len(chunk') /\ Len(chunk') \in Nat
      /\ \A b \in DOMAIN chunk' :
           /\ chunk'[b].example_index \in Seq(1..count)
           /\ 1 \in DOMAIN chunk'[b].example_index
           /\ DOMAIN chunk'[b].examples = DOMAIN chunk'[b].example_index
           /\ \A k \in DOMAIN chunk'[b].example_index :
                /\ chunk'[b].example_index[k] \in 1..count
                /\ chunk'[b].examples[k] = read[chunk'[b].example_index[k]]
      /\ \A b, c \in DOMAIN chunk' :
           \A k \in DOMAIN chunk'[b].example_index, l \in DOMAIN chunk'[c].example_index :
             chunk'[b].example_index[k] = chunk'[c].example_index[l] => b = c /\ k = l
  <2>1. Len(read) \in Nat /\ DOMAIN read = 1..Len(read) /\ DOMAIN read = 1..count
    BY <1>4, <1>6
  <2> DEFINE cut == Rebatch(read, order, MaxBatchSize, call.type)
  <2>2. /\ DOMAIN cut = 1..Len(cut) /\ Len(cut) \in Nat
        /\ \A b \in DOMAIN cut :
             /\ cut[b].example_index \in Seq(DOMAIN read)
             /\ DOMAIN cut[b].examples = DOMAIN cut[b].example_index
             /\ \A k \in DOMAIN cut[b].example_index :
                  /\ cut[b].example_index[k] \in DOMAIN read
                  /\ cut[b].examples[k] = read[cut[b].example_index[k]]
    BY <2>1, BatchesCarryTheirIndex
  <2>3. /\ \A b \in DOMAIN cut : 1 \in DOMAIN cut[b].example_index
        /\ \A b, c \in DOMAIN cut :
             \A k \in DOMAIN cut[b].example_index, l \in DOMAIN cut[c].example_index :
               cut[b].example_index[k] = cut[c].example_index[l] => b = c /\ k = l
    BY <2>1, EachExampleOnce
  <2>4. chunk' = cut
    BY <1>7
  <2> HIDE DEF cut
  <2>5. \A b \in DOMAIN cut : /\ cut[b].example_index \in Seq(1..count)
                            /\ \A k \in DOMAIN cut[b].example_index :
                                 cut[b].example_index[k] \in 1..count
    BY <2>1, <2>2
  <2> QED BY <2>2, <2>3, <2>4, <2>5
<1>10. FileType'
  <2>1. next' \in 1..(LastLine' + 1)
    BY <1>2, <1>6
  <2> QED BY <1>1, <1>2, <1>6, <1>8, <2>1 DEF FileInv, FileType
<1>11. IssuedParts /\ IssuedParts'
  <2>1. (posted \in Seq(Batch))' /\ (chunk \in Seq(Piece))'
    BY <1>10 DEF FileType
  <2>2. IssuedParts'
    BY <2>1, IssuedType, PTL
  <2> QED BY <2>2, IssuedType DEF FileInv, FileType
<1>12. DOMAIN Issued' = 1..(Len(posted) + Len(chunk')) /\ Len(posted) \in Nat
       /\ \A b \in 1..Len(posted) : b \in DOMAIN Issued /\ Issued'[b] = Issued[b]
  <2>1. /\ DOMAIN Issued' = 1..(Len(posted) + Len(chunk')) /\ Len(posted) \in Nat
        /\ DOMAIN Issued = 1..(Len(posted) + Len(chunk)) /\ Len(chunk) \in Nat
    BY <1>1, <1>11 DEF IssuedParts
  <2>2. \A b \in 1..Len(posted) : b \in DOMAIN Issued
    BY <2>1
  <2>3. \A b \in 1..Len(posted) : Issued'[b] = posted'[b] /\ Issued[b] = posted[b]
    BY <1>1, <1>11 DEF IssuedParts
  <2> QED BY <1>1, <2>1, <2>2, <2>3
<1>13. ASSUME NEW b \in DOMAIN Issued', b \notin 1..Len(posted)
       PROVE  \E c \in DOMAIN chunk' :
                /\ b = Len(posted) + c
                /\ Issued'[b].examples = chunk'[c].examples
                /\ DOMAIN Issued'[b].promises = DOMAIN chunk'[c].example_index
                /\ \A k \in DOMAIN chunk'[c].example_index :
                     Issued'[b].promises[k] = next + chunk'[c].example_index[k] - 1
  <2> DEFINE c == b - Len(posted)
  <2>1. b \in (Len(posted) + 1)..(Len(posted) + Len(chunk')) /\ c \in DOMAIN chunk' /\ b = Len(posted) + c
    BY <1>9, <1>12, <1>13
  <2>2. Issued'[b] = Promised(First', chunk'[c])
    BY <1>1, <1>11, <2>1 DEF IssuedParts
  <2> QED BY <1>6, <2>1, <2>2 DEF Promised
<1>14. OwnAnswers'
  BY <1>1, <1>2 DEF FileInv, OwnAnswers
<1>15. ASSUME NEW b \in DOMAIN Issued', b \notin 1..Len(posted)
       PROVE  /\ 1 \in DOMAIN Issued'[b].promises
              /\ DOMAIN Issued'[b].examples = DOMAIN Issued'[b].promises
              /\ \A k \in DOMAIN Issued'[b].promises :
                   /\ Issued'[b].promises[k] \in next..(next' - 1)
                   /\ Issued'[b].examples[k].line = Issued'[b].promises[k]
  <2>1. PICK c \in DOMAIN chunk' :
          /\ Issued'[b].examples = chunk'[c].examples
          /\ DOMAIN Issued'[b].promises = DOMAIN chunk'[c].example_index
          /\ \A k \in DOMAIN chunk'[c].example_index :
               Issued'[b].promises[k] = next + chunk'[c].example_index[k] - 1
    BY <1>13, <1>15
  <2>2. ASSUME NEW k \in DOMAIN Issued'[b].promises
        PROVE  /\ Issued'[b].promises[k] \in next..(next' - 1)
               /\ Issued'[b].examples[k].line = Issued'[b].promises[k]
    <3>1. PICK i \in 1..count : i = chunk'[c].example_index[k] /\ chunk'[c].examples[k] = read[i]
      BY <1>9, <2>1
    <3> QED BY <1>5, <2>1, <3>1
  <2> QED BY <1>9, <2>1, <2>2
<1>16. ASSUME NEW b \in DOMAIN Issued', b \in 1..Len(posted)
       PROVE  /\ 1 \in DOMAIN Issued'[b].promises
              /\ DOMAIN Issued'[b].examples = DOMAIN Issued'[b].promises
              /\ \A k \in DOMAIN Issued'[b].promises :
                   /\ Issued'[b].promises[k] \in 1..(next - 1)
                   /\ Issued'[b].examples[k].line = Issued'[b].promises[k]
  BY <1>12, <1>16 DEF FileInv, OwnPromises
<1>17. next..(next' - 1) \subseteq 1..(next' - 1) /\ 1..(next - 1) \subseteq 1..(next' - 1)
       /\ \A old \in 1..(next - 1), new \in next..(next' - 1) : old # new
  BY <1>1, <1>3, <1>4
<1>18. ASSUME NEW b \in DOMAIN Issued', NEW c \in DOMAIN Issued',
              NEW k \in DOMAIN Issued'[b].promises, NEW l \in DOMAIN Issued'[c].promises,
              Issued'[b].promises[k] = Issued'[c].promises[l]
       PROVE  b = c /\ k = l
  <2>1. CASE b \in 1..Len(posted) /\ c \in 1..Len(posted)
    BY <1>12, <1>18, <2>1 DEF FileInv, OwnPromises
  <2>2. CASE b \in 1..Len(posted) /\ c \notin 1..Len(posted)
    BY <1>15, <1>16, <1>17, <1>18, <2>2
  <2>3. CASE b \notin 1..Len(posted) /\ c \in 1..Len(posted)
    BY <1>15, <1>16, <1>17, <1>18, <2>3
  <2>4. CASE b \notin 1..Len(posted) /\ c \notin 1..Len(posted)
    <3>1. PICK p \in DOMAIN chunk' :
            /\ b = Len(posted) + p
            /\ k \in DOMAIN chunk'[p].example_index
            /\ Issued'[b].promises[k] = next + chunk'[p].example_index[k] - 1
      BY <1>13, <2>4
    <3>2. PICK q \in DOMAIN chunk' :
            /\ c = Len(posted) + q
            /\ l \in DOMAIN chunk'[q].example_index
            /\ Issued'[c].promises[l] = next + chunk'[q].example_index[l] - 1
      BY <1>13, <2>4
    <3>3. chunk'[p].example_index[k] \in Int /\ chunk'[q].example_index[l] \in Int /\ next \in Int
      BY <1>3, <1>9, <3>1, <3>2
    <3>4. chunk'[p].example_index[k] = chunk'[q].example_index[l]
      BY <1>18, <3>1, <3>2, <3>3
    <3> QED BY <1>9, <3>1, <3>2, <3>4
  <2> QED BY <2>1, <2>2, <2>3, <2>4
<1>19. OwnPromises'
  <2>1. \A b \in DOMAIN Issued' :
          /\ 1 \in DOMAIN Issued'[b].promises
          /\ DOMAIN Issued'[b].examples = DOMAIN Issued'[b].promises
          /\ \A k \in DOMAIN Issued'[b].promises :
               /\ Issued'[b].promises[k] \in 1..(next' - 1)
               /\ Issued'[b].examples[k].line = Issued'[b].promises[k]
    BY <1>15, <1>16, <1>17
  <2> QED BY <1>18, <2>1 DEF OwnPromises
<1>20. PromisesLeft'
  <2>1. \A line \in Lines : line >= next => answer[line] = Unset
    BY DEF FileInv, PromisesLeft
  <2>2. ASSUME NEW b \in DOMAIN Issued', b > Len(posted) \/ \E i \in DOMAIN buffer : buffer[i] = b,
               NEW k \in DOMAIN Issued'[b].promises
        PROVE  answer[Issued'[b].promises[k]] = Unset
    <3>1. CASE b \in 1..Len(posted)
      BY <1>12, <2>2, <3>1 DEF FileInv, PromisesLeft
    <3>2. CASE b \notin 1..Len(posted)
      <4>1. Issued'[b].promises[k] \in next..(next' - 1)
        BY <1>15, <3>2
      <4>2. Issued'[b].promises[k] \in Lines /\ Issued'[b].promises[k] >= next
        BY <1>3, <1>6, <4>1
      <4> QED BY <2>1, <4>2
    <3> QED BY <3>1, <3>2
  <2>3. \A b \in DOMAIN Issued' :
          (b > Len(posted') \/ \E i \in DOMAIN buffer' : buffer'[i] = b) =>
            \A k \in DOMAIN Issued'[b].promises : answer'[Issued'[b].promises[k]] = Unset
    BY <1>1, <2>2
  <2>4. \A line \in Lines' : line >= next' => answer'[line] = Unset
    <3>1. \A line \in Lines : line >= next' => line >= next
      BY <1>1, <1>3, <1>4
    <3> QED BY <1>1, <1>2, <2>1, <3>1
  <2>5. /\ \A i, k \in DOMAIN buffer' : buffer'[i] = buffer'[k] => i = k
        /\ \A w \in Workers : running'[w] # NoJob =>
             /\ \A i \in DOMAIN buffer' : buffer'[i] # running'[w]
             /\ \A v \in Workers : running'[v] = running'[w] => v = w
             /\ \E k \in DOMAIN posted'[running'[w]].promises :
                  answer'[posted'[running'[w]].promises[k]] = Unset
    BY <1>1 DEF FileInv, PromisesLeft
  <2> QED BY <2>3, <2>4, <2>5 DEF PromisesLeft
<1>21. FuturesInOrder'
  <2>1. /\ Len(output) + Len(pending) = next - 1
        /\ \A i \in DOMAIN pending : pending[i] = Len(output) + i
    BY <1>1 DEF FileInv, FuturesInOrder
  <2>2. Len(Last(batches')) \in 1..(next' - 1)
    BY <1>1, <1>3, <1>4, <1>6
  <2> QED BY <1>1, <1>6, <2>1, <2>2 DEF FuturesInOrder
<1> QED BY <1>1, <1>10, <1>14, <1>19, <1>20, <1>21 DEF FileInv, OutputInOrder, DoneMeansComplete

\* A step outside of the call changes nothing.
LEMMA FileStutters ==
  ASSUME FileInv, UNCHANGED vars
  PROVE  FileInv'
<1>1. UNCHANGED <<streams, next, batches, chunk, posted, buffer, running, finished, result, answer,
                  pending, output, pc>>
  BY DEF vars, readerVars, poolVars, workerVars, callerVars
<1>2. FileType' /\ OwnAnswers' /\ OwnPromises' /\ PromisesLeft'
  BY <1>1, CallerFrame DEF FileInv, FileType
<1> QED BY <1>1, <1>2, ReaderFrame DEF FileInv, FuturesInOrder, OutputInOrder, DoneMeansComplete

-----------------------------------------------------------------------------
\* The invariant of a call: every promise belongs to the line of its example,
\* to one batch, and to a job that is still to set it, and the futures are
\* queued in the order of the input (consume_batches, post_examples).
THEOREM FileInvariant == Spec => []FileInv
<1>1. FileInv /\ [Next]_vars => FileInv'
  <2> SUFFICES ASSUME FileInv, [Next]_vars PROVE FileInv'
    OBVIOUS
  <2>1. CASE CallerStep
    BY <2>1, ReadChunkKeeps, ReadThrowsKeeps, ReadEndKeeps, PostBatchKeeps, QueueFuturesKeeps,
       PopResultKeeps, StopPoppingKeeps, ReturnKeeps DEF CallerStep
  <2>2. CASE \E w \in Workers : WorkerStep(w)
    BY <2>2, RunBatchKeeps, SetPromiseKeeps DEF WorkerStep
  <2>3. CASE UNCHANGED vars
    BY <2>3, FileStutters
  <2> QED BY <2>1, <2>2, <2>3 DEF Next
<1> QED BY <1>1, FileInitially, PTL DEF Spec

\* The output is in the order of the input at every moment, however batches are
\* sorted, cut, run and answered (example_index in post_examples, pop_results).
THEOREM OutputIsInOrder == Spec => []OutputInOrder
<1>1. FileInv => OutputInOrder
  BY DEF FileInv
<1> QED BY <1>1, FileInvariant, PTL

\* A call that returns has written every line of the source (consume_batches).
THEOREM DoneIsComplete == Spec => []DoneMeansComplete
<1>1. FileInv => DoneMeansComplete
  BY DEF FileInv
<1> QED BY <1>1, FileInvariant, PTL

\* No step sets a promise that is already set, which std::promise would answer
\* with an exception in the worker (BatchJob::run).
THEOREM PromisesSetOnce ==
  Spec => [][\A line \in Lines : answer[line] # Unset => answer'[line] = answer[line]]_vars
<1> DEFINE Once == \A line \in Lines : answer[line] # Unset => answer'[line] = answer[line]
<1>1. FileInv /\ [Next]_vars => Once
  <2> SUFFICES ASSUME FileInv, [Next]_vars, NEW line \in Lines, answer[line] # Unset
               PROVE  answer'[line] = answer[line]
    OBVIOUS
  <2>1. CASE \E w \in Workers : SetPromise(w)
    <3>1. PICK w \in Workers : SetPromise(w)
      BY <2>1
    <3>2. \E set \in Lines : /\ answer[set] = Unset
                             /\ \A other \in Lines : other # set => answer'[other] = answer[other]
      BY <3>1, SetPromiseSets
    <3> QED BY <3>2
  <2>2. CASE UNCHANGED answer
    BY <2>2
  <2>3. \/ \E w \in Workers : SetPromise(w)
        \/ UNCHANGED answer
    BY DEF Next, CallerStep, WorkerStep, ReadChunk, ReadThrows, ReadEnd, PostBatch, QueueFutures,
           PopResult, StopPopping, Return, RunBatch, vars, workerVars
  <2> QED BY <2>1, <2>2, <2>3
<1>2. FileInv /\ [Next]_vars => [Once]_vars
  BY <1>1
<1> QED BY <1>2, FileInvariant, PTL DEF Spec

-----------------------------------------------------------------------------
(* The reader on its own, for any values of max_batch_size. *)

\* The batches returned, one after the other, are the lines before the one in
\* _next; a reader that just ended returned all of a complete input.
ReaderInv ==
  /\ streams \in Inputs
  /\ next \in 1..(LastLine + 1)
  /\ batches \in Seq(Seq(ExampleSet))
  /\ FlattenSeq(batches) = SubSeq(Examples(streams), 1, next - 1)
  /\ status = "ended" => next = LastLine + 1 /\ LastLine = Len(streams[1])

\* get_next returns the lines that follow (BatchReader::get_next).
LEMMA FillKeeps ==
  ASSUME ReaderInv, Fill
  PROVE  ReaderInv'
<1> DEFINE all == Examples(streams)
           rest == SubSeq(all, next, LastLine)
           count == BatchLength(rest, call.max, call.type, call.padding)
           read == SubSeq(rest, 1, count)
<1>1. /\ UNCHANGED <<streams, status>> /\ status = "open" /\ next <= LastLine
      /\ batches' = Append(batches, read) /\ next' = next + count
  BY DEF Fill
<1>2. /\ LastLine \in Nat /\ next \in 1..LastLine /\ all \in Seq(ExampleSet) /\ Len(all) = LastLine
  BY <1>1, InputType DEF ReaderInv
<1>3. /\ count \in 1..(LastLine + 1 - next) /\ read \in Seq(ExampleSet) /\ Len(read) = count
      /\ \A i \in 1..count : read[i] = all[next + i - 1]
  BY <1>2, ChunkType DEF ReaderInv
<1>4. UNCHANGED <<LastLine, ExampleSet, all>>
  BY <1>1 DEF LastLine, ExampleSet
<1> HIDE DEF read, count, all
<1>5. FlattenSeq(batches') = SubSeq(all, 1, next - 1) \o read
  BY <1>1, <1>3, FlattenAppend DEF ReaderInv, all
<1>6. SubSeq(all, 1, next - 1) \o read = SubSeq(all, 1, next' - 1)
  <2> DEFINE before == SubSeq(all, 1, next - 1)
             after == SubSeq(all, 1, next' - 1)
  <2>1. next' - 1 \in 0..LastLine /\ next - 1 \in 0..LastLine /\ next' - 1 = (next - 1) + count
        /\ next - 1 \in Nat /\ count \in Nat /\ next' - 1 \in Nat
    BY <1>1, <1>2, <1>3
  <2>2. /\ before \in Seq(ExampleSet) /\ Len(before) = next - 1
        /\ \A i \in 1..(next - 1) : before[i] = all[i]
    BY <1>2, <2>1
  <2>3. /\ after \in Seq(ExampleSet) /\ Len(after) = next' - 1
        /\ \A i \in 1..(next' - 1) : after[i] = all[i]
    BY <1>2, <2>1
  <2> HIDE DEF before, after
  <2> DEFINE joined == before \o read
  <2>0. /\ joined \in Seq(ExampleSet) /\ Len(joined) = Len(before) + Len(read)
        /\ \A i \in 1..(Len(before) + Len(read)) :
             joined[i] = IF i <= Len(before) THEN before[i] ELSE read[i - Len(before)]
    BY <1>3, <2>2, ConcatProperties
  <2>4. /\ before \o read \in Seq(ExampleSet) /\ Len(before \o read) = next' - 1
        /\ \A i \in 1..(next' - 1) :
             (before \o read)[i] = IF i <= next - 1 THEN before[i] ELSE read[i - (next - 1)]
    <3> HIDE DEF joined
    <3>1. Len(before) + Len(read) = next' - 1
      BY <1>3, <2>1, <2>2
    <3>2. /\ joined \in Seq(ExampleSet) /\ Len(joined) = next' - 1
          /\ \A i \in 1..(next' - 1) :
               joined[i] = IF i <= next - 1 THEN before[i] ELSE read[i - (next - 1)]
      BY <2>0, <2>2, <3>1
    <3> QED BY <3>2 DEF joined
  <2>5. ASSUME NEW i \in 1..(next' - 1) PROVE (before \o read)[i] = after[i]
    <3>1. CASE i <= next - 1
      <4>1. i \in 1..(next - 1)
        BY <2>1, <3>1
      <4> QED BY <2>2, <2>3, <2>4, <3>1, <4>1
    <3>2. CASE ~(i <= next - 1)
      <4>1. i - (next - 1) \in 1..count /\ next + (i - (next - 1)) - 1 = i
        BY <1>2, <2>1, <3>2
      <4>2. read[i - (next - 1)] = all[i]
        BY <1>3, <4>1
      <4> QED BY <2>3, <2>4, <3>2, <4>2
    <3> QED BY <3>1, <3>2
  <2>6. before \o read = after
    BY <2>3, <2>4, <2>5, SeqEqual
  <2> QED BY <2>6 DEF before, after
<1>7. batches' \in Seq(Seq(ExampleSet))
  BY <1>1, <1>3 DEF ReaderInv
<1>8. next' \in 1..(LastLine + 1)
  BY <1>1, <1>2, <1>3
<1>9. streams' \in Inputs /\ status' # "ended"
  BY <1>1 DEF ReaderInv
<1>10. LastLine' = LastLine /\ ExampleSet' = ExampleSet /\ Examples(streams)' = all
  BY <1>4 DEF all
<1> QED BY <1>5, <1>6, <1>7, <1>8, <1>9, <1>10 DEF ReaderInv

\* The invariant of the reader (src/batch_reader.cc).
LEMMA ReaderInvariant == ReaderSpec => []ReaderInv
<1>1. ReaderInit => ReaderInv
  <2> SUFFICES ASSUME ReaderInit PROVE ReaderInv
    OBVIOUS
  <2>1. streams \in Inputs /\ next = 1 /\ batches = <<>> /\ status = "open"
    BY DEF ReaderInit
  <2>2. LastLine \in Nat /\ Examples(streams) \in Seq(ExampleSet)
    BY <2>1, InputType
  <2>3. SubSeq(Examples(streams), 1, 0) = <<>>
    BY <2>2
  <2>4. FlattenSeq(<<>>) = <<>>
    BY DEF FlattenSeq
  <2>5. FlattenSeq(batches) = SubSeq(Examples(streams), 1, next - 1)
    <3>1. next - 1 = 0
      BY <2>1
    <3>2. SubSeq(Examples(streams), 1, next - 1) = <<>>
      BY <2>3, <3>1, Zenon
    <3>3. FlattenSeq(batches) = <<>>
      BY <2>1, <2>4, Zenon
    <3> QED BY <3>2, <3>3
  <2>6. batches \in Seq(Seq(ExampleSet)) /\ next \in 1..(LastLine + 1) /\ status # "ended"
    BY <2>1, <2>2
  <2> QED BY <2>1, <2>5, <2>6 DEF ReaderInv
<1>2. ReaderInv /\ [ReaderNext]_readerVars => ReaderInv'
  <2> SUFFICES ASSUME ReaderInv, [ReaderNext]_readerVars PROVE ReaderInv'
    OBVIOUS
  <2>1. ASSUME UNCHANGED <<streams, next, batches>>, status' # "ended" \/ UNCHANGED status
        PROVE  ReaderInv'
    BY <2>1, ReaderFrame DEF ReaderInv
  <2>2. CASE Fill
    BY <2>2, FillKeeps
  <2>3. CASE FillThrows \/ FirstThrows
    BY <2>1, <2>3 DEF FillThrows, FirstThrows
  <2>4. CASE End
    <3>1. next > LastLine /\ ~ShortStream(streams) /\ UNCHANGED <<streams, next, batches>>
      BY <2>4 DEF End, Throws
    <3>2. next = LastLine + 1 /\ LastLine = Len(streams[1])
      BY <3>1, InputType DEF ReaderInv
    <3> QED BY <3>1, <3>2, ReaderFrame DEF ReaderInv
  <2>5. CASE UNCHANGED readerVars
    BY <2>1, <2>5 DEF readerVars
  <2> QED BY <2>2, <2>3, <2>4, <2>5 DEF ReaderNext
<1> QED BY <1>1, <1>2, PTL DEF ReaderSpec

\* The example read ahead is neither lost nor returned twice, however a batch is
\* filled (BatchReader::get_next and its two loops).
THEOREM ReaderSkipsNothing == ReaderSpec => []NothingSkipped
<1>1. ReaderInv => NothingSkipped
  <2> SUFFICES ASSUME ReaderInv PROVE NothingSkipped
    OBVIOUS
  <2>1. LastLine \in Nat /\ next - 1 \in Nat /\ next - 1 <= LastLine
    BY InputType DEF ReaderInv
  <2>2. Min({next - 1, LastLine}) = next - 1
    BY <2>1 DEF Min
  <2> QED BY <2>2 DEF ReaderInv, NothingSkipped
<1> QED BY <1>1, ReaderInvariant, PTL

\* An input that just ends was read completely: a stream that is shorter than
\* the first is an error (ParallelBatchReader::get_next_example).
THEOREM ReaderEndsComplete == ReaderSpec => []EndedMeansComplete
<1>1. ReaderInv => EndedMeansComplete
  <2> SUFFICES ASSUME ReaderInv, status = "ended"
               PROVE  /\ FlattenSeq(batches) = Examples(streams)
                      /\ Len(FlattenSeq(batches)) = Len(streams[1])
    BY DEF EndedMeansComplete
  <2>1. /\ LastLine \in Nat /\ next - 1 = LastLine /\ LastLine = Len(streams[1])
        /\ Examples(streams) \in Seq(ExampleSet) /\ Len(Examples(streams)) = LastLine
    BY InputType DEF ReaderInv
  <2>2. SubSeq(Examples(streams), 1, LastLine) = Examples(streams)
    BY <2>1
  <2> QED BY <2>1, <2>2 DEF ReaderInv
<1> QED BY <1>1, ReaderInvariant, PTL

-----------------------------------------------------------------------------
(* The sizes of the batches.                                               *)

\* Every batch but the last is full, and the last one is if an example is in _next.
BatchesFit ==
  /\ call.max \in Nat
  /\ \A b \in 1..Len(batches) :
       /\ Len(batches[b]) \in Nat \ {0}
       /\ Len(batches[b]) = 1 \/ Volume(batches[b], call) <= call.max
       /\ b < Len(batches) => Volume(batches[b] \o <<batches[b + 1][1]>>, call) > call.max
       /\ b = Len(batches) /\ next <= LastLine =>
            Volume(batches[b] \o <<Examples(streams)[next]>>, call) > call.max

\* get_next takes as many examples as fit, from the one in _next on.
LEMMA FillFits ==
  ASSUME ReaderInv, BatchesFit, Fill
  PROVE  BatchesFit'
<1> DEFINE all == Examples(streams)
           rest == SubSeq(all, next, LastLine)
           count == BatchLength(rest, call.max, call.type, call.padding)
           read == SubSeq(rest, 1, count)
<1>1. /\ UNCHANGED <<streams, call>> /\ next <= LastLine
      /\ batches' = Append(batches, read) /\ next' = next + count
  BY DEF Fill
<1>2. /\ LastLine \in Nat /\ next \in 1..LastLine /\ all \in Seq(ExampleSet) /\ Len(all) = LastLine
      /\ call.max \in Nat
  BY <1>1, InputType DEF ReaderInv, BatchesFit
<1>3. /\ count \in 1..(LastLine + 1 - next) /\ read \in Seq(ExampleSet) /\ Len(read) = count
      /\ \A i \in 1..count : read[i] = all[next + i - 1]
  BY <1>2, ChunkType DEF ReaderInv
<1>4. /\ LastLine' = LastLine /\ Examples(streams)' = all
  BY <1>1 DEF LastLine
<1>5. \A line \in 1..LastLine : Length(all[line]) \in Nat
  BY InputLengths DEF ReaderInv
<1>6. count = BatchLength(rest, call.max, call.type, call.padding)
  OBVIOUS
<1> HIDE DEF read, count, all
<1>7. /\ rest \in Seq(ExampleSet) /\ Len(rest) = LastLine + 1 - next /\ Len(rest) \in Nat \ {0}
      /\ \A i \in 1..Len(rest) : rest[i] = all[next + i - 1]
  BY <1>2
<1>8. \A i \in 1..Len(rest) : Increment(rest[i], call.type) \in Nat
  <2> SUFFICES ASSUME NEW i \in 1..Len(rest) PROVE Increment(rest[i], call.type) \in Nat
    OBVIOUS
  <2>1. next + i - 1 \in 1..LastLine /\ rest[i] = all[next + i - 1]
    BY <1>2, <1>7
  <2>2. Length(rest[i]) \in Nat
    BY <1>5, <2>1
  <2> QED BY <2>2 DEF Increment
<1> HIDE DEF rest
<1>9. /\ count = 1 \/ NewBatchSize(rest, count, call.type, call.padding) <= call.max
      /\ count < Len(rest) => NewBatchSize(rest, count + 1, call.type, call.padding) > call.max
  BY <1>2, <1>6, <1>7, <1>8, BatchLengthFits
<1>10. count = 1 \/ Volume(read, call) <= call.max
  <2>1. DOMAIN read = 1..count /\ count \in Nat \ {0}
    BY <1>3
  <2>2. \A i \in 1..count : read[i] = rest[i]
    BY <1>3, <1>7
  <2>3. Volume(read, call) = NewBatchSize(rest, count, call.type, call.padding)
    BY <1>3, <2>1, <2>2, VolumeIs
  <2> QED BY <1>9, <2>3
<1>11. ASSUME next' <= LastLine
       PROVE  Volume(read \o <<all[next']>>, call) > call.max
  <2> DEFINE x == all[next']
             more == read \o <<x>>
  <2>1. x \in ExampleSet /\ count \in Nat /\ count + 1 \in 1..Len(rest) /\ rest[count + 1] = x
    <3>1. next' \in 1..LastLine /\ count \in Nat /\ count + 1 \in 1..Len(rest)
          /\ next + (count + 1) - 1 = next'
      BY <1>1, <1>2, <1>3, <1>7, <1>11
    <3>2. rest[count + 1] = all[next + (count + 1) - 1]
      BY <1>7, <3>1
    <3>3. all[next'] \in ExampleSet
      BY <1>2, <3>1
    <3> QED BY <3>1, <3>2, <3>3
  <2> HIDE DEF x
  <2>2. /\ <<x>> \in Seq(ExampleSet) /\ Len(<<x>>) = 1 /\ <<x>>[1] = x
    BY <2>1
  <2>3. /\ more \in Seq(ExampleSet) /\ Len(more) = count + 1
        /\ \A i \in 1..(count + 1) : more[i] = IF i <= count THEN read[i] ELSE <<x>>[i - count]
    BY <1>3, <2>2, ConcatProperties
  <2> HIDE DEF more
  <2>4. \A i \in 1..(count + 1) : more[i] = rest[i]
    <3> SUFFICES ASSUME NEW i \in 1..(count + 1) PROVE more[i] = rest[i]
      OBVIOUS
    <3>1. CASE i <= count
      <4>1. i \in 1..count /\ i \in 1..Len(rest)
        BY <2>1, <3>1
      <4> QED BY <1>3, <1>7, <2>3, <3>1, <4>1
    <3>2. CASE i = count + 1
      <4>1. ~(i <= count) /\ i - count = 1
        BY <2>1, <3>2
      <4> QED BY <2>1, <2>2, <2>3, <3>2, <4>1
    <3> QED BY <2>1, <3>1, <3>2
  <2>5. DOMAIN more = 1..(count + 1) /\ count + 1 \in Nat \ {0}
    BY <2>1, <2>3
  <2>6. Volume(more, call) = NewBatchSize(rest, count + 1, call.type, call.padding)
    BY <2>3, <2>4, <2>5, VolumeIs
  <2>7. count < Len(rest)
    BY <1>7, <2>1
  <2> QED BY <1>9, <2>6, <2>7 DEF more, x
<1>12. /\ Len(batches) \in Nat /\ Len(batches') = Len(batches) + 1
       /\ \A b \in 1..Len(batches) : batches'[b] = batches[b]
       /\ batches'[Len(batches) + 1] = read
  <2> DEFINE T == Seq(ExampleSet)
  <2>1. batches \in Seq(T) /\ read \in T
    BY <1>3 DEF ReaderInv
  <2> HIDE DEF T
  <2> QED BY <1>1, <2>1
<1>13. read[1] = all[next] /\ Len(read) \in Nat \ {0}
  BY <1>2, <1>3
<1>14. ASSUME NEW b \in 1..Len(batches')
       PROVE  /\ Len(batches'[b]) \in Nat \ {0}
              /\ Len(batches'[b]) = 1 \/ Volume(batches'[b], call) <= call.max
              /\ b < Len(batches') => Volume(batches'[b] \o <<batches'[b + 1][1]>>, call) > call.max
              /\ b = Len(batches') /\ next' <= LastLine =>
                   Volume(batches'[b] \o <<all[next']>>, call) > call.max
  <2>1. CASE b = Len(batches')
    BY <1>3, <1>10, <1>11, <1>12, <1>13, <2>1
  <2>2. CASE b < Len(batches)
    <3>1. b \in 1..Len(batches) /\ b + 1 \in 1..Len(batches) /\ b # Len(batches')
      BY <1>12, <2>2
    <3>2. batches'[b] = batches[b] /\ batches'[b + 1] = batches[b + 1]
      BY <1>12, <3>1
    <3> QED BY <2>2, <3>1, <3>2 DEF BatchesFit
  <2>3. CASE b = Len(batches)
    <3>1. b \in 1..Len(batches) /\ b # Len(batches')
      BY <1>12, <1>14, <2>3
    <3>2. batches'[b] = batches[b] /\ batches'[b + 1][1] = all[next]
      BY <1>12, <1>13, <2>3, <3>1
    <3> QED BY <1>1, <2>3, <3>1, <3>2 DEF BatchesFit, all
  <2> QED BY <1>12, <2>1, <2>2, <2>3
<1>15. call' = call /\ next' = next + count
  BY <1>1
<1> QED BY <1>2, <1>4, <1>14, <1>15 DEF BatchesFit

\* However the examples are counted, no batch is larger than asked for, and none
\* is cut short while the next example fits (the break conditions of
\* fill_batch_with_fixed_increment and fill_batch_with_variable_increment).
THEOREM BatchesAreFull == ReaderSpec => []BatchesFull
<1>1. ReaderInit => BatchesFit
  <2> SUFFICES ASSUME ReaderInit PROVE BatchesFit
    OBVIOUS
  <2>1. call.max \in Nat /\ batches = <<>>
    BY ReaderAssumption DEF ReaderInit
  <2>2. 1..Len(batches) = {}
    BY <2>1
  <2> QED BY <2>1, <2>2 DEF BatchesFit
<1>2. ReaderInv /\ BatchesFit /\ [ReaderNext]_readerVars => BatchesFit'
  <2> SUFFICES ASSUME ReaderInv, BatchesFit, [ReaderNext]_readerVars PROVE BatchesFit'
    OBVIOUS
  <2>1. CASE Fill
    BY <2>1, FillFits
  <2>2. CASE UNCHANGED <<streams, call, next, batches>>
    <3>1. LastLine' = LastLine /\ Examples(streams)' = Examples(streams)
      BY <2>2, ReaderFrame
    <3> QED BY <2>2, <3>1 DEF BatchesFit
  <2> QED BY <2>1, <2>2 DEF ReaderNext, readerVars, FillThrows, FirstThrows, End
<1>3. ReaderInv /\ BatchesFit => BatchesFull
  <2> SUFFICES ASSUME ReaderInv, BatchesFit, NEW b \in DOMAIN batches
               PROVE  /\ Len(batches[b]) = 1 \/ Volume(batches[b], call) <= call.max
                      /\ b < Len(batches) =>
                           Volume(batches[b] \o <<batches[b + 1][1]>>, call) > call.max
    BY DEF BatchesFull
  <2>1. b \in 1..Len(batches)
    BY DEF ReaderInv
  <2> QED BY <2>1 DEF BatchesFit
<1> QED BY <1>1, <1>2, <1>3, ReaderInvariant, PTL DEF ReaderSpec
=============================================================================
