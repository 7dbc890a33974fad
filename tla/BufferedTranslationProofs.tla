---------------------- MODULE BufferedTranslationProofs ----------------------
(***************************************************************************)
(* Theorems about BufferedTranslation, for any clients, requests, workers, *)
(* batch and buffer sizes.                                                 *)
(***************************************************************************)
EXTENDS BufferedTranslation, BatchingProofs

\* A batch whose k-th promise belongs to its k-th example.
Paired == {[examples |-> f, promises |-> f] : f \in Seq(Requests)}

\* In the model this holds even after undefined behaviour.
OwnAnswers == \A r \in Requests : answer[r] \in {Unset, Exception, r}

\* The inductive invariant: the two queues of the buffer hold the same requests,
\* and so do the two vectors of every batch, flushed or posted; the pool knows
\* posted batches only; nobody is answered for another.
BufferInv ==
  /\ TypeOK
  /\ promises = examples
  /\ chunk \in Seq(Paired) /\ posted \in Seq(Paired)
  /\ buffer \in Seq(DOMAIN posted)
  /\ running \in [Workers -> DOMAIN posted \cup {NoJob}]
  /\ OwnAnswers
  /\ NoLostFlush

-----------------------------------------------------------------------------
\* However the sort reorders the flushed examples, each batch gets the promises
\* of its own examples (rebatch_input, post_examples).
LEMMA FilledPaired ==
  ASSUME NEW flushed \in Seq(Requests), NEW batches \in Rebatched(Len(flushed))
  PROVE  [b \in DOMAIN batches |-> Filled(batches[b], flushed, flushed)] \in Seq(Paired)
<1> DEFINE n == Len(flushed)
           lines == [i \in 1..n |-> [line |-> i, lengths |-> <<1>>]]
<1>1. lines \in Seq({[line |-> i, lengths |-> <<1>>] : i \in 1..n})
      /\ Len(lines) = n /\ n \in Nat /\ DOMAIN lines = 1..n
  OBVIOUS
<1>2. PICK order \in SortedOrders(lines) :
        batches = Rebatch(lines, order, MaxBatchSize, "examples")
  BY DEF Rebatched
<1>3. /\ DOMAIN batches = 1..Len(batches) /\ Len(batches) \in Nat
      /\ \A b \in DOMAIN batches :
           /\ batches[b].example_index \in Seq(1..n)
           /\ DOMAIN batches[b].examples = DOMAIN batches[b].example_index
           /\ \A k \in DOMAIN batches[b].example_index :
                /\ batches[b].example_index[k] \in 1..n
                /\ batches[b].examples[k] = lines[batches[b].example_index[k]]
  <2> HIDE DEF lines, n
  <2> QED BY <1>1, <1>2, BatchesCarryTheirIndex
<1>4. ASSUME NEW b \in DOMAIN batches
      PROVE  Filled(batches[b], flushed, flushed) \in Paired
  <2> DEFINE index == batches[b].example_index
             own == [k \in DOMAIN index |-> flushed[index[k]]]
  <2>1. ASSUME NEW k \in DOMAIN index
        PROVE  index[k] \in 1..n /\ batches[b].examples[k].line = index[k]
    <3>1. index[k] \in 1..n /\ batches[b].examples[k] = lines[index[k]]
      <4> HIDE DEF lines
      <4> QED BY <1>3
    <3>2. \A i \in 1..n : lines[i].line = i
      OBVIOUS
    <3> HIDE DEF lines, index
    <3> QED BY <3>1, <3>2
  <2>2. own \in Seq(Requests)
    <3>1. index \in Seq(1..n) /\ DOMAIN index = 1..Len(index)
      <4> HIDE DEF lines
      <4> QED BY <1>3
    <3> HIDE DEF index
    <3>2. \A k \in 1..Len(index) : flushed[index[k]] \in Requests
      BY <2>1, <3>1
    <3> QED BY <3>1, <3>2
  <2>3. Filled(batches[b], flushed, flushed) = [examples |-> own, promises |-> own]
    BY <1>3, <2>1 DEF Filled
  <2> QED BY <2>2, <2>3 DEF Paired
<1> QED BY <1>3, <1>4

\* buffer_loop flushes no more than there is.
LEMMA FlushSizeRange ==
  ASSUME NEW n \in Nat
  PROVE  FlushSize(n) \in 0..n
BY BufferAssumption DEF FlushSize

\* The constructor leaves two empty queues and an empty pool.
LEMMA Initially == Init => BufferInv
<1> SUFFICES ASSUME Init PROVE BufferInv
  OBVIOUS
<1>1. TypeOK /\ OwnAnswers /\ NoLostFlush
  <2>1. examples = <<>> /\ promises = <<>> /\ answer = [r \in Requests |-> Unset]
        /\ loop = "check"
    BY DEF Init
  <2>2. answer \in [Requests -> Requests \cup {Unset, Exception}]
    BY <2>1
  <2>3. stop \in BOOLEAN /\ stopping \in BOOLEAN
    BY Zenon DEF Init
  <2>4. client \in [Clients -> {"idle", "notify"}] /\ owner = "using"
    BY DEF Init
  <2>5. optioned = {} /\ fault \in BOOLEAN
    BY Zenon DEF Init
  <2>6. TypeOK
    BY <2>1, <2>2, <2>3, <2>4, <2>5 DEF TypeOK
  <2> QED BY <2>1, <2>6 DEF OwnAnswers, NoLostFlush
<1>2. chunk \in Seq(Paired) /\ posted \in Seq(Paired) /\ promises = examples
  BY DEF Init
<1>3. buffer \in Seq(DOMAIN posted) /\ running \in [Workers -> DOMAIN posted \cup {NoJob}]
  BY DEF Init, Pool!Init
<1> QED BY <1>1, <1>2, <1>3 DEF BufferInv

-----------------------------------------------------------------------------
\* translate_async adds to both queues, and notifies once the buffer is full.
LEMMA AddKeeps ==
  ASSUME BufferInv, NEW c \in Clients, Add(c)
  PROVE  BufferInv'
<1>1. PICK r \in Requests : examples' = Append(examples, r) /\ promises' = Append(promises, r)
  BY DEF Add
<1>2. /\ examples' \in Seq(Requests) /\ promises' = examples'
      /\ client' \in [Clients -> {"idle", "notify"}]
  BY <1>1 DEF Add, BufferInv, TypeOK
<1>3. NoLostFlush'
  <2>1. Len(examples') >= BufferSize => client'[c] = "notify"
    BY DEF Add, BufferInv, TypeOK
  <2>2. Len(examples) >= BufferSize => Len(examples') >= BufferSize
    BY <1>1, BufferAssumption DEF BufferInv, TypeOK, BufferSize
  <2> QED BY <2>1, <2>2 DEF Add, BufferInv, NoLostFlush
<1> QED BY <1>2, <1>3 DEF Add, BufferInv, TypeOK, OwnAnswers, optionVars, poolVars

\* A notification that finds nobody asleep changes nothing else.
LEMMA NotifyKeeps ==
  ASSUME BufferInv, NEW c \in Clients, Notify(c)
  PROVE  BufferInv'
BY DEF Notify, Wake, BufferInv, TypeOK, OwnAnswers, NoLostFlush, optionVars, poolVars

\* Steps of the background thread that only move it.
LEMMA LoopMovesKeep ==
  ASSUME BufferInv, Sleep \/ SpuriousWakeup \/ Timeout \/ Repeat
  PROVE  BufferInv'
<1>1. CASE Sleep
  BY <1>1 DEF Sleep, Ready, BufferInv, TypeOK, OwnAnswers, NoLostFlush, optionVars, poolVars
<1>2. CASE SpuriousWakeup
  BY <1>2 DEF SpuriousWakeup, BufferInv, TypeOK, OwnAnswers, NoLostFlush, optionVars, poolVars
<1>3. CASE Timeout
  BY <1>3 DEF Timeout, BufferInv, TypeOK, OwnAnswers, NoLostFlush, optionVars, poolVars
<1>4. CASE Repeat
  BY <1>4 DEF Repeat, BufferInv, TypeOK, OwnAnswers, NoLostFlush, optionVars, poolVars
<1> QED BY <1>1, <1>2, <1>3, <1>4

\* The loop takes as many promises as examples out of the buffer.
LEMMA FlushKeeps ==
  ASSUME BufferInv, Flush
  PROVE  BufferInv'
<1> DEFINE size == FlushSize(Len(examples))
           flushed == SubSeq(examples, 1, size)
<1>1. examples \in Seq(Requests) /\ promises = examples /\ size \in 0..Len(examples)
  BY FlushSizeRange DEF BufferInv, TypeOK
<1>2. flushed \in Seq(Requests) /\ Len(flushed) = size /\ FlushedPromises(size) = flushed
  <2> HIDE DEF size
  <2> QED BY <1>1 DEF FlushedPromises
<1>3. chunk' \in Seq(Paired)
  <2>1. PICK batches \in Rebatched(size) :
          chunk' = [b \in DOMAIN batches |->
                      Filled(batches[b], flushed, FlushedPromises(size))]
    BY DEF Flush
  <2> HIDE DEF size, flushed
  <2> QED BY <1>2, <2>1, FilledPaired
<1>4. examples' \in Seq(Requests) /\ promises' = examples'
  <2>1. examples' = SubSeq(examples, size + 1, Len(examples))
        /\ promises' = SubSeq(promises, Len(FlushedPromises(size)) + 1, Len(promises))
    BY DEF Flush
  <2> HIDE DEF size, flushed
  <2> QED BY <1>1, <1>2, <2>1
<1> QED BY <1>3, <1>4 DEF Flush, BufferInv, TypeOK, OwnAnswers, NoLostFlush, optionVars, poolVars

\* A posted batch takes the next number of a job.
LEMMA PostBatchKeeps ==
  ASSUME BufferInv, PostBatch
  PROVE  BufferInv'
<1>1. Head(chunk) \in Paired /\ Tail(chunk) \in Seq(Paired)
  BY DEF PostBatch, BufferInv
<1>2. posted' \in Seq(Paired) /\ DOMAIN posted' = 1..(Len(posted) + 1)
      /\ DOMAIN posted = 1..Len(posted) /\ Len(posted) \in Nat
  BY <1>1 DEF PostBatch, BufferInv
<1>3. buffer' \in Seq(DOMAIN posted')
  BY <1>2 DEF PostBatch, BufferInv, Pool!Accept
<1>4. running' \in [Workers -> DOMAIN posted' \cup {NoJob}]
  BY <1>2 DEF PostBatch, BufferInv, Pool!Accept
<1> QED BY <1>1, <1>2, <1>3, <1>4 DEF PostBatch, BufferInv, TypeOK, OwnAnswers, NoLostFlush, optionVars

\* A worker takes a posted batch.
LEMMA RunBatchKeeps ==
  ASSUME BufferInv, NEW w \in Workers, RunBatch(w)
  PROVE  BufferInv'
<1>1. buffer' \in Seq(DOMAIN posted) /\ running' \in [Workers -> DOMAIN posted \cup {NoJob}]
  BY DEF RunBatch, BufferInv, Pool!Start
<1> QED BY <1>1 DEF RunBatch, BufferInv, TypeOK, OwnAnswers, NoLostFlush, optionVars

\* A batch copies the options.
LEMMA CopyOptionsKeeps ==
  ASSUME BufferInv, NEW w \in Workers, CopyOptions(w)
  PROVE  BufferInv'
BY DEF CopyOptions, BufferInv, TypeOK, OwnAnswers, NoLostFlush, poolVars

\* The promises of a batch are set to its results, or all to the exception.
LEMMA SetPromisesKeeps ==
  ASSUME BufferInv, NEW w \in Workers, SetPromises(w)
  PROVE  BufferInv'
<1> DEFINE job == posted[running[w]]
<1>1. PICK f \in Seq(Requests) : job = [examples |-> f, promises |-> f]
  BY DEF SetPromises, BufferInv, Paired, Pool!Finish
<1>2. PICK failed \in {FALSE, BatchMayFail} :
        answer' = [r \in Requests |->
                     IF r \in ToSet(job.promises)
                     THEN LET k == CHOOSE k \in DOMAIN job.promises : job.promises[k] = r
                          IN IF failed THEN Exception ELSE job.examples[k]
                     ELSE answer[r]]
  BY DEF SetPromises
<1>3. ASSUME NEW r \in Requests
      PROVE  answer'[r] \in {Unset, Exception, r}
  <2>1. CASE r \in ToSet(f)
    <3>1. \E k \in DOMAIN f : f[k] = r
      BY <2>1 DEF ToSet
    <3>2. f[CHOOSE k \in DOMAIN f : f[k] = r] = r
      BY <3>1
    <3> QED BY <1>1, <1>2, <2>1, <3>2
  <2>2. CASE r \notin ToSet(f)
    BY <1>1, <1>2, <2>2 DEF BufferInv, OwnAnswers
  <2> QED BY <2>1, <2>2
<1>4. answer' \in [Requests -> Requests \cup {Unset, Exception}]
  BY <1>2, <1>3
<1>5. buffer' = buffer /\ running' \in [Workers -> DOMAIN posted \cup {NoJob}]
  BY DEF SetPromises, BufferInv, Pool!Finish
<1> QED BY <1>3, <1>4, <1>5 DEF SetPromises, BufferInv, TypeOK, OwnAnswers, NoLostFlush

\* The destructor notifies after it has set the flag.
LEMMA DestructorKeeps ==
  ASSUME BufferInv, Stop \/ DestructorStep
  PROVE  BufferInv'
<1>1. CASE Stop
  BY <1>1 DEF Stop, BufferInv, TypeOK, OwnAnswers, NoLostFlush, optionVars, poolVars
<1>2. CASE NotifyStop
  BY <1>2 DEF NotifyStop, Wake, BufferInv, TypeOK, OwnAnswers, NoLostFlush, optionVars, poolVars
<1>3. CASE Join
  BY <1>3 DEF Join, BufferInv, TypeOK, OwnAnswers, NoLostFlush, optionVars, poolVars
<1> QED BY <1>1, <1>2, <1>3 DEF DestructorStep

\* Nothing changes in a step that changes nothing.
LEMMA StutterKeeps == BufferInv /\ UNCHANGED vars => BufferInv'
BY DEF vars, optionVars, poolVars, BufferInv, TypeOK, OwnAnswers, NoLostFlush

-----------------------------------------------------------------------------
\* The inductive invariant holds in every state (buffered_translation_wrapper.cc).
THEOREM BufferCorrect == Spec => []BufferInv
<1>1. BufferInv /\ [Next]_vars => BufferInv'
  <2> SUFFICES ASSUME BufferInv, [Next]_vars PROVE BufferInv'
    OBVIOUS
  <2>1. CASE UNCHANGED vars
    BY <2>1, StutterKeeps
  <2>2. ASSUME NEW c \in Clients, Add(c) \/ Notify(c) PROVE BufferInv'
    BY <2>2, AddKeeps, NotifyKeeps
  <2>3. CASE LoopStep \/ Timeout \/ SpuriousWakeup
    BY <2>3, LoopMovesKeep, FlushKeeps, PostBatchKeeps DEF LoopStep
  <2>4. ASSUME NEW w \in Workers, WorkerStep(w) PROVE BufferInv'
    BY <2>4, RunBatchKeeps, CopyOptionsKeeps, SetPromisesKeeps DEF WorkerStep
  <2>5. CASE Stop \/ DestructorStep
    BY <2>5, DestructorKeeps
  <2> QED BY <2>1, <2>2, <2>3, <2>4, <2>5 DEF Next
<1> QED BY <1>1, Initially, PTL DEF Spec

\* A future never gets the translation of another request, for any number of
\* clients and workers, any sort and any sizes (buffer_loop, post_examples), as long as
\* no batch has read the options of a destroyed wrapper.
THEOREM EveryFutureItsOwn == Spec => []OwnResult
<1>1. BufferInv => OwnResult
  BY DEF BufferInv, OwnAnswers, OwnResult
<1> QED BY <1>1, BufferCorrect, PTL

\* The background thread never sleeps over a full buffer or the end request
\* (translate_async and the destructor notify after the unlock).
THEOREM NoFlushMissed == Spec => []NoLostFlush
<1>1. BufferInv => NoLostFlush
  BY DEF BufferInv
<1> QED BY <1>1, BufferCorrect, PTL
=============================================================================
