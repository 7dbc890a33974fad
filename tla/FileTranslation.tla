-------------------------- MODULE FileTranslation --------------------------
(***************************************************************************)
(* Translating or scoring a file: ReplicaPool::consume_batches with        *)
(* post_examples (include/ctranslate2/replica_pool.h), which the text file *)
(* methods of Translator call through consume_stream.                      *)
(*                                                                         *)
(* The calling thread reads a chunk of lines, sorts and cuts it into       *)
(* batches, posts these to the thread pool and writes the results that are *)
(* there, in the order of the input. It composes BatchReader, Batching and *)
(* JobPool. A line stands for itself, its promise and its translation.     *)
(***************************************************************************)
EXTENDS BatchReader, Integers

CONSTANTS MaxBatchSize,   \* max_batch_size
          ReadSizes,      \* values of read_batch_size
          Workers, Jobs, MaxQueue, NoJob,
          BatchMayFail    \* whether running a batch may throw

ASSUME FileAssumption ==
  /\ NoJob \notin Nat
  /\ MaxBatchSize \in Nat \ {0}
  /\ ReadSizes \subseteq Nat
  /\ BatchMayFail \in BOOLEAN

\* With read_batch_size 0, consume_batches reads several batches at once.
ReadBatchSize(size) ==
  IF size # 0 THEN size
  ELSE IF MaxBatchSize = 1 THEN MaxBatchSize ELSE MaxBatchSize * 16

\* How consume_batches calls get_next.
FileCalls ==
  [max : {ReadBatchSize(size) : size \in ReadSizes}, type : BatchTypes, padding : {FALSE}]

ASSUME CallsAssumption == Calls = FileCalls

VARIABLES buffer, running, finished, phase,      \* as in JobPool
          chunk,    \* the batches of the last chunk that are to be posted
          posted,   \* history: the batches posted; job j is the j-th of them
          result,   \* what the batch run by each worker gave
          answer,   \* what the promise of each line was set to
          pending,  \* the queue "results" of futures, as line numbers
          output,   \* the lines written, as the translated line numbers
          pc        \* where the calling thread is

poolVars == <<buffer, running, finished, phase>>
workerVars == <<result, answer>>
callerVars == <<chunk, posted, pending, output, pc>>
vars == <<readerVars, poolVars, workerVars, callerVars>>

Pool == INSTANCE JobPool

Lines == DOMAIN streams[1]

\* What a promise may hold instead of the line whose translation it got.
Unset == 0
Exception == -1

Init ==
  /\ ReaderInit
  /\ Pool!Init
  /\ chunk = <<>> /\ posted = <<>>
  /\ result = [w \in Workers |-> "none"]
  /\ answer = [line \in Lines |-> Unset]
  /\ pending = <<>> /\ output = <<>>
  /\ pc = "read"

-----------------------------------------------------------------------------
(* Faulty variants of actions below, for mutation testing.                 *)

\* A result that is an exception is dropped.
PopDropsError ==
  /\ pc \in {"pop", "drain"}
  /\ pending # <<>> /\ answer[Head(pending)] # Unset
  /\ pending' = Tail(pending)
  /\ output' = IF answer[Head(pending)] = Exception THEN output
               ELSE Append(output, answer[Head(pending)])
  /\ UNCHANGED <<readerVars, poolVars, workerVars, chunk, posted, pc>>

\* The results that are ready are written, the others only when the input is
\* read: the front of the queue is not waited for.
PopAnyReady ==
  /\ pc \in {"pop", "drain"}
  /\ \E i \in DOMAIN pending :
       /\ answer[pending[i]] # Unset
       /\ IF answer[pending[i]] = Exception
          THEN pc' = "failed" /\ UNCHANGED <<pending, output>>
          ELSE /\ output' = Append(output, answer[pending[i]])
               /\ pending' = RemoveAt(pending, i)
               /\ UNCHANGED pc
  /\ UNCHANGED <<readerVars, poolVars, workerVars, chunk, posted>>

\* The exception of a batch is lost: its promises are never set.
SetPromiseUnlessError(w) ==
  /\ running[w] # NoJob
  /\ result[w] = "error"
  /\ Pool!Finish(w)
  /\ UNCHANGED <<readerVars, workerVars, callerVars>>

-----------------------------------------------------------------------------
(* The thread that calls consume_batches.                                  *)

\* batch_reader.get_next, then rebatch_input in post_examples.
ReadChunk ==
  /\ pc = "read"
  /\ Fill
  /\ LET examples == Last(batches') IN
     \E order \in SortedOrders(examples) :
       chunk' = Rebatch(examples, order, MaxBatchSize, call.type)
  /\ pc' = "post"
  /\ UNCHANGED <<poolVars, workerVars, posted, pending, output>>

ReadThrows ==
  /\ pc = "read"
  /\ FillThrows \/ FirstThrows
  /\ pc' = "failed"
  /\ UNCHANGED <<poolVars, workerVars, chunk, posted, pending, output>>

ReadEnd ==
  /\ pc = "read"
  /\ End
  /\ pc' = "drain"
  /\ UNCHANGED <<poolVars, workerVars, chunk, posted, pending, output>>

\* post_examples moves the promise at each example_index into the batch; its
\* k-th promise gets the result of its k-th example.
PostBatch ==
  /\ pc = "post" /\ chunk # <<>>
  /\ Pool!Accept(Len(posted) + 1)
  /\ LET first == next - Len(Last(batches)) IN
     posted' = Append(posted,
       [examples |-> Head(chunk).examples,
        promises |-> [k \in DOMAIN Head(chunk).example_index |->
                        first + Head(chunk).example_index[k] - 1]])
  /\ chunk' = Tail(chunk)
  /\ UNCHANGED <<readerVars, workerVars, pending, output, pc>>

\* The futures of the chunk are queued once all its batches are posted.
QueueFutures ==
  /\ pc = "post" /\ chunk = <<>>
  /\ pending' = pending \o [i \in DOMAIN Last(batches) |->
                              next - Len(Last(batches)) + i - 1]
  /\ pc' = "pop"
  /\ UNCHANGED <<readerVars, poolVars, workerVars, chunk, posted, output>>

\* pop_results: the front is written, or its exception ends the call.
PopResult ==
  /\ pc \in {"pop", "drain"}
  /\ pending # <<>> /\ answer[Head(pending)] # Unset
  /\ IF answer[Head(pending)] = Exception
     THEN pc' = "failed" /\ UNCHANGED <<pending, output>>
     ELSE /\ output' = Append(output, answer[Head(pending)])
          /\ pending' = Tail(pending)
          /\ UNCHANGED pc
  /\ UNCHANGED <<readerVars, poolVars, workerVars, chunk, posted>>

\* Without "blocking" it stops at the first result that is not there.
StopPopping ==
  /\ pc = "pop"
  /\ pending # <<>> => answer[Head(pending)] = Unset
  /\ pc' = "read"
  /\ UNCHANGED <<readerVars, poolVars, workerVars, chunk, posted, pending, output>>

Return ==
  /\ pc = "drain" /\ pending = <<>>
  /\ pc' = "done"
  /\ UNCHANGED <<readerVars, poolVars, workerVars, chunk, posted, pending, output>>

-----------------------------------------------------------------------------
(* BatchJob::run on a worker thread.                                       *)

RunBatch(w) ==
  /\ Pool!Start(w)
  /\ \E r \in {"value", "error"} :
       /\ r = "error" => BatchMayFail
       /\ result' = [result EXCEPT ![w] = r]
  /\ UNCHANGED <<readerVars, answer, callerVars>>

\* The promises are set one after the other, all to the exception if there is
\* one; the calling thread may read the first before the last is set.
SetPromise(w) ==
  /\ running[w] # NoJob
  /\ LET job == posted[running[w]]
         unset == {k \in DOMAIN job.promises : answer[job.promises[k]] = Unset}
         k == Min(unset)
     IN /\ answer' = [answer EXCEPT ![job.promises[k]] =
                        IF result[w] = "error" THEN Exception ELSE job.examples[k].line]
        /\ IF Cardinality(unset) = 1
           THEN Pool!Finish(w)
           ELSE UNCHANGED poolVars
  /\ UNCHANGED <<readerVars, result, callerVars>>

-----------------------------------------------------------------------------
CallerStep ==
  \/ ReadChunk \/ ReadThrows \/ ReadEnd
  \/ PostBatch \/ QueueFutures
  \/ PopResult \/ StopPopping \/ Return

WorkerStep(w) == RunBatch(w) \/ SetPromise(w)

Next == CallerStep \/ \E w \in Workers : WorkerStep(w)

Spec ==
  /\ Init /\ [][Next]_vars
  /\ WF_vars(CallerStep)
  /\ \A w \in Workers : WF_vars(WorkerStep(w))

-----------------------------------------------------------------------------
\* Line n of the output is the translation of line n of the input at every
\* moment, although batches are sorted by length and finish in any order
\* (example_index in post_examples, pop_results).
OutputInOrder == \A n \in DOMAIN output : output[n] = n

\* When the call returns without an exception, every line of the source was
\* translated and written (consume_batches, pop_results).
DoneMeansComplete == pc = "done" => Len(output) = Len(streams[1])

\* The call returns or throws: waiting for a slot of the queue and for the
\* front of the results never waits for itself. Every batch it posted is run,
\* also when the call has thrown.
CallReturns ==
  /\ <>(pc \in {"done", "failed"})
  /\ \A j \in Jobs : (Len(posted) >= j) ~> (j \in finished)
=============================================================================
