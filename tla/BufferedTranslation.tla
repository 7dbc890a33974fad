------------------------ MODULE BufferedTranslation ------------------------
(***************************************************************************)
(* BufferedTranslationWrapper (src/buffered_translation_wrapper.cc): client*)
(* threads add single requests to a buffer, a background thread flushes it *)
(* into batches when it is full or after a timeout, and the destructor     *)
(* flushes what is left. It composes Batching (rebatch_input) and JobPool. *)
(*                                                                         *)
(* Requests are numbered in the order the mutex admits them. A request     *)
(* stands for its example, its promise and its translation.                *)
(***************************************************************************)
EXTENDS Batching, Integers

CONSTANTS Clients,         \* threads that call translate_async
          Requests,        \* 1..n, the requests of a behaviour; bounds the model
          MaxBatchSize,    \* max_batch_size
          MaxBufferSize,   \* max_buffer_size; 0 stands for max_batch_size
          Workers, Jobs, MaxQueue, NoJob,
          BatchMayFail     \* whether running a batch may throw

ASSUME BufferAssumption ==
  /\ BatchMayFail \in BOOLEAN
  /\ MaxBatchSize \in Nat \ {0}
  /\ MaxBufferSize \in Nat

VARIABLES examples, promises,                \* the two queues of the buffer
          stop,                              \* _stop
          client,                            \* where each client is
          loop,                              \* where the background thread is
          stopping,                          \* its copy of the flag
          chunk,                             \* flushed batches to be posted
          posted,                            \* history: job j is posted[j]
          answer,                            \* what each promise was set to
          owner,                             \* progress of the destructor
          optioned,                          \* workers that have copied _options
          fault,                             \* _options was read after its end
          buffer, running, finished, phase   \* as in JobPool

poolVars == <<buffer, running, finished, phase>>
optionVars == <<optioned, fault>>
vars == <<examples, promises, stop, client, loop, stopping, chunk, posted,
          answer, owner, optionVars, poolVars>>

Pool == INSTANCE JobPool

\* What a promise may hold instead of the request whose translation it got.
Unset == 0
Exception == -1

BufferSize == IF MaxBufferSize = 0 THEN MaxBatchSize ELSE MaxBufferSize

\* How many requests were added: those in the buffer and those flushed.
Added == {r \in Requests : answer[r] # Unset} \cup ToSet(examples)
           \cup UNION {ToSet(posted[j].promises) : j \in DOMAIN posted}
           \cup UNION {ToSet(chunk[b].promises) : b \in DOMAIN chunk}

Init ==
  /\ examples = <<>> /\ promises = <<>>
  /\ stop = FALSE
  /\ client = [c \in Clients |-> "idle"]
  /\ loop = "check" /\ stopping = FALSE
  /\ chunk = <<>> /\ posted = <<>>
  /\ answer = [r \in Requests |-> Unset]
  /\ owner = "using"
  /\ optioned = {} /\ fault = FALSE
  /\ Pool!Init

\* The predicate of wait_for.
Ready == Len(examples) >= BufferSize \/ stop

-----------------------------------------------------------------------------
(* Faulty variants of definitions below, for mutation testing.             *)

\* The size of the buffer is compared before the request is added to it.
AddNotifiesLate(c) ==
  /\ client[c] = "idle" /\ owner = "using"
  /\ \E r \in Requests :
       /\ r = Cardinality(Added) + 1
       /\ examples' = Append(examples, r)
       /\ promises' = Append(promises, r)
  /\ client' = [client EXCEPT ![c] =
                  IF Len(examples) >= BufferSize THEN "notify" ELSE "idle"]
  /\ UNCHANGED <<stop, loop, stopping, chunk, posted, answer, owner, optionVars, poolVars>>

\* Only full batches are flushed.
FlushSizeRounded(n) == n - (n % MaxBatchSize)

\* A batch takes the promises in the order of the sorted examples.
FilledInOrder(batch, flushedExamples, flushedPromises) ==
  [examples |-> [k \in DOMAIN batch.examples |-> flushedExamples[batch.examples[k].line]],
   promises |-> [k \in DOMAIN batch.examples |-> flushedPromises[k]]]

\* The loop does not test the end request.
RepeatForever ==
  /\ loop = "post" /\ chunk = <<>>
  /\ loop' = "check"
  /\ UNCHANGED <<examples, promises, stop, client, stopping, chunk, posted,
                 answer, owner, optionVars, poolVars>>

-----------------------------------------------------------------------------
(* translate_async, in a client thread.                                    *)

Add(c) ==
  /\ client[c] = "idle" /\ owner = "using"
  /\ \E r \in Requests :
       /\ r = Cardinality(Added) + 1
       /\ examples' = Append(examples, r)
       /\ promises' = Append(promises, r)
  /\ client' = [client EXCEPT ![c] =
                  IF Len(examples') >= BufferSize THEN "notify" ELSE "idle"]
  /\ UNCHANGED <<stop, loop, stopping, chunk, posted, answer, owner, optionVars, poolVars>>

\* notify_one, after the mutex was released.
Wake == loop' = IF loop = "asleep" THEN "check" ELSE loop

Notify(c) ==
  /\ client[c] = "notify"
  /\ client' = [client EXCEPT ![c] = "idle"]
  /\ Wake
  /\ UNCHANGED <<examples, promises, stop, stopping, chunk, posted, answer,
                 owner, optionVars, poolVars>>

-----------------------------------------------------------------------------
(* buffer_loop, in the background thread.                                  *)

Sleep ==
  /\ loop = "check" /\ ~Ready
  /\ loop' = "asleep"
  /\ UNCHANGED <<examples, promises, stop, client, stopping, chunk, posted,
                 answer, owner, optionVars, poolVars>>

\* wait_for may wake for no reason and then tests its predicate again.
SpuriousWakeup ==
  /\ loop = "asleep"
  /\ loop' = "check"
  /\ UNCHANGED <<examples, promises, stop, client, stopping, chunk, posted,
                 answer, owner, optionVars, poolVars>>

\* The timeout is over; the mutex still has to be taken.
Timeout ==
  /\ loop = "asleep"
  /\ loop' = "timedOut"
  /\ UNCHANGED <<examples, promises, stop, client, stopping, chunk, posted,
                 answer, owner, optionVars, poolVars>>

\* How many of n buffered requests are flushed.
FlushSize(n) ==
  IF ~stop /\ n > MaxBatchSize THEN n - (n % MaxBatchSize) ELSE n

FlushedPromises(n) == SubSeq(promises, 1, n)

\* What rebatch_input makes of n examples, as positions in the flushed vectors.
\* Their lengths are arbitrary, so the sort may leave them in any order.
Rebatched(n) ==
  LET lines == [i \in 1..n |-> [line |-> i, lengths |-> <<1>>]] IN
  {Rebatch(lines, order, MaxBatchSize, "examples") : order \in SortedOrders(lines)}

\* post_examples moves the promise at each example_index into the batch.
Filled(batch, flushedExamples, flushedPromises) ==
  [examples |-> [k \in DOMAIN batch.examples |-> flushedExamples[batch.examples[k].line]],
   promises |-> [k \in DOMAIN batch.examples |-> flushedPromises[batch.example_index[k]]]]

\* The rest of the loop's critical section; post_examples follows unlocked.
Flush ==
  /\ (loop = "check" /\ Ready) \/ loop = "timedOut"
  /\ stopping' = stop
  /\ LET size == FlushSize(Len(examples)) IN
     /\ \E batches \in Rebatched(size) :
          chunk' = [b \in DOMAIN batches |->
                      Filled(batches[b], SubSeq(examples, 1, size), FlushedPromises(size))]
     /\ examples' = SubSeq(examples, size + 1, Len(examples))
     /\ promises' = SubSeq(promises, Len(FlushedPromises(size)) + 1, Len(promises))
  /\ loop' = "post"
  /\ UNCHANGED <<stop, client, posted, answer, owner, optionVars, poolVars>>

PostBatch ==
  /\ loop = "post" /\ chunk # <<>>
  /\ Pool!Accept(Len(posted) + 1)
  /\ posted' = Append(posted, Head(chunk))
  /\ chunk' = Tail(chunk)
  /\ UNCHANGED <<examples, promises, stop, client, loop, stopping, answer, owner, optionVars>>

\* The next iteration, or the end of the thread.
Repeat ==
  /\ loop = "post" /\ chunk = <<>>
  /\ loop' = IF stopping THEN "exited" ELSE "check"
  /\ UNCHANGED <<examples, promises, stop, client, stopping, chunk, posted,
                 answer, owner, optionVars, poolVars>>

-----------------------------------------------------------------------------
(* The worker threads. The promises of a batch are set one by one; nobody  *)
(* here tells the moments between from the last.                           *)

RunBatch(w) ==
  /\ Pool!Start(w)
  /\ UNCHANGED <<examples, promises, stop, client, loop, stopping, chunk, posted,
                 answer, owner, optionVars>>

\* The batch begins with a copy of _options, a member of the wrapper. When the wrapper
\* is destroyed that is undefined behaviour, also if the wrapper has the last
\* reference to the translator: it is the first member, which is destroyed last.
\* From there on nothing is claimed, whatever the threads do.
CopyOptions(w) ==
  /\ running[w] # NoJob /\ w \notin optioned
  /\ optioned' = optioned \cup {w}
  /\ fault' = (fault \/ owner = "destroyed")
  /\ UNCHANGED <<examples, promises, stop, client, loop, stopping, chunk, posted,
                 answer, owner, poolVars>>

SetPromises(w) ==
  /\ w \in optioned
  /\ \E failed \in {FALSE, BatchMayFail} :
       LET job == posted[running[w]]
           result(k) == IF failed THEN Exception ELSE job.examples[k]
       IN answer' = [r \in Requests |->
                       IF r \in ToSet(job.promises)
                       THEN result(CHOOSE k \in DOMAIN job.promises : job.promises[k] = r)
                       ELSE answer[r]]
  /\ Pool!Finish(w)
  /\ optioned' = optioned \ {w}
  /\ UNCHANGED <<examples, promises, stop, client, loop, stopping, chunk, posted, owner,
                 fault>>

-----------------------------------------------------------------------------
(* ~BufferedTranslationWrapper, with no client inside of translate_async.  *)
(* It waits for its thread, which hands over every request, but for no     *)
(* batch.                                                                  *)

Stop ==
  /\ owner = "using" /\ \A c \in Clients : client[c] = "idle"
  /\ stop' = TRUE
  /\ owner' = "notify"
  /\ UNCHANGED <<examples, promises, client, loop, stopping, chunk, posted, answer,
                 optionVars, poolVars>>

NotifyStop ==
  /\ owner = "notify"
  /\ Wake
  /\ owner' = "join"
  /\ UNCHANGED <<examples, promises, stop, client, stopping, chunk, posted, answer,
                 optionVars, poolVars>>

Join ==
  /\ owner = "join" /\ loop = "exited"
  /\ owner' = "destroyed"
  /\ UNCHANGED <<examples, promises, stop, client, loop, stopping, chunk, posted,
                 answer, optionVars, poolVars>>

-----------------------------------------------------------------------------
LoopStep == Sleep \/ Flush \/ PostBatch \/ Repeat
WorkerStep(w) == RunBatch(w) \/ CopyOptions(w) \/ SetPromises(w)
DestructorStep == NotifyStop \/ Join

Next ==
  \/ \E c \in Clients : Add(c) \/ Notify(c)
  \/ LoopStep \/ Timeout \/ SpuriousWakeup
  \/ \E w \in Workers : WorkerStep(w)
  \/ Stop \/ DestructorStep

\* Every thread runs. The deadline of a wait is fixed when it begins, so waking
\* for no reason does not put it off: the timeout comes. Nobody has to add a
\* request or to destroy the wrapper.
Spec ==
  /\ Init /\ [][Next]_vars
  /\ \A c \in Clients : WF_vars(Notify(c))
  /\ WF_vars(LoopStep) /\ SF_vars(Timeout)
  /\ \A w \in Workers : WF_vars(WorkerStep(w))
  /\ WF_vars(DestructorStep)

-----------------------------------------------------------------------------
\* Every variable has its type, and every buffered example has its promise.
TypeOK ==
  /\ examples \in Seq(Requests) /\ promises \in Seq(Requests)
  /\ Len(examples) = Len(promises)
  /\ stop \in BOOLEAN /\ stopping \in BOOLEAN
  /\ client \in [Clients -> {"idle", "notify"}]
  /\ loop \in {"check", "asleep", "timedOut", "post", "exited"}
  /\ answer \in [Requests -> Requests \cup {Unset, Exception}]
  /\ owner \in {"using", "notify", "join", "destroyed"}
  /\ optioned \subseteq Workers /\ fault \in BOOLEAN

\* A future never gets the translation of another request, through two queues,
\* a sort and batches that finish in any order (buffer_loop, post_examples), as long
\* as no batch has read the options of a destroyed wrapper.
OwnResult == ~fault => \A r \in Requests : answer[r] \in {Unset, Exception, r}

\* The background thread never sleeps over a full buffer or the end request:
\* clients and the destructor notify after they released the mutex.
NoLostFlush ==
  loop = "asleep" =>
    /\ Len(examples) >= BufferSize => \E c \in Clients : client[c] = "notify"
    /\ stop => owner = "notify"

\* Every request is answered, at the latest after some timeouts, unless the wrapper
\* is destroyed before a batch that it posted has copied the options: who destroys
\* it has to wait for the futures first (buffer_loop, the lambda at line 103).
EveryRequestAnswered == \A r \in Requests : (r \in Added) ~> (answer[r] # Unset \/ fault)

\* The destructor returns, and by then every request that was added is posted: none
\* stays behind in the buffer.
DestructorReturns ==
  (owner = "notify") ~> (owner = "destroyed" /\ examples = <<>> /\ chunk = <<>>)
=============================================================================
