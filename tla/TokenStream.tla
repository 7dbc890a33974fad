----------------------------- MODULE TokenStream -----------------------------
(***************************************************************************)
(* _generate_tokens and AsyncGenerator (python/ctranslate2/extensions.py): *)
(* tokens of a generation that runs in the workers of a pool are handed to *)
(* a Python generator, or to an asynchronous one on top of it. The actors  *)
(* are the workers, the thread that waits for the results, the generator   *)
(* (in the thread of its user, or of the event loop) and the user.         *)
(***************************************************************************)
EXTENDS Naturals, FiniteSets, Sequences, SequencesExt, FiniteSetsExt

CONSTANTS Batches,     \* the entries of each batch, numbered in the order of the batches
          Length,      \* the tokens of each entry, unless it is stopped
          NumWorkers,
          FailureIsPossible

Entries == UNION ToSet(Batches)
Jobs == DOMAIN Batches
JobOf(e) == CHOOSE j \in Jobs : e \in Batches[j]
NoEntry == 0

\* Batches are cut by rebatch_input: none is empty and no two share an entry.
ASSUME StreamAssumption ==
  /\ IsFiniteSet(Entries) /\ Entries = 1..Cardinality(Entries)
  /\ \A j \in Jobs : Batches[j] # {}
  /\ \A i, j \in Jobs : i # j => Batches[i] \cap Batches[j] = {}
  /\ Length \in [Entries -> Nat \ {0}]
  /\ NumWorkers \in Nat \ {0}

VARIABLES
  mode,      \* "sync", or "async": the generator is driven by producer()
  job,       \* "queued", "running", "done", "failed"
  made,      \* tokens passed to the callback, for each entry
  ended,     \* the entries that are finished
  callback,  \* the entry whose callback has put its token, for each job
  queue,     \* step_results
  closed,    \* generator_closed
  caught,    \* results the waiting thread has got
  catcher,   \* that thread: "waiting", "ending", "finished"
  pc,        \* the generator: "get", "yield", "join", "returned", "raised"
  items,     \* the asyncio queue
  shutdown,  \* shutdown_event
  anext,     \* the asynchronous user: "idle", "waiting", "ended"
  received,  \* history: the tokens the user got
  late       \* history: the tokens of an entry put after generator_closed

work == <<job, made, ended, callback, late>>
user == <<items, shutdown, anext, received>>
vars == <<mode, work, queue, closed, caught, catcher, pc, user>>

Token(e, n) == <<e, n>>
Exception == <<NoEntry, 1>>
None == <<NoEntry, 0>>

Init ==
  /\ mode \in {"sync", "async"}
  /\ job = [j \in Jobs |-> "queued"]
  /\ made = [e \in Entries |-> 0] /\ late = made
  /\ ended = {}
  /\ callback = [j \in Jobs |-> NoEntry]
  /\ queue = <<>> /\ closed = FALSE
  /\ caught = 0 /\ catcher = IF Entries = {} THEN "ending" ELSE "waiting"
  /\ pc = "get"
  /\ items = <<>> /\ shutdown = FALSE /\ received = <<>>
  /\ anext = IF mode = "async" THEN "waiting" ELSE "ended"

-----------------------------------------------------------------------------
(* The workers. *)

\* A free worker takes the oldest job of the pool.
StartJob(j) ==
  /\ job[j] = "queued" /\ \A i \in Jobs : i < j => job[i] # "queued"
  /\ Cardinality({i \in Jobs : job[i] = "running"}) < NumWorkers
  /\ job' = [job EXCEPT ![j] = "running"]
  /\ UNCHANGED <<mode, made, ended, callback, late, queue, closed, caught, catcher, pc, user>>

\* _callback: greedy search passes the token of each unfinished entry in turn.
PutToken(e) ==
  LET j == JobOf(e)
  IN /\ job[j] = "running" /\ callback[j] = NoEntry /\ e \notin ended
     /\ \A f \in Batches[j] \ ended :
          made[e] < made[f] \/ (made[e] = made[f] /\ e <= f)
     /\ made' = [made EXCEPT ![e] = @ + 1]
     /\ late' = [late EXCEPT ![e] = IF closed THEN @ + 1 ELSE @]
     /\ queue' = Append(queue, Token(e, made'[e]))
     /\ callback' = [callback EXCEPT ![j] = e]
     /\ UNCHANGED <<mode, job, ended, closed, caught, catcher, pc, user>>

\* Faulty variant: only the callback of the user stops an entry.
StoppedByUser(e, userResult) == userResult

\* What _callback returns once the token is in the queue.
Stopped(e, userResult) == closed \/ userResult

ReturnCallback(e, userResult) ==
  /\ callback[JobOf(e)] = e
  /\ callback' = [callback EXCEPT ![JobOf(e)] = NoEntry]
  /\ ended' = IF Stopped(e, userResult) \/ made[e] = Length[e] THEN ended \union {e}
                                                               ELSE ended
  /\ UNCHANGED <<mode, job, made, late, queue, closed, caught, catcher, pc, user>>

\* The results of the batch are set, after its last callback has returned.
FinishJob(j) ==
  /\ job[j] = "running" /\ Batches[j] \subseteq ended /\ callback[j] = NoEntry
  /\ job' = [job EXCEPT ![j] = "done"]
  /\ UNCHANGED <<mode, made, ended, callback, late, queue, closed, caught, catcher, pc, user>>

\* The decoder or the callback of the user throws.
FailJob(j) ==
  /\ FailureIsPossible /\ job[j] = "running"
  /\ job' = [job EXCEPT ![j] = "failed"]
  /\ UNCHANGED <<mode, made, ended, callback, late, queue, closed, caught, catcher, pc, user>>

-----------------------------------------------------------------------------
(* _catch_exception, in a thread of its own. *)

\* Faulty variant: the thread waits for the first result only.
CatchFirst ==
  /\ catcher = "waiting" /\ job[1] = "done"
  /\ caught' = Cardinality(Entries) /\ catcher' = "ending"
  /\ UNCHANGED <<mode, work, queue, closed, pc, user>>

CatchResult ==
  /\ catcher = "waiting" /\ job[JobOf(caught + 1)] = "done"
  /\ caught' = caught + 1
  /\ catcher' = IF caught' = Cardinality(Entries) THEN "ending" ELSE "waiting"
  /\ UNCHANGED <<mode, work, queue, closed, pc, user>>

\* Faulty variant: the exception ends the thread.
CatchExceptionDies ==
  /\ catcher = "waiting" /\ job[JobOf(caught + 1)] = "failed"
  /\ catcher' = "finished"
  /\ UNCHANGED <<mode, work, queue, closed, caught, pc, user>>

\* The first failure ends the loop over the results.
CatchException ==
  /\ catcher = "waiting" /\ job[JobOf(caught + 1)] = "failed"
  /\ queue' = Append(queue, Exception)
  /\ catcher' = "ending"
  /\ UNCHANGED <<mode, work, closed, caught, pc, user>>

PutNone ==
  /\ catcher = "ending"
  /\ queue' = Append(queue, None)
  /\ catcher' = "finished"
  /\ UNCHANGED <<mode, work, closed, caught, pc, user>>

-----------------------------------------------------------------------------
(* The generator. *)

GetToken ==
  /\ pc = "get" /\ queue # <<>> /\ Head(queue) \notin {Exception, None}
  /\ queue' = Tail(queue)
  /\ pc' = "yield"
  /\ IF mode = "sync"
     THEN received' = Append(received, Head(queue)) /\ UNCHANGED items
     ELSE items' = Append(items, Head(queue)) /\ UNCHANGED received
  /\ UNCHANGED <<mode, work, closed, caught, catcher, shutdown, anext>>

GetNone ==
  /\ pc = "get" /\ queue # <<>> /\ Head(queue) = None
  /\ queue' = Tail(queue)
  /\ pc' = "join"
  /\ UNCHANGED <<mode, work, closed, caught, catcher, user>>

\* The exception leaves the generator at once, and producer() with it: nothing
\* is put in the asyncio queue.
GetException ==
  /\ pc = "get" /\ queue # <<>> /\ Head(queue) = Exception
  /\ queue' = Tail(queue)
  /\ pc' = "raised"
  /\ UNCHANGED <<mode, work, closed, caught, catcher, user>>

\* The user asks for another token; producer() does once it has slept.
Resume ==
  /\ pc = "yield" /\ ~shutdown
  /\ pc' = "get"
  /\ UNCHANGED <<mode, work, queue, closed, caught, catcher, user>>

\* The user closes the generator; producer() leaves its loop, which closes it.
CloseGenerator ==
  /\ pc = "yield" /\ (mode = "sync" \/ shutdown)
  /\ closed' = TRUE
  /\ pc' = "join"
  /\ UNCHANGED <<mode, work, queue, caught, catcher, user>>

\* thread.join() returns.
Join ==
  /\ pc = "join" /\ catcher = "finished"
  /\ pc' = "returned"
  /\ items' = IF mode = "async" THEN Append(items, None) ELSE items
  /\ UNCHANGED <<mode, work, queue, closed, caught, catcher, shutdown, anext, received>>

-----------------------------------------------------------------------------
(* The user of the AsyncGenerator: it runs while the generator, in the same *)
(* event loop, does not block. *)

LoopIsFree == mode = "async" /\ pc \notin {"get", "join"}

CallNext ==
  /\ LoopIsFree /\ anext = "idle"
  /\ anext' = "waiting"
  /\ UNCHANGED <<mode, work, queue, closed, caught, catcher, pc, items, shutdown, received>>

AnswerNext ==
  /\ LoopIsFree /\ anext = "waiting" /\ items # <<>>
  /\ items' = Tail(items)
  /\ IF Head(items) = None
     THEN anext' = "ended" /\ shutdown' = TRUE /\ UNCHANGED received
     ELSE /\ anext' = "idle" /\ received' = Append(received, Head(items))
          /\ UNCHANGED shutdown
  /\ UNCHANGED <<mode, work, queue, closed, caught, catcher, pc>>

\* The task that waits in __anext__ is cancelled.
CancelNext ==
  /\ LoopIsFree /\ anext = "waiting"
  /\ anext' = "ended" /\ shutdown' = TRUE
  /\ UNCHANGED <<mode, work, queue, closed, caught, catcher, pc, items, received>>

\* The user leaves its "async for": nothing tells producer().
AbandonNext ==
  /\ LoopIsFree /\ anext = "idle"
  /\ anext' = "ended"
  /\ UNCHANGED <<mode, work, queue, closed, caught, catcher, pc, items, shutdown, received>>

-----------------------------------------------------------------------------
Worker == \/ \E j \in Jobs : StartJob(j) \/ FinishJob(j)
          \/ \E e \in Entries : PutToken(e) \/ \E stop \in BOOLEAN : ReturnCallback(e, stop)
Catcher == CatchResult \/ CatchException \/ PutNone
Generator == GetToken \/ GetNone \/ GetException \/ Join
Loop == mode = "async" /\ (Resume \/ CloseGenerator)
User == (mode = "sync" /\ (Resume \/ CloseGenerator)) \/ CallNext \/ CancelNext \/ AbandonNext

Next ==
  \/ Worker \/ (\E j \in Jobs : FailJob(j))
  \/ Catcher \/ Generator \/ Loop \/ AnswerNext \/ User

\* Every thread and the event loop make progress; the user may leave at any time.
Fairness ==
  /\ WF_vars(Worker) /\ WF_vars(Catcher) /\ WF_vars(Generator)
  /\ WF_vars(Loop) /\ WF_vars(AnswerNext)

Spec == Init /\ [][Next]_vars /\ Fairness

-----------------------------------------------------------------------------
\* The tokens of e in the sequence are the first "count" ones, in their order.
Numbered(tokens, e, count) ==
  /\ {token \in ToSet(tokens) : token[1] = e} = {Token(e, n) : n \in 1..count}
  /\ \A i, k \in DOMAIN tokens :
       i < k /\ tokens[i][1] = e /\ tokens[k][1] = e => tokens[i][2] < tokens[k][2]

\* Every token reaches the user once and in the order of its entry. A stream
\* that was not closed and ends without an exception is complete: all the jobs
\* are done and none of their tokens is left in step_results, because the
\* results are waited for before None is put.
StreamComplete ==
  LET alive == pc \in {"get", "yield"}
      complete == pc \in {"join", "returned"} /\ ~closed
  IN /\ \A e \in Entries :
          alive \/ complete => Numbered(received \o items \o queue, e, made[e])
     /\ complete => queue = <<>> /\ \A j \in Jobs : job[j] = "done"

\* A closed generator stops the generation: each entry, in whatever batch, is
\* decoded for at most one more token (_callback returns generator_closed).
StopsAfterClose == \A e \in Entries : late[e] <= 1

\* A generator that waits for a token gets one, the end or an exception, one
\* that waits for the thread returns, and an asynchronous user is answered
\* unless producer() died of an exception.
WaitsEnd ==
  /\ pc = "get" ~> pc # "get"
  /\ pc = "join" ~> pc = "returned"
  /\ anext = "waiting" ~> (anext # "waiting" \/ pc = "raised")
=============================================================================
