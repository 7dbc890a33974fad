----------------------------- MODULE ThreadPool -----------------------------
(***************************************************************************)
(* The thread pool of CTranslate2: JobQueue (one mutex and two condition   *)
(* variables), Worker, and ThreadPool with its atomic counter of active    *)
(* jobs (include/ctranslate2/thread_pool.h, src/thread_pool.cc).           *)
(*                                                                         *)
(* One action is one critical section of _mutex, or one step the code takes*)
(* outside of it: a notification after unlock, the counter's atomic update,*)
(* run(). A thread whose pc is "put" or "get" is about to take the mutex   *)
(* and evaluate its wait predicate, for the first time or after a wakeup.  *)
(***************************************************************************)
EXTENDS Integers, Sequences, FiniteSets

CONSTANTS Clients,     \* threads that call ThreadPool::post
          Workers,     \* the pool's worker threads
          Jobs,        \* the jobs posted in a behaviour; bounds the model
          MaxQueue,    \* JobQueue::_maximum_size
          NoJob        \* the null unique_ptr

Threads == Clients \cup Workers

ASSUME ThreadsAssumption ==
  /\ IsFiniteSet(Clients)
  /\ IsFiniteSet(Workers)
  /\ Workers # {}
  /\ Clients \cap Workers = {}
ASSUME CapacityAssumption == MaxQueue \in Nat \ {0}
ASSUME NoJobAssumption == NoJob \notin Jobs

VARIABLES queue,       \* JobQueue::_queue
          requestEnd,  \* JobQueue::_request_end
          active,      \* ThreadPool::_num_active_jobs
          pc,          \* where each client and worker is
          hand,        \* the job each thread's unique_ptr owns
          runs,        \* history: how often each job's run() returned
          owner        \* progress of the thread that destroys the pool

vars == <<queue, requestEnd, active, pc, hand, runs, owner>>

ClientPc == {"idle", "put", "waitPut", "notifyGet"}
WorkerPc == {"get", "waitGet", "notifyPut", "run", "release", "exited"}
OwnerPc  == {"using", "notifyAll", "join", "destroyed"}

At(group, label) == {t \in group : pc[t] = label}

\* Where a client or a worker owns a job object.
Holding == {"put", "waitPut", "notifyPut", "run", "release"}

Queued == {queue[i] : i \in 1..Len(queue)}
Holders == {t \in Threads : hand[t] # NoJob}

\* A job object is posted once: put moves the only unique_ptr to it.
Fresh(j) == runs[j] = 0 /\ j \notin Queued /\ \A t \in Threads : hand[t] # j

Goto(t, label) == pc' = [pc EXCEPT ![t] = label]

Init ==
  /\ queue = <<>>
  /\ requestEnd = FALSE
  /\ active = 0
  /\ pc = [t \in Threads |-> IF t \in Clients THEN "idle" ELSE "get"]
  /\ hand = [t \in Threads |-> NoJob]
  /\ runs = [j \in Jobs |-> 0]
  /\ owner = "using"

-----------------------------------------------------------------------------
(* Condition variables. A notification wakes one thread of the wait set,   *)
(* if there is any; a woken thread takes the mutex and tests its predicate *)
(* again.                                                                  *)

NotifyOne(t, next, sleepers, label) ==
  IF sleepers = {}
  THEN Goto(t, next)
  ELSE \E s \in sleepers : pc' = [pc EXCEPT ![t] = next, ![s] = label]

\* The standard lets wait() wake without a notification.
SpuriousWakeup(t) ==
  /\ \/ pc[t] = "waitPut" /\ Goto(t, "put")
     \/ pc[t] = "waitGet" /\ Goto(t, "get")
  /\ UNCHANGED <<queue, requestEnd, active, hand, runs, owner>>

-----------------------------------------------------------------------------
(* Faulty variants of actions below, for mutation testing of the           *)
(* properties: each is the action with one plausible bug in it.            *)

\* put returns without notifying a worker.
NotifyGetSilent(c) ==
  /\ pc[c] = "notifyGet"
  /\ Goto(c, "idle")
  /\ UNCHANGED <<queue, requestEnd, active, hand, runs, owner>>

\* One condition variable serves both predicates.
NotifyGetShared(c) ==
  /\ pc[c] = "notifyGet"
  /\ NotifyOne(c, "idle", At(Workers, "waitGet") \cup At(Clients, "waitPut"), "get")
  /\ UNCHANGED <<queue, requestEnd, active, hand, runs, owner>>

\* The front of the queue is read but not popped.
GetJobKept(w) ==
  /\ pc[w] = "get"
  /\ queue # <<>>
  /\ hand' = [hand EXCEPT ![w] = Head(queue)]
  /\ Goto(w, "notifyPut")
  /\ UNCHANGED <<queue, requestEnd, active, runs, owner>>

\* The newest job is taken first.
GetJobNewest(w) ==
  /\ pc[w] = "get"
  /\ queue # <<>>
  /\ hand' = [hand EXCEPT ![w] = queue[Len(queue)]]
  /\ queue' = SubSeq(queue, 1, Len(queue) - 1)
  /\ Goto(w, "notifyPut")
  /\ UNCHANGED <<requestEnd, active, runs, owner>>

\* The end request is honoured before the queue is drained.
GetNullEarly(w) ==
  /\ pc[w] = "get"
  /\ requestEnd
  /\ Goto(w, "exited")
  /\ UNCHANGED <<queue, requestEnd, active, hand, runs, owner>>

\* get returns its job without notifying a client.
NotifyPutSilent(w) ==
  /\ pc[w] = "notifyPut"
  /\ Goto(w, "run")
  /\ UNCHANGED <<queue, requestEnd, active, hand, runs, owner>>

\* The job's destructor does not touch the counter.
ReleaseJobUncounted(w) ==
  /\ pc[w] = "release"
  /\ hand' = [hand EXCEPT ![w] = NoJob]
  /\ Goto(w, "get")
  /\ UNCHANGED <<queue, requestEnd, active, runs, owner>>

-----------------------------------------------------------------------------
(* ThreadPool::post and JobQueue::put, in a client thread.                 *)

\* post counts the job as active before put takes the mutex.
Post(c, j) ==
  /\ pc[c] = "idle" /\ owner = "using"
  /\ Fresh(j)
  /\ hand' = [hand EXCEPT ![c] = j]
  /\ active' = active + 1
  /\ Goto(c, "put")
  /\ UNCHANGED <<queue, requestEnd, runs, owner>>

PutWait(c) ==
  /\ pc[c] = "put"
  /\ Len(queue) >= MaxQueue
  /\ Goto(c, "waitPut")
  /\ UNCHANGED <<queue, requestEnd, active, hand, runs, owner>>

PutJob(c) ==
  /\ pc[c] = "put"
  /\ Len(queue) < MaxQueue
  /\ queue' = Append(queue, hand[c])
  /\ hand' = [hand EXCEPT ![c] = NoJob]
  /\ Goto(c, "notifyGet")
  /\ UNCHANGED <<requestEnd, active, runs, owner>>

\* _can_get_job.notify_one() after unlock; post then returns.
NotifyGet(c) ==
  /\ pc[c] = "notifyGet"
  /\ NotifyOne(c, "idle", At(Workers, "waitGet"), "get")
  /\ UNCHANGED <<queue, requestEnd, active, hand, runs, owner>>

-----------------------------------------------------------------------------
(* Worker::run and JobQueue::get, in a worker thread.                      *)

GetWait(w) ==
  /\ pc[w] = "get"
  /\ queue = <<>> /\ ~requestEnd
  /\ Goto(w, "waitGet")
  /\ UNCHANGED <<queue, requestEnd, active, hand, runs, owner>>

GetJob(w) ==
  /\ pc[w] = "get"
  /\ queue # <<>>
  /\ hand' = [hand EXCEPT ![w] = Head(queue)]
  /\ queue' = Tail(queue)
  /\ Goto(w, "notifyPut")
  /\ UNCHANGED <<requestEnd, active, runs, owner>>

\* get returns a null pointer and the worker's loop ends.
GetNull(w) ==
  /\ pc[w] = "get"
  /\ queue = <<>> /\ requestEnd
  /\ Goto(w, "exited")
  /\ UNCHANGED <<queue, requestEnd, active, hand, runs, owner>>

\* _can_put_job.notify_one() after unlock, before get returns the job.
NotifyPut(w) ==
  /\ pc[w] = "notifyPut"
  /\ NotifyOne(w, "run", At(Clients, "waitPut"), "put")
  /\ UNCHANGED <<queue, requestEnd, active, hand, runs, owner>>

RunJob(w) ==
  /\ pc[w] = "run"
  /\ runs' = [runs EXCEPT ![hand[w]] = @ + 1]
  /\ Goto(w, "release")
  /\ UNCHANGED <<queue, requestEnd, active, hand, owner>>

\* ~Job at the end of the loop's iteration decrements the counter.
ReleaseJob(w) ==
  /\ pc[w] = "release"
  /\ hand' = [hand EXCEPT ![w] = NoJob]
  /\ active' = active - 1
  /\ Goto(w, "get")
  /\ UNCHANGED <<queue, requestEnd, runs, owner>>

-----------------------------------------------------------------------------
(* ThreadPool::~ThreadPool. As for any C++ object, no other thread is      *)
(* inside one of the pool's functions when its destructor starts.          *)

Close ==
  /\ owner = "using"
  /\ At(Clients, "idle") = Clients
  /\ requestEnd' = TRUE
  /\ owner' = "notifyAll"
  /\ UNCHANGED <<queue, active, pc, hand, runs>>

\* close() notifies the workers only: nothing waits to put any more.
NotifyAll ==
  /\ owner = "notifyAll"
  /\ owner' = "join"
  /\ pc' = [t \in Threads |-> IF pc[t] = "waitGet" THEN "get" ELSE pc[t]]
  /\ UNCHANGED <<queue, requestEnd, active, hand, runs>>

JoinAll ==
  /\ owner = "join"
  /\ At(Workers, "exited") = Workers
  /\ owner' = "destroyed"
  /\ UNCHANGED <<queue, requestEnd, active, pc, hand, runs>>

-----------------------------------------------------------------------------
PutStep(c) == PutWait(c) \/ PutJob(c) \/ NotifyGet(c)

WorkerStep(w) ==
  \/ GetWait(w) \/ GetJob(w) \/ GetNull(w)
  \/ NotifyPut(w) \/ RunJob(w) \/ ReleaseJob(w)

DestructorStep == NotifyAll \/ JoinAll

Next ==
  \/ \E c \in Clients : PutStep(c) \/ \E j \in Jobs : Post(c, j)
  \/ \E w \in Workers : WorkerStep(w)
  \/ \E t \in Threads : SpuriousWakeup(t)
  \/ Close
  \/ DestructorStep

\* Runnable threads run: nobody has to post, or to destroy the pool.
Fairness ==
  /\ \A c \in Clients : WF_vars(PutStep(c))
  /\ \A w \in Workers : WF_vars(WorkerStep(w))
  /\ WF_vars(DestructorStep)

SafeSpec == Init /\ [][Next]_vars

Spec == SafeSpec /\ Fairness
-----------------------------------------------------------------------------
\* Every variable has its type, and a client and a worker are only ever at
\* the points of their own function.
TypeOK ==
  /\ queue \in Seq(Jobs)
  /\ requestEnd \in BOOLEAN
  /\ active \in Int
  /\ pc \in [Threads -> ClientPc \cup WorkerPc]
  /\ \A c \in Clients : pc[c] \in ClientPc
  /\ \A w \in Workers : pc[w] \in WorkerPc
  /\ hand \in [Threads -> Jobs \cup {NoJob}]
  /\ runs \in [Jobs -> Nat]
  /\ owner \in OwnerPc

\* The queue never grows past _maximum_size, although several clients may be
\* woken for the same free slot (the predicate of JobQueue::put's wait).
QueueBounded == Len(queue) <= MaxQueue

\* num_active_jobs counts exactly the jobs that are being posted, queued, run
\* or not yet destroyed: the counter is incremented before the mutex is taken
\* and decremented after the result is visible, on different threads.
CounterExact == active = Len(queue) + Cardinality(Holders)

\* No job's run() is executed twice, whatever the race between workers that
\* were woken for the same job (Worker::run, JobQueue::get).
RunAtMostOnce == \A j \in Jobs : runs[j] <= 1

\* Worker threads asleep in JobQueue::get never miss work: queued jobs are
\* matched by notifications still to be sent and by workers about to look.
NoLostGetWakeup ==
  \/ At(Workers, "waitGet") = {}
  \/ Len(queue) <= Cardinality(At(Clients, "notifyGet"))
                     + Cardinality(At(Workers, "get"))

\* Clients asleep in JobQueue::put never miss a free slot: free slots are
\* matched by notifications still to be sent and by clients about to look.
NoLostPutWakeup ==
  \/ At(Clients, "waitPut") = {}
  \/ MaxQueue - Len(queue) <= Cardinality(At(Workers, "notifyPut"))
                                + Cardinality(At(Clients, "put"))

\* When ~ThreadPool returns no job is left queued, owned or counted: closing
\* drains the queue (JobQueue::get prefers a queued job to the end request).
DrainedWhenDestroyed ==
  owner = "destroyed" => queue = <<>> /\ Holders = {} /\ active = 0

\* Every call of post returns and every posted job runs, although a put and a
\* get wake each other with notify_one on two condition variables.
PostedJobsRun ==
  \A c \in Clients : \A j \in Jobs :
    (hand[c] = j) ~> (pc[c] = "idle" /\ runs[j] = 1)

\* Every job object has one owner: a queue slot or the unique_ptr of one
\* thread, and it has run exactly when its worker is about to destroy it
\* (the moves of JobQueue::put and get, the loop of Worker::run).
Ownership ==
  /\ \A t \in Threads : hand[t] # NoJob <=> pc[t] \in Holding
  /\ \A i, k \in 1..Len(queue) : queue[i] = queue[k] => i = k
  /\ \A t \in Threads : \A i \in 1..Len(queue) : queue[i] # hand[t]
  /\ \A s, t \in Threads : hand[s] = hand[t] /\ hand[s] # NoJob => s = t
  /\ \A i \in 1..Len(queue) : runs[queue[i]] = 0
  /\ \A t \in Threads : hand[t] # NoJob =>
       runs[hand[t]] = (IF pc[t] = "release" THEN 1 ELSE 0)

\* The order of destruction: once the end is requested no client is inside
\* the pool, workers leave only an empty queue behind, none still sleeps after
\* notify_all, and all have left when the destructor returns.
ClosingOrder ==
  /\ requestEnd <=> owner # "using"
  /\ owner # "using" => \A c \in Clients : pc[c] = "idle"
  /\ \A w \in Workers : pc[w] = "exited" => owner # "using" /\ queue = <<>>
  /\ owner \in {"join", "destroyed"} => \A w \in Workers : pc[w] # "waitGet"
  /\ owner = "destroyed" => \A w \in Workers : pc[w] = "exited"

(***************************************************************************)
(* The pool implements the bounded first-in first-out job pool: a job has  *)
(* started once a worker popped it and finished when run() has returned.   *)
(***************************************************************************)
Started == [w \in Workers |-> IF pc[w] \in {"notifyPut", "run"} THEN hand[w] ELSE NoJob]

Pool == INSTANCE JobPool WITH
  buffer   <- queue,
  running  <- Started,
  finished <- {j \in Jobs : runs[j] > 0},
  phase    <- IF owner = "using" THEN "open"
              ELSE IF owner = "destroyed" THEN "destroyed" ELSE "closed"

\* Jobs start in the order they were queued, at most one per worker, each
\* runs once, and the destructor returns only after all of them ran.
ImplementsJobPool == Pool!Spec
=============================================================================
