-------------------------- MODULE ThreadPoolProofs --------------------------
(***************************************************************************)
(* Theorems about ThreadPool for every number of clients, workers and jobs *)
(* and every capacity of the queue.                                        *)
(***************************************************************************)
EXTENDS ThreadPool, TLAPS, FiniteSetTheorems

(***************************************************************************)
(* Types. TypeOK is not inductive by itself: that a worker runs a job and  *)
(* not a null pointer follows from where threads own jobs.                 *)
(***************************************************************************)
TypeInv ==
  /\ TypeOK
  /\ \A t \in Threads : hand[t] # NoJob <=> pc[t] \in Holding

\* The type invariant and the places of the held jobs hold at first.
LEMMA TypeInit == Init => TypeInv
<1> SUFFICES ASSUME Init PROVE TypeInv
  OBVIOUS
<1>1. queue \in Seq(Jobs)
  BY DEF Init
<1>2. pc \in [Threads -> ClientPc \cup WorkerPc]
  BY DEF Init, ClientPc, WorkerPc
<1>3. \A c \in Clients : pc[c] = "idle"
  BY DEF Init, Threads
<1>4. \A w \in Workers : pc[w] = "get"
  BY ThreadsAssumption DEF Init, Threads
<1>5. /\ hand \in [Threads -> Jobs \cup {NoJob}]
      /\ \A t \in Threads : hand[t] = NoJob
  BY DEF Init
<1>6. requestEnd \in BOOLEAN
  BY Zenon DEF Init
<1>7. active \in Int /\ runs \in [Jobs -> Nat] /\ owner \in OwnerPc
  BY DEF Init, OwnerPc
<1>8. \A t \in Threads : pc[t] \notin Holding
  BY <1>3, <1>4 DEF Threads, Holding
<1> QED
  BY <1>1, <1>2, <1>3, <1>4, <1>5, <1>6, <1>7, <1>8
     DEF TypeInv, TypeOK, ClientPc, WorkerPc

\* Every step of the pool keeps them.
LEMMA TypeStep == TypeInv /\ [Next]_vars => TypeInv'
<1> SUFFICES ASSUME TypeInv, [Next]_vars PROVE TypeInv'
  OBVIOUS
<1> USE ThreadsAssumption, NoJobAssumption
        DEF TypeInv, TypeOK, Threads, ClientPc, WorkerPc, OwnerPc, Goto, At, Holding
<1>1. ASSUME NEW c \in Clients, NEW j \in Jobs, Post(c, j) PROVE TypeInv'
  BY <1>1 DEF Post
<1>2. ASSUME NEW c \in Clients, PutWait(c) PROVE TypeInv'
  BY <1>2 DEF PutWait
<1>3. ASSUME NEW c \in Clients, PutJob(c) PROVE TypeInv'
  <2>1. hand[c] \in Jobs
    BY <1>3 DEF PutJob
  <2>2. queue' \in Seq(Jobs)
    BY <1>3, <2>1 DEF PutJob
  <2> QED
    BY <1>3, <2>2 DEF PutJob
<1>4. ASSUME NEW c \in Clients, NotifyGet(c) PROVE TypeInv'
  BY <1>4 DEF NotifyGet, NotifyOne
<1>5. ASSUME NEW w \in Workers, GetWait(w) PROVE TypeInv'
  BY <1>5 DEF GetWait
<1>6. ASSUME NEW w \in Workers, GetJob(w) PROVE TypeInv'
  <2>1. Head(queue) \in Jobs /\ queue' \in Seq(Jobs)
    BY <1>6 DEF GetJob
  <2> QED
    BY <1>6, <2>1 DEF GetJob
<1>7. ASSUME NEW w \in Workers, GetNull(w) PROVE TypeInv'
  BY <1>7 DEF GetNull
<1>8. ASSUME NEW w \in Workers, NotifyPut(w) PROVE TypeInv'
  BY <1>8 DEF NotifyPut, NotifyOne
<1>9. ASSUME NEW w \in Workers, RunJob(w) PROVE TypeInv'
  <2>1. hand[w] \in Jobs
    BY <1>9 DEF RunJob
  <2>2. runs' \in [Jobs -> Nat]
    BY <1>9, <2>1 DEF RunJob
  <2> QED
    BY <1>9, <2>2 DEF RunJob
<1>10. ASSUME NEW w \in Workers, ReleaseJob(w) PROVE TypeInv'
  BY <1>10 DEF ReleaseJob
<1>11. ASSUME NEW t \in Threads, SpuriousWakeup(t) PROVE TypeInv'
  BY <1>11 DEF SpuriousWakeup
<1>12. CASE Close
  BY <1>12 DEF Close
<1>13. CASE NotifyAll
  BY <1>13 DEF NotifyAll
<1>14. CASE JoinAll
  BY <1>14 DEF JoinAll
<1>15. CASE UNCHANGED vars
  BY <1>15 DEF vars
<1> QED
  BY <1>1, <1>2, <1>3, <1>4, <1>5, <1>6, <1>7, <1>8, <1>9, <1>10, <1>11,
     <1>12, <1>13, <1>14, <1>15
     DEF Next, PutStep, WorkerStep, DestructorStep

\* Every variable keeps its type and no thread leaves its own function.
THEOREM TypeCorrect == Spec => []TypeOK
<1>1. Spec => []TypeInv
  BY TypeInit, TypeStep, PTL DEF Spec, SafeSpec
<1> QED
  BY <1>1, PTL DEF TypeInv

-----------------------------------------------------------------------------
(* Ownership of the jobs.                                                  *)

\* At first no job has an owner or has run.
LEMMA OwnershipInit == Init => Ownership /\ RunAtMostOnce
<1> SUFFICES ASSUME Init PROVE Ownership /\ RunAtMostOnce
  OBVIOUS
<1>1. Len(queue) = 0 /\ \A t \in Threads : hand[t] = NoJob
  BY DEF Init
<1>2. \A t \in Threads : pc[t] \notin Holding
  BY <1>1, TypeInit DEF TypeInv
<1>3. RunAtMostOnce
  BY DEF Init, RunAtMostOnce
<1> QED
  BY <1>1, <1>2, <1>3 DEF Ownership

\* A job keeps one owner from post to its destruction, and runs once.
LEMMA OwnershipStep ==
  TypeInv /\ Ownership /\ RunAtMostOnce /\ [Next]_vars
    => Ownership' /\ RunAtMostOnce'
<1> SUFFICES ASSUME TypeInv, Ownership, RunAtMostOnce, [Next]_vars
             PROVE  Ownership' /\ RunAtMostOnce'
  OBVIOUS
<1> USE ThreadsAssumption, NoJobAssumption
        DEF TypeInv, TypeOK, Ownership, RunAtMostOnce, Threads, Goto, At, Holding
<1>1. ASSUME NEW c \in Clients, NEW j \in Jobs, Post(c, j)
      PROVE  Ownership' /\ RunAtMostOnce'
  BY <1>1 DEF Post, Fresh, Queued
<1>2. ASSUME NEW c \in Clients, PutWait(c)
      PROVE  Ownership' /\ RunAtMostOnce'
  BY <1>2 DEF PutWait
<1>3. ASSUME NEW c \in Clients, PutJob(c)
      PROVE  Ownership' /\ RunAtMostOnce'
  <2>1. hand[c] \in Jobs /\ pc[c] = "put" /\ runs[hand[c]] = 0
    BY <1>3 DEF PutJob
  <2>2. /\ Len(queue') = Len(queue) + 1
        /\ \A i \in 1..Len(queue) : queue'[i] = queue[i]
        /\ queue'[Len(queue) + 1] = hand[c]
    BY <1>3, <2>1 DEF PutJob
  <2>5. \A i \in 1..Len(queue') : i \in 1..Len(queue) \/ i = Len(queue) + 1
    BY <2>2
  <2>6. c \in Threads /\ \A i \in 1..Len(queue) : queue[i] # hand[c]
    OBVIOUS
  <2>3. /\ \A i, k \in 1..Len(queue') : queue'[i] = queue'[k] => i = k
        /\ \A i \in 1..Len(queue') : runs[queue'[i]] = 0
    <3>1. ASSUME NEW i \in 1..Len(queue'), NEW k \in 1..Len(queue'),
                 queue'[i] = queue'[k]
          PROVE  i = k
      BY <2>2, <2>5, <2>6, <3>1
    <3>2. ASSUME NEW i \in 1..Len(queue') PROVE runs[queue'[i]] = 0
      BY <2>1, <2>2, <2>5
    <3> QED
      BY <3>1, <3>2
  <2>4. \A t \in Threads : \A i \in 1..Len(queue') : queue'[i] # hand'[t]
    BY <1>3, <2>1, <2>2 DEF PutJob
  <2> QED
    BY <1>3, <2>1, <2>3, <2>4 DEF PutJob
<1>4. ASSUME NEW c \in Clients, NotifyGet(c)
      PROVE  Ownership' /\ RunAtMostOnce'
  BY <1>4 DEF NotifyGet, NotifyOne
<1>5. ASSUME NEW w \in Workers, GetWait(w)
      PROVE  Ownership' /\ RunAtMostOnce'
  BY <1>5 DEF GetWait
<1>6. ASSUME NEW w \in Workers, GetJob(w)
      PROVE  Ownership' /\ RunAtMostOnce'
  <2>1. /\ Len(queue) \in Nat \ {0} /\ Head(queue) = queue[1]
        /\ queue[1] \in Jobs
        /\ Len(queue') = Len(queue) - 1
        /\ \A i \in 1..Len(queue') : queue'[i] = queue[i + 1]
    BY <1>6 DEF GetJob
  <2>2. /\ \A i, k \in 1..Len(queue') : queue'[i] = queue'[k] => i = k
        /\ \A i \in 1..Len(queue') : runs[queue'[i]] = 0
        /\ \A i \in 1..Len(queue') : queue'[i] # Head(queue)
    <3>1. 1 \in 1..Len(queue) /\ \A i \in 1..Len(queue') : i + 1 \in 1..Len(queue)
      BY <2>1
    <3>2. \A i, k \in 1..Len(queue') : queue'[i] = queue'[k] => i = k
      BY <2>1, <3>1
    <3>3. \A i \in 1..Len(queue') : runs[queue'[i]] = 0
      BY <2>1, <3>1
    <3>4. \A i \in 1..Len(queue') : queue'[i] # Head(queue)
      BY <2>1, <3>1
    <3> QED
      BY <3>2, <3>3, <3>4
  <2>3. \A t \in Threads : \A i \in 1..Len(queue') : queue'[i] # hand'[t]
    BY <1>6, <2>1, <2>2 DEF GetJob
  <2> QED
    BY <1>6, <2>1, <2>2, <2>3 DEF GetJob
<1>7. ASSUME NEW w \in Workers, GetNull(w)
      PROVE  Ownership' /\ RunAtMostOnce'
  BY <1>7 DEF GetNull
<1>8. ASSUME NEW w \in Workers, NotifyPut(w)
      PROVE  Ownership' /\ RunAtMostOnce'
  BY <1>8 DEF NotifyPut, NotifyOne
<1>9. ASSUME NEW w \in Workers, RunJob(w)
      PROVE  Ownership' /\ RunAtMostOnce'
  <2>1. hand[w] \in Jobs /\ runs[hand[w]] = 0
    BY <1>9 DEF RunJob
  <2>2. /\ runs'[hand[w]] = 1
        /\ \A j \in Jobs : j # hand[w] => runs'[j] = runs[j]
    BY <1>9, <2>1 DEF RunJob
  <2>3. \A i \in 1..Len(queue) : queue[i] \in Jobs
    OBVIOUS
  <2> QED
    BY <1>9, <2>1, <2>2, <2>3 DEF RunJob
<1>10. ASSUME NEW w \in Workers, ReleaseJob(w)
      PROVE  Ownership' /\ RunAtMostOnce'
  <2>1. \A i \in 1..Len(queue) : queue[i] \in Jobs
    OBVIOUS
  <2> QED
    BY <1>10, <2>1 DEF ReleaseJob
<1>11. ASSUME NEW t \in Threads, SpuriousWakeup(t)
      PROVE  Ownership' /\ RunAtMostOnce'
  BY <1>11 DEF SpuriousWakeup
<1>12. CASE Close
  BY <1>12 DEF Close
<1>13. CASE NotifyAll
  BY <1>13 DEF NotifyAll
<1>14. CASE JoinAll
  BY <1>14 DEF JoinAll
<1>15. CASE UNCHANGED vars
  BY <1>15 DEF vars
<1> QED
  BY <1>1, <1>2, <1>3, <1>4, <1>5, <1>6, <1>7, <1>8, <1>9, <1>10, <1>11,
     <1>12, <1>13, <1>14, <1>15
     DEF Next, PutStep, WorkerStep, DestructorStep

-----------------------------------------------------------------------------
(* Destruction and the bound of the queue.                                 *)

\* At first the end is not requested and the queue is empty.
LEMMA ClosingInit == Init => ClosingOrder /\ QueueBounded
<1> SUFFICES ASSUME Init PROVE ClosingOrder /\ QueueBounded
  OBVIOUS
<1>1. \A w \in Workers : pc[w] = "get"
  BY ThreadsAssumption DEF Init, Threads
<1>2. owner = "using" /\ requestEnd = FALSE /\ Len(queue) = 0
  BY DEF Init
<1>3. requestEnd <=> owner # "using"
  BY <1>2, Zenon
<1> QED
  BY <1>1, <1>2, <1>3, CapacityAssumption DEF ClosingOrder, QueueBounded

\* Requests to end, exits of workers and joins keep their order, the queue its bound.
LEMMA ClosingStep ==
  TypeInv /\ ClosingOrder /\ QueueBounded /\ [Next]_vars
    => ClosingOrder' /\ QueueBounded'
<1> SUFFICES ASSUME TypeInv, ClosingOrder, QueueBounded, [Next]_vars
             PROVE  ClosingOrder' /\ QueueBounded'
  OBVIOUS
<1> USE ThreadsAssumption, CapacityAssumption
        DEF TypeInv, TypeOK, ClosingOrder, QueueBounded, Threads, Goto, At
<1>1. ASSUME NEW c \in Clients, NEW j \in Jobs, Post(c, j)
      PROVE  ClosingOrder' /\ QueueBounded'
  BY <1>1 DEF Post
<1>2. ASSUME NEW c \in Clients, PutWait(c)
      PROVE  ClosingOrder' /\ QueueBounded'
  BY <1>2 DEF PutWait
<1>3. ASSUME NEW c \in Clients, PutJob(c)
      PROVE  ClosingOrder' /\ QueueBounded'
  <2>1. hand[c] \in Jobs /\ owner = "using"
    BY <1>3 DEF PutJob, Holding
  <2>2. Len(queue') = Len(queue) + 1
    BY <1>3, <2>1 DEF PutJob
  <2> QED
    BY <1>3, <2>1, <2>2 DEF PutJob
<1>4. ASSUME NEW c \in Clients, NotifyGet(c)
      PROVE  ClosingOrder' /\ QueueBounded'
  BY <1>4 DEF NotifyGet, NotifyOne
<1>5. ASSUME NEW w \in Workers, GetWait(w)
      PROVE  ClosingOrder' /\ QueueBounded'
  BY <1>5 DEF GetWait
<1>6. ASSUME NEW w \in Workers, GetJob(w)
      PROVE  ClosingOrder' /\ QueueBounded'
  BY <1>6 DEF GetJob
<1>7. ASSUME NEW w \in Workers, GetNull(w)
      PROVE  ClosingOrder' /\ QueueBounded'
  BY <1>7 DEF GetNull
<1>8. ASSUME NEW w \in Workers, NotifyPut(w)
      PROVE  ClosingOrder' /\ QueueBounded'
  BY <1>8 DEF NotifyPut, NotifyOne
<1>9. ASSUME NEW w \in Workers, RunJob(w)
      PROVE  ClosingOrder' /\ QueueBounded'
  BY <1>9 DEF RunJob
<1>10. ASSUME NEW w \in Workers, ReleaseJob(w)
      PROVE  ClosingOrder' /\ QueueBounded'
  BY <1>10 DEF ReleaseJob
<1>11. ASSUME NEW t \in Threads, SpuriousWakeup(t)
      PROVE  ClosingOrder' /\ QueueBounded'
  BY <1>11 DEF SpuriousWakeup
<1>12. CASE Close
  BY <1>12 DEF Close
<1>13. CASE NotifyAll
  BY <1>13 DEF NotifyAll
<1>14. CASE JoinAll
  BY <1>14 DEF JoinAll
<1>15. CASE UNCHANGED vars
  BY <1>15 DEF vars
<1> QED
  BY <1>1, <1>2, <1>3, <1>4, <1>5, <1>6, <1>7, <1>8, <1>9, <1>10, <1>11,
     <1>12, <1>13, <1>14, <1>15
     DEF Next, PutStep, WorkerStep, DestructorStep

-----------------------------------------------------------------------------
\* The inductive invariant of the pool, and what follows from it.
PoolInv ==
  TypeInv /\ Ownership /\ RunAtMostOnce /\ ClosingOrder /\ QueueBounded

\* The threads keep to their protocol of moving jobs and of closing the queue.
THEOREM PoolInvariant == Spec => []PoolInv
<1>1. Init => PoolInv
  BY TypeInit, OwnershipInit, ClosingInit DEF PoolInv
<1>2. PoolInv /\ [Next]_vars => PoolInv'
  BY TypeStep, OwnershipStep, ClosingStep DEF PoolInv
<1> QED
  BY <1>1, <1>2, PTL DEF Spec, SafeSpec

\* No job's run() is executed twice.
THEOREM ExactlyOnce == Spec => []RunAtMostOnce
BY PoolInvariant, PTL DEF PoolInv

\* Every job object has exactly one owner.
THEOREM OneOwner == Spec => []Ownership
BY PoolInvariant, PTL DEF PoolInv

\* Once the end is requested, clients are out, and workers leave an empty
\* queue and do not sleep.
THEOREM OrderlyClosing == Spec => []ClosingOrder
BY PoolInvariant, PTL DEF PoolInv

\* The queue never exceeds its maximum size.
THEOREM Bounded == Spec => []QueueBounded
BY PoolInvariant, PTL DEF PoolInv

-----------------------------------------------------------------------------
(* Counting threads and jobs.                                              *)

\* The threads of the pool are finitely many.
LEMMA FiniteThreads == IsFiniteSet(Threads)
BY ThreadsAssumption, FS_Union DEF Threads

\* So are the clients and the workers at one label.
LEMMA FiniteGroups ==
  ASSUME NEW label
  PROVE  /\ IsFiniteSet(At(Clients, label)) /\ Cardinality(At(Clients, label)) \in Nat
         /\ IsFiniteSet(At(Workers, label)) /\ Cardinality(At(Workers, label)) \in Nat
<1>1. At(Clients, label) \subseteq Clients /\ At(Workers, label) \subseteq Workers
  BY DEF At
<1> QED
  BY <1>1, ThreadsAssumption, FS_Subset, FS_CardinalityType

\* One element enters or leaves a finite set.
LEMMA CountOneMore ==
  ASSUME NEW S, IsFiniteSet(S), NEW x, x \notin S
  PROVE  Cardinality(S \cup {x}) = Cardinality(S) + 1
BY FS_AddElement

\* A thread that leaves a finite group makes it smaller by one.
LEMMA CountOneLess ==
  ASSUME NEW S, IsFiniteSet(S), NEW x, x \in S
  PROVE  Cardinality(S \ {x}) = Cardinality(S) - 1
BY FS_RemoveElement

\* At first nothing is counted.
LEMMA CounterInit == Init => CounterExact
<1> SUFFICES ASSUME Init PROVE CounterExact
  OBVIOUS
<1>1. Holders = {}
  BY DEF Init, Holders
<1> QED
  BY <1>1, FS_EmptySet DEF Init, CounterExact

\* Every step changes the counter by as many jobs as it makes or destroys.
LEMMA CounterStep == TypeInv /\ CounterExact /\ [Next]_vars => CounterExact'
<1> SUFFICES ASSUME TypeInv, CounterExact, [Next]_vars PROVE CounterExact'
  OBVIOUS
<1>1. IsFiniteSet(Holders) /\ Cardinality(Holders) \in Nat
  BY FiniteThreads, FS_Subset, FS_CardinalityType DEF Holders
<1>2. Len(queue) \in Nat /\ active \in Int
  BY DEF TypeInv, TypeOK
<1>3. ASSUME NEW c \in Clients, NEW j \in Jobs, Post(c, j) PROVE CounterExact'
  <2>1. c \in Threads /\ c \notin Holders /\ Holders' = Holders \cup {c}
    BY <1>3, NoJobAssumption
       DEF Post, TypeInv, TypeOK, Holders, Threads, Holding
  <2> QED
    BY <1>1, <1>2, <1>3, <2>1, CountOneMore DEF Post, CounterExact
<1>4. ASSUME NEW c \in Clients, PutJob(c) PROVE CounterExact'
  <2>1. c \in Holders /\ Holders' = Holders \ {c}
    BY <1>4 DEF PutJob, TypeInv, TypeOK, Holders, Threads, Holding
  <2>2. hand[c] \in Jobs
    BY <1>4 DEF PutJob, TypeInv, TypeOK, Threads, Holding
  <2>3. Len(queue') = Len(queue) + 1
    BY <1>4, <2>2 DEF PutJob, TypeInv, TypeOK
  <2> QED
    <3>1. Cardinality(Holders') = Cardinality(Holders) - 1
      BY <1>1, <2>1, CountOneLess
    <3>2. active' = active
      BY <1>4 DEF PutJob
    <3> QED
      BY <1>1, <1>2, <2>3, <3>1, <3>2 DEF CounterExact
<1>5. ASSUME NEW w \in Workers, GetJob(w) PROVE CounterExact'
  <2>1. Head(queue) \in Jobs /\ Len(queue') = Len(queue) - 1
    BY <1>5 DEF GetJob, TypeInv, TypeOK
  <2>2. w \in Threads /\ w \notin Holders /\ Holders' = Holders \cup {w}
    BY <1>5, <2>1, NoJobAssumption
       DEF GetJob, TypeInv, TypeOK, Holders, Threads, Holding
  <2> QED
    BY <1>1, <1>2, <1>5, <2>1, <2>2, CountOneMore DEF GetJob, CounterExact
<1>6. ASSUME NEW w \in Workers, ReleaseJob(w) PROVE CounterExact'
  <2>1. w \in Holders /\ Holders' = Holders \ {w}
    BY <1>6 DEF ReleaseJob, TypeInv, TypeOK, Holders, Threads, Holding
  <2> QED
    BY <1>1, <1>2, <1>6, <2>1, CountOneLess DEF ReleaseJob, CounterExact
<1>7. ASSUME UNCHANGED <<queue, active, hand>> PROVE CounterExact'
  BY <1>7 DEF CounterExact, Holders
<1> QED
  BY <1>3, <1>4, <1>5, <1>6, <1>7
     DEF Next, PutStep, WorkerStep, DestructorStep, PutWait, NotifyGet, GetWait,
         GetNull, NotifyPut, RunJob, SpuriousWakeup, Close, NotifyAll, JoinAll, vars

\* num_active_jobs is exact in every state.
THEOREM CounterCorrect == Spec => []CounterExact
<1>1. Spec => []TypeInv
  BY PoolInvariant, PTL DEF PoolInv
<1> QED
  BY <1>1, CounterInit, CounterStep, PTL DEF Spec, SafeSpec

\* ~ThreadPool leaves no job queued, owned or counted.
THEOREM Drained == Spec => []DrainedWhenDestroyed
<1>1. PoolInv /\ CounterExact => DrainedWhenDestroyed
  <2> SUFFICES ASSUME PoolInv, CounterExact, owner = "destroyed"
               PROVE  queue = <<>> /\ Holders = {} /\ active = 0
    BY DEF DrainedWhenDestroyed
  <2>1. \A c \in Clients : pc[c] = "idle"
    BY DEF PoolInv, ClosingOrder
  <2>2. \A w \in Workers : pc[w] = "exited"
    BY DEF PoolInv, ClosingOrder
  <2>3. queue = <<>>
    BY <2>2, ThreadsAssumption DEF PoolInv, ClosingOrder
  <2>4. Holders = {}
    BY <2>1, <2>2 DEF PoolInv, TypeInv, Holders, Threads, Holding
  <2> QED
    BY <2>3, <2>4, FS_EmptySet DEF CounterExact
<1> QED
  BY <1>1, PoolInvariant, CounterCorrect, PTL

-----------------------------------------------------------------------------
(* No wakeup is lost.                                                      *)

\* At first no worker sleeps.
LEMMA GetWakeupInit == Init => NoLostGetWakeup
<1> SUFFICES ASSUME Init PROVE NoLostGetWakeup
  OBVIOUS
<1>1. \A w \in Workers : pc[w] = "get"
  BY ThreadsAssumption DEF Init, Threads
<1> QED
  BY <1>1 DEF NoLostGetWakeup, At

\* No step leaves jobs to sleeping workers that nobody is about to wake.
LEMMA GetWakeupStep ==
  TypeInv /\ NoLostGetWakeup /\ [Next]_vars => NoLostGetWakeup'
<1> SUFFICES ASSUME TypeInv, NoLostGetWakeup, [Next]_vars PROVE NoLostGetWakeup'
  OBVIOUS
<1> DEFINE Sending == At(Clients, "notifyGet")
           Looking == At(Workers, "get")
           Asleep  == At(Workers, "waitGet")
<1>1. /\ IsFiniteSet(Sending) /\ Cardinality(Sending) \in Nat
      /\ IsFiniteSet(Looking) /\ Cardinality(Looking) \in Nat
      /\ Len(queue) \in Nat
  BY FiniteGroups DEF TypeInv, TypeOK
<1>2. ASSUME NEW c \in Clients, PutJob(c) PROVE NoLostGetWakeup'
  <2>1. c \notin Sending /\ Sending' = Sending \cup {c}
    BY <1>2 DEF PutJob, TypeInv, TypeOK, Threads, Goto, At
  <2>2. Looking' = Looking /\ Asleep' = Asleep
    BY <1>2, ThreadsAssumption DEF PutJob, TypeInv, TypeOK, Threads, Goto, At
  <2>3. hand[c] \in Jobs
    BY <1>2 DEF PutJob, TypeInv, TypeOK, Threads, Holding
  <2>4. Len(queue') = Len(queue) + 1
    BY <1>2, <2>3 DEF PutJob, TypeInv, TypeOK
  <2>5. Cardinality(Sending') = Cardinality(Sending) + 1
    BY <1>1, <2>1, CountOneMore
  <2> QED
    BY <1>1, <2>2, <2>4, <2>5 DEF NoLostGetWakeup
<1>3. ASSUME NEW c \in Clients, NotifyGet(c) PROVE NoLostGetWakeup'
  <2>1. CASE Asleep = {}
    <3>1. Asleep' = {}
      BY <1>3, <2>1, ThreadsAssumption
         DEF NotifyGet, NotifyOne, TypeInv, TypeOK, Threads, Goto, At
    <3> QED
      BY <3>1 DEF NoLostGetWakeup
  <2>2. CASE Asleep # {}
    <3>1. PICK s \in Asleep : pc' = [pc EXCEPT ![c] = "idle", ![s] = "get"]
      BY <1>3, <2>2 DEF NotifyGet, NotifyOne
    <3>2. s \in Workers /\ pc[s] = "waitGet" /\ s # c /\ pc[c] = "notifyGet"
      BY <1>3, ThreadsAssumption DEF NotifyGet, At
    <3>3. c \in Sending /\ Sending' = Sending \ {c}
      BY <3>1, <3>2, ThreadsAssumption DEF TypeInv, TypeOK, Threads, At
    <3>4. s \notin Looking /\ Looking' = Looking \cup {s}
      BY <3>1, <3>2, ThreadsAssumption DEF TypeInv, TypeOK, Threads, At
    <3>5. /\ Cardinality(Sending') = Cardinality(Sending) - 1
          /\ Cardinality(Looking') = Cardinality(Looking) + 1
      BY <1>1, <3>3, <3>4, CountOneLess, CountOneMore
    <3> QED
      BY <1>1, <1>3, <2>2, <3>5 DEF NoLostGetWakeup, NotifyGet
  <2> QED
    BY <2>1, <2>2
<1>4. ASSUME NEW w \in Workers, GetWait(w) \/ GetNull(w) PROVE NoLostGetWakeup'
  <2>1. Len(queue') = 0
    BY <1>4 DEF GetWait, GetNull
  <2>2. /\ Cardinality(At(Clients, "notifyGet"))' \in Nat
        /\ Cardinality(At(Workers, "get"))' \in Nat
    <3>1. At(Clients, "notifyGet")' \subseteq Clients /\ At(Workers, "get")' \subseteq Workers
      BY DEF At
    <3> QED
      BY <3>1, ThreadsAssumption, FS_Subset, FS_CardinalityType
  <2> QED
    BY <2>1, <2>2 DEF NoLostGetWakeup
<1>5. ASSUME NEW w \in Workers, GetJob(w) PROVE NoLostGetWakeup'
  <2>1. w \in Looking /\ Looking' = Looking \ {w}
    BY <1>5 DEF GetJob, TypeInv, TypeOK, Threads, Goto, At
  <2>2. Sending' = Sending /\ Asleep' = Asleep
    BY <1>5, ThreadsAssumption DEF GetJob, TypeInv, TypeOK, Threads, Goto, At
  <2>3. Len(queue') = Len(queue) - 1
    BY <1>5 DEF GetJob, TypeInv, TypeOK
  <2>4. Cardinality(Looking') = Cardinality(Looking) - 1
    BY <1>1, <2>1, CountOneLess
  <2> QED
    BY <1>1, <2>2, <2>3, <2>4 DEF NoLostGetWakeup
<1>6. ASSUME NEW w \in Workers,
             pc[w] # "get", pc' = [pc EXCEPT ![w] = "get"], UNCHANGED queue
      PROVE  NoLostGetWakeup'
  <2>1. w \notin Looking /\ Looking' = Looking \cup {w}
    BY <1>6 DEF TypeInv, TypeOK, Threads, At
  <2>2. Sending' = Sending /\ Asleep' \subseteq Asleep
    BY <1>6, ThreadsAssumption DEF TypeInv, TypeOK, Threads, At
  <2>3. Cardinality(Looking') = Cardinality(Looking) + 1
    BY <1>1, <2>1, CountOneMore
  <2> QED
    BY <1>1, <1>6, <2>2, <2>3 DEF NoLostGetWakeup
<1>7. CASE NotifyAll
  BY <1>7, ThreadsAssumption DEF NotifyAll, NoLostGetWakeup, Threads, At
<1>8. ASSUME UNCHANGED queue, Sending' = Sending, Looking' = Looking, Asleep' = Asleep
      PROVE  NoLostGetWakeup'
  BY <1>8 DEF NoLostGetWakeup
<1>9. ASSUME NEW c \in Clients, NEW j \in Jobs, Post(c, j) PROVE NoLostGetWakeup'
  BY <1>8, <1>9, ThreadsAssumption DEF Post, TypeInv, TypeOK, Threads, Goto, At
<1>10. ASSUME NEW c \in Clients, PutWait(c) PROVE NoLostGetWakeup'
  BY <1>8, <1>10, ThreadsAssumption DEF PutWait, TypeInv, TypeOK, Threads, Goto, At
<1>11. ASSUME NEW w \in Workers, NotifyPut(w) PROVE NoLostGetWakeup'
  <2>1. UNCHANGED queue /\ Sending' = Sending /\ Looking' = Looking /\ Asleep' = Asleep
    BY <1>11, ThreadsAssumption
       DEF NotifyPut, NotifyOne, TypeInv, TypeOK, Threads, Goto, At
  <2> QED
    BY <1>8, <2>1
<1>12. ASSUME NEW w \in Workers, RunJob(w) PROVE NoLostGetWakeup'
  BY <1>8, <1>12, ThreadsAssumption DEF RunJob, TypeInv, TypeOK, Threads, Goto, At
<1>13. ASSUME NEW w \in Workers, ReleaseJob(w) PROVE NoLostGetWakeup'
  BY <1>6, <1>13 DEF ReleaseJob, Goto
<1>14. ASSUME NEW t \in Threads, SpuriousWakeup(t) PROVE NoLostGetWakeup'
  <2>1. CASE pc[t] = "waitGet"
    <3>1. t \in Workers
      BY <2>1 DEF TypeInv, TypeOK, Threads, ClientPc
    <3> QED
      BY <1>6, <1>14, <2>1, <3>1 DEF SpuriousWakeup, Goto
  <2>2. CASE pc[t] = "waitPut"
    <3>1. t \in Clients
      BY <2>2 DEF TypeInv, TypeOK, Threads, WorkerPc
    <3> QED
      BY <1>8, <1>14, <2>2, <3>1, ThreadsAssumption
         DEF SpuriousWakeup, TypeInv, TypeOK, Threads, Goto, At
  <2> QED
    BY <1>14, <2>1, <2>2 DEF SpuriousWakeup
<1>15. CASE UNCHANGED <<queue, pc>>
  BY <1>8, <1>15 DEF At
<1> QED
  BY <1>2, <1>3, <1>4, <1>5, <1>7, <1>9, <1>10, <1>11, <1>12, <1>13, <1>14, <1>15
     DEF Next, PutStep, WorkerStep, DestructorStep, Close, JoinAll, vars

\* Sleeping workers never miss a queued job.
THEOREM NoWorkMissed == Spec => []NoLostGetWakeup
<1>1. Spec => []TypeInv
  BY PoolInvariant, PTL DEF PoolInv
<1> QED
  BY <1>1, GetWakeupInit, GetWakeupStep, PTL DEF Spec, SafeSpec

\* At first no client sleeps.
LEMMA PutWakeupInit == Init => NoLostPutWakeup
<1> SUFFICES ASSUME Init PROVE NoLostPutWakeup
  OBVIOUS
<1>1. \A c \in Clients : pc[c] = "idle"
  BY DEF Init, Threads
<1> QED
  BY <1>1 DEF NoLostPutWakeup, At

\* No step leaves free slots to sleeping clients that nobody is about to wake.
LEMMA PutWakeupStep ==
  TypeInv /\ ClosingOrder /\ NoLostPutWakeup /\ [Next]_vars => NoLostPutWakeup'
<1> SUFFICES ASSUME TypeInv, ClosingOrder, NoLostPutWakeup, [Next]_vars
             PROVE  NoLostPutWakeup'
  OBVIOUS
<1> DEFINE Sending == At(Workers, "notifyPut")
           Looking == At(Clients, "put")
           Asleep  == At(Clients, "waitPut")
<1>1. /\ IsFiniteSet(Sending) /\ Cardinality(Sending) \in Nat
      /\ IsFiniteSet(Looking) /\ Cardinality(Looking) \in Nat
      /\ Len(queue) \in Nat /\ MaxQueue \in Nat
  BY FiniteGroups, CapacityAssumption DEF TypeInv, TypeOK
<1>2. ASSUME NEW w \in Workers, GetJob(w) PROVE NoLostPutWakeup'
  <2>1. w \notin Sending /\ Sending' = Sending \cup {w}
    BY <1>2 DEF GetJob, TypeInv, TypeOK, Threads, Goto, At
  <2>2. Looking' = Looking /\ Asleep' = Asleep
    BY <1>2, ThreadsAssumption DEF GetJob, TypeInv, TypeOK, Threads, Goto, At
  <2>3. Len(queue') = Len(queue) - 1
    BY <1>2 DEF GetJob, TypeInv, TypeOK
  <2>4. Cardinality(Sending') = Cardinality(Sending) + 1
    BY <1>1, <2>1, CountOneMore
  <2> QED
    BY <1>1, <2>2, <2>3, <2>4 DEF NoLostPutWakeup
<1>3. ASSUME NEW w \in Workers, NotifyPut(w) PROVE NoLostPutWakeup'
  <2>1. CASE Asleep = {}
    <3>1. Asleep' = {}
      BY <1>3, <2>1, ThreadsAssumption
         DEF NotifyPut, NotifyOne, TypeInv, TypeOK, Threads, Goto, At
    <3> QED
      BY <3>1 DEF NoLostPutWakeup
  <2>2. CASE Asleep # {}
    <3>1. PICK s \in Asleep : pc' = [pc EXCEPT ![w] = "run", ![s] = "put"]
      BY <1>3, <2>2 DEF NotifyPut, NotifyOne
    <3>2. s \in Clients /\ pc[s] = "waitPut" /\ s # w /\ pc[w] = "notifyPut"
      BY <1>3, ThreadsAssumption DEF NotifyPut, At
    <3>3. w \in Sending /\ Sending' = Sending \ {w}
      BY <3>1, <3>2, ThreadsAssumption DEF TypeInv, TypeOK, Threads, At
    <3>4. s \notin Looking /\ Looking' = Looking \cup {s}
      BY <3>1, <3>2, ThreadsAssumption DEF TypeInv, TypeOK, Threads, At
    <3>5. /\ Cardinality(Sending') = Cardinality(Sending) - 1
          /\ Cardinality(Looking') = Cardinality(Looking) + 1
      BY <1>1, <3>3, <3>4, CountOneLess, CountOneMore
    <3> QED
      BY <1>1, <1>3, <2>2, <3>5 DEF NoLostPutWakeup, NotifyPut
  <2> QED
    BY <2>1, <2>2
<1>4. ASSUME NEW c \in Clients, PutWait(c) PROVE NoLostPutWakeup'
  <2>1. MaxQueue - Len(queue') <= 0
    BY <1>1, <1>4 DEF PutWait
  <2>2. /\ Cardinality(At(Workers, "notifyPut"))' \in Nat
        /\ Cardinality(At(Clients, "put"))' \in Nat
    <3>1. /\ At(Workers, "notifyPut")' \subseteq Workers
          /\ At(Clients, "put")' \subseteq Clients
      BY DEF At
    <3> QED
      BY <3>1, ThreadsAssumption, FS_Subset, FS_CardinalityType
  <2>3. Len(queue') \in Nat
    BY <1>1, <1>4 DEF PutWait
  <2> QED
    BY <1>1, <2>1, <2>2, <2>3 DEF NoLostPutWakeup
<1>5. ASSUME NEW c \in Clients, PutJob(c) PROVE NoLostPutWakeup'
  <2>1. c \in Looking /\ Looking' = Looking \ {c}
    BY <1>5 DEF PutJob, TypeInv, TypeOK, Threads, Goto, At
  <2>2. Sending' = Sending /\ Asleep' = Asleep
    BY <1>5, ThreadsAssumption DEF PutJob, TypeInv, TypeOK, Threads, Goto, At
  <2>3. hand[c] \in Jobs
    BY <1>5 DEF PutJob, TypeInv, TypeOK, Threads, Holding
  <2>4. Len(queue') = Len(queue) + 1
    BY <1>5, <2>3 DEF PutJob, TypeInv, TypeOK
  <2>5. Cardinality(Looking') = Cardinality(Looking) - 1
    BY <1>1, <2>1, CountOneLess
  <2> QED
    BY <1>1, <2>2, <2>4, <2>5 DEF NoLostPutWakeup
<1>6. ASSUME NEW c \in Clients,
             pc[c] # "put", pc' = [pc EXCEPT ![c] = "put"], UNCHANGED queue
      PROVE  NoLostPutWakeup'
  <2>1. c \notin Looking /\ Looking' = Looking \cup {c}
    BY <1>6 DEF TypeInv, TypeOK, Threads, At
  <2>2. Sending' = Sending /\ Asleep' \subseteq Asleep
    BY <1>6, ThreadsAssumption DEF TypeInv, TypeOK, Threads, At
  <2>3. Cardinality(Looking') = Cardinality(Looking) + 1
    BY <1>1, <2>1, CountOneMore
  <2> QED
    BY <1>1, <1>6, <2>2, <2>3 DEF NoLostPutWakeup
<1>7. CASE NotifyAll
  <2>1. \A c \in Clients : pc'[c] = "idle"
    BY <1>7 DEF NotifyAll, ClosingOrder, Threads
  <2> QED
    BY <2>1 DEF NoLostPutWakeup, At
<1>8. ASSUME UNCHANGED queue, Sending' = Sending, Looking' = Looking, Asleep' = Asleep
      PROVE  NoLostPutWakeup'
  BY <1>8 DEF NoLostPutWakeup
<1>9. ASSUME NEW c \in Clients, NEW j \in Jobs, Post(c, j) PROVE NoLostPutWakeup'
  BY <1>6, <1>9 DEF Post, Goto
<1>10. ASSUME NEW c \in Clients, NotifyGet(c) PROVE NoLostPutWakeup'
  <2>1. UNCHANGED queue /\ Sending' = Sending /\ Looking' = Looking /\ Asleep' = Asleep
    BY <1>10, ThreadsAssumption
       DEF NotifyGet, NotifyOne, TypeInv, TypeOK, Threads, Goto, At
  <2> QED
    BY <1>8, <2>1
<1>11. ASSUME NEW w \in Workers, GetWait(w) \/ GetNull(w) PROVE NoLostPutWakeup'
  BY <1>8, <1>11, ThreadsAssumption
     DEF GetWait, GetNull, TypeInv, TypeOK, Threads, Goto, At
<1>12. ASSUME NEW w \in Workers, RunJob(w) \/ ReleaseJob(w) PROVE NoLostPutWakeup'
  BY <1>8, <1>12, ThreadsAssumption
     DEF RunJob, ReleaseJob, TypeInv, TypeOK, Threads, Goto, At
<1>13. ASSUME NEW t \in Threads, SpuriousWakeup(t) PROVE NoLostPutWakeup'
  <2>1. CASE pc[t] = "waitPut"
    <3>1. t \in Clients
      BY <2>1 DEF TypeInv, TypeOK, Threads, WorkerPc
    <3> QED
      BY <1>6, <1>13, <2>1, <3>1 DEF SpuriousWakeup, Goto
  <2>2. CASE pc[t] = "waitGet"
    <3>1. t \in Workers
      BY <2>2 DEF TypeInv, TypeOK, Threads, ClientPc
    <3> QED
      BY <1>8, <1>13, <2>2, <3>1, ThreadsAssumption
         DEF SpuriousWakeup, TypeInv, TypeOK, Threads, Goto, At
  <2> QED
    BY <1>13, <2>1, <2>2 DEF SpuriousWakeup
<1>14. CASE UNCHANGED <<queue, pc>>
  BY <1>8, <1>14 DEF At
<1> QED
  BY <1>2, <1>3, <1>4, <1>5, <1>7, <1>9, <1>10, <1>11, <1>12, <1>13, <1>14
     DEF Next, PutStep, WorkerStep, DestructorStep, Close, JoinAll, vars

\* Sleeping clients never miss a free slot.
THEOREM NoSlotMissed == Spec => []NoLostPutWakeup
<1>1. Spec => [](TypeInv /\ ClosingOrder)
  BY PoolInvariant, PTL DEF PoolInv
<1> QED
  BY <1>1, PutWakeupInit, PutWakeupStep, PTL DEF Spec, SafeSpec

-----------------------------------------------------------------------------
(* ThreadPool implements JobPool.                                          *)

\* An initial state of the pool is one of the abstract pool.
LEMMA RefinementInit == Init => Pool!Init
<1> SUFFICES ASSUME Init PROVE Pool!Init
  OBVIOUS
<1>1. \A w \in Workers : pc[w] = "get"
  BY ThreadsAssumption DEF Init, Threads
<1>2. Started = [w \in Workers |-> NoJob]
  BY <1>1 DEF Started
<1>3. {j \in Jobs : runs[j] > 0} = {}
  BY DEF Init
<1> QED
  BY <1>2, <1>3 DEF Init, Pool!Init

\* Every step of the pool is a step of the abstract pool or changes nothing
\* there: PutJob accepts, GetJob starts, RunJob finishes, Close and JoinAll
\* close and destroy.
LEMMA RefinementStep ==
  PoolInv /\ [Next]_vars => [Pool!Next]_(Pool!vars)
<1> SUFFICES ASSUME PoolInv, [Next]_vars PROVE [Pool!Next]_(Pool!vars)
  OBVIOUS
<1> USE DEF PoolInv, TypeInv, TypeOK
<1>1. ASSUME Started' = Started, UNCHANGED <<queue, runs, owner>>
      PROVE  UNCHANGED Pool!vars
  BY <1>1 DEF Pool!vars
<1>2. ASSUME NEW c \in Clients, PutJob(c) PROVE Pool!Next
  <2>1. hand[c] \in Jobs /\ runs[hand[c]] = 0 /\ c \in Threads
    BY <1>2 DEF PutJob, Threads, Holding, Ownership
  <2>2. owner = "using"
    BY <1>2 DEF PutJob, ClosingOrder
  <2>3. \A w \in Workers : Started[w] # hand[c]
    BY <1>2, <2>1, ThreadsAssumption, NoJobAssumption
       DEF PutJob, Started, Ownership, Threads
  <2>4. hand[c] \notin Pool!Waiting
    BY <2>1 DEF Pool!Waiting, Ownership
  <2>5. Started' = Started
    BY <1>2, ThreadsAssumption DEF PutJob, Started, Goto, Threads, At
  <2>6. Pool!Accept(hand[c])
    BY <1>2, <2>1, <2>2, <2>3, <2>4, <2>5 DEF PutJob, Pool!Accept
  <2> QED
    BY <2>1, <2>6 DEF Pool!Next
<1>3. ASSUME NEW w \in Workers, GetJob(w) PROVE Pool!Next
  <2>1. Started[w] = NoJob
    BY <1>3 DEF GetJob, Started
  <2>2. Started' = [Started EXCEPT ![w] = Head(queue)]
    BY <1>3, ThreadsAssumption DEF GetJob, Started, Goto, Threads
  <2>3. Pool!Start(w)
    BY <1>3, <2>1, <2>2 DEF GetJob, Pool!Start
  <2> QED
    BY <2>3 DEF Pool!Next
<1>4. ASSUME NEW w \in Workers, RunJob(w) PROVE Pool!Next
  <2>1. hand[w] \in Jobs /\ w \in Threads /\ runs[hand[w]] = 0
    BY <1>4 DEF RunJob, Threads, Holding, Ownership
  <2>2. Started[w] = hand[w] /\ hand[w] # NoJob
    BY <1>4, <2>1, NoJobAssumption DEF RunJob, Started
  <2>3. Started' = [Started EXCEPT ![w] = NoJob]
    BY <1>4, <2>1 DEF RunJob, Started, Goto, Threads
  <2>4. {j \in Jobs : runs[j] > 0}' = {j \in Jobs : runs[j] > 0} \cup {hand[w]}
    BY <1>4, <2>1 DEF RunJob
  <2>5. Pool!Finish(w)
    BY <1>4, <2>2, <2>3, <2>4 DEF RunJob, Pool!Finish
  <2> QED
    BY <2>5 DEF Pool!Next
<1>5. CASE Close
  BY <1>5 DEF Close, Started, At, Pool!Next, Pool!Close
<1>6. CASE JoinAll
  <2>1. \A w \in Workers : pc[w] = "exited"
    BY <1>6 DEF JoinAll, At
  <2>2. queue = <<>>
    BY <2>1, ThreadsAssumption DEF ClosingOrder
  <2>3. Started' = Started /\ \A w \in Workers : Started[w] = NoJob
    BY <1>6, <2>1 DEF JoinAll, Started, At
  <2> QED
    BY <1>6, <2>2, <2>3 DEF JoinAll, Pool!Next, Pool!Destroy
<1>7. CASE NotifyAll
  <2>1. Started' = Started
    BY <1>7, ThreadsAssumption DEF NotifyAll, Started, Threads, At
  <2> QED
    BY <1>7, <2>1 DEF NotifyAll, Pool!vars
<1>8. ASSUME NEW c \in Clients, NEW j \in Jobs, Post(c, j) PROVE UNCHANGED Pool!vars
  <2>1. Started' = Started
    BY <1>8, ThreadsAssumption DEF Post, Started, Goto, Threads, At
  <2> QED
    BY <1>1, <1>8, <2>1 DEF Post
<1>9. ASSUME NEW c \in Clients, PutWait(c) \/ NotifyGet(c) PROVE UNCHANGED Pool!vars
  <2>1. Started' = Started
    BY <1>9, ThreadsAssumption
       DEF PutWait, NotifyGet, NotifyOne, Started, Goto, Threads, At
  <2> QED
    BY <1>1, <1>9, <2>1 DEF PutWait, NotifyGet
<1>10. ASSUME NEW w \in Workers, GetWait(w) \/ GetNull(w) \/ NotifyPut(w)
       PROVE  UNCHANGED Pool!vars
  <2>1. Started' = Started
    BY <1>10, ThreadsAssumption
       DEF GetWait, GetNull, NotifyPut, NotifyOne, Started, Goto, Threads, At
  <2> QED
    BY <1>1, <1>10, <2>1 DEF GetWait, GetNull, NotifyPut
<1>11. ASSUME NEW w \in Workers, ReleaseJob(w) PROVE UNCHANGED Pool!vars
  <2>1. Started' = Started
    BY <1>11, ThreadsAssumption DEF ReleaseJob, Started, Goto, Threads, At
  <2> QED
    BY <1>1, <1>11, <2>1 DEF ReleaseJob
<1>12. ASSUME NEW t \in Threads, SpuriousWakeup(t) PROVE UNCHANGED Pool!vars
  <2>1. Started' = Started
    BY <1>12, ThreadsAssumption DEF SpuriousWakeup, Started, Goto, Threads, At
  <2> QED
    BY <1>1, <1>12, <2>1 DEF SpuriousWakeup
<1>13. CASE UNCHANGED vars
  BY <1>13 DEF vars, Pool!vars, Started, At
<1> QED
  BY <1>2, <1>3, <1>4, <1>5, <1>6, <1>7, <1>8, <1>9, <1>10, <1>11, <1>12, <1>13
     DEF Next, PutStep, WorkerStep, DestructorStep

\* The detailed pool implements the safety part of the abstract pool.
THEOREM Refinement == Spec => Pool!SafeSpec
BY PoolInvariant, RefinementInit, RefinementStep, PTL
   DEF Spec, SafeSpec, Pool!SafeSpec
=============================================================================
