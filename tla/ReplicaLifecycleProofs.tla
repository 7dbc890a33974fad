----------------------- MODULE ReplicaLifecycleProofs -----------------------
(***************************************************************************)
(* Theorems about ReplicaLifecycle for any number of Python threads,       *)
(* workers, batches and batches of a call, with computations, copies and   *)
(* loads of the model that may fail.                                       *)
(***************************************************************************)
EXTENDS ReplicaLifecycle, TLAPS

(***************************************************************************)
(* The parts of the inductive invariant.                                   *)
(***************************************************************************)
PoolType ==
  /\ buffer \in Seq(Jobs)
  /\ running \in [Workers -> Jobs \cup {NoJob}]
  /\ finished \subseteq Jobs
  /\ \A w \in Workers : running[w] # NoJob <=> stage[w] \in {"resolve", "compute", "dangling"}

\* Where a call holds the mutex in shared and in exclusive mode.
SharedAt == {"post", "put", "await"}
ExclusiveAt == {"detach", "cache", "load", "set"}

\* A model that calls hold is loaded.
LocksHeld ==
  /\ \A t \in Callers : t \in readers <=> pc[t] \in SharedAt
  /\ \A t \in Callers : writer = t <=> pc[t] \in ExclusiveAt
  /\ readers # {} => writer = NoCaller /\ loaded

\* The flag and the replicas, between the calls and in the middle of one.
ReplicasTold ==
  /\ halfway = "load" => ~loaded
  /\ halfway = "unload" => loaded
  /\ (\A t \in Callers : pc[t] \notin {"cache", "set"}) =>
       /\ halfway = "no" => \A w \in Workers : replica[w] <=> loaded
       /\ halfway = "unload" => \A w \in Workers : ~replica[w]
  /\ \A t \in Callers : pc[t] = "cache" =>
       (loaded \/ halfway = "no" => \A w \in Workers : ~replica[w])
  /\ \A t \in Callers : pc[t] \in {"load", "set"} => ~loaded
  /\ \A t \in Callers : pc[t] = "set" => \A w \in Workers \ unset : replica[w]

\* No batch has two calls. Those of a call that was not admitted yet are not in the
\* pool, and those it waits for are.
BatchesOwned ==
  /\ \A t, u \in Callers : \A j \in Batches(t) : j \in Batches(u) => t = u
  /\ \A t \in Callers : pc[t] = "lockShared" => \A j \in Batches(t) : ~Posted(j)
  /\ \A t \in Callers : pc[t] = "await" => \A j \in Batches(t) : Posted(j)
  /\ \A j \in Jobs : outcome[j] # "none" => j \in finished

\* While a call holds the lock its batches keep their replicas.
HeldKept ==
  \A t \in Callers : pc[t] \in SharedAt =>
    /\ \A w \in Workers : running[w] \in Batches(t) => stage[w] # "dangling"
    /\ halfway = "no" => \A j \in Batches(t) : outcome[j] # "noModel"

LifecycleInv ==
  TypeOK /\ PoolType /\ LocksHeld /\ ReplicasTold /\ BatchesOwned /\ HeldKept

\* The invariant holds when the model is loaded and nobody has called a method.
LEMMA LifecycleInit == Init => LifecycleInv
<1> SUFFICES ASSUME Init PROVE LifecycleInv
  OBVIOUS
<1> USE LifecycleAssumption DEF Init, Pool!Init
<1>1. TypeOK
  <2>1. loaded \in BOOLEAN /\ cached \in BOOLEAN
    BY Zenon
  <2>2. replica \in [Workers -> BOOLEAN] /\ flag \in [Callers -> BOOLEAN]
    BY Zenon
  <2>3. /\ active \in Int /\ fault \in Faults
        /\ stage \in [Workers -> Stages]
        /\ outcome \in [Jobs -> Outcomes]
        /\ unset \subseteq Workers /\ halfway \in {"no", "load", "unload"}
        /\ readers \subseteq Callers /\ writer \in Callers \cup {NoCaller}
        /\ pc \in [Callers -> Labels]
        /\ batches \in [Callers -> Seq(Jobs)]
    BY DEF Stages, Labels, Faults, Outcomes
  <2> QED
    BY <2>1, <2>2, <2>3 DEF TypeOK
<1>2. PoolType
  BY DEF PoolType
<1>3. LocksHeld
  BY DEF LocksHeld, SharedAt, ExclusiveAt
<1>4. ReplicasTold
  BY DEF ReplicasTold
<1>5. BatchesOwned /\ HeldKept
  BY DEF BatchesOwned, HeldKept, SharedAt, Batches, Posted, Pool!Waiting
<1> QED
  BY <1>1, <1>2, <1>3, <1>4, <1>5 DEF LifecycleInv

-----------------------------------------------------------------------------
\* A call keeps its batches, or returns and has none.
LEMMA NoBatches ==
  ASSUME TypeOK, NEW t \in Callers,
         batches' = batches \/ batches' = [batches EXCEPT ![t] = <<>>]
  PROVE  batches' \in [Callers -> Seq(Jobs)]
<1>1. <<>> \in Seq(Jobs)
  OBVIOUS
<1> QED
  BY <1>1 DEF TypeOK

\* Every step keeps the types.
LEMMA TypeStep == TypeOK /\ PoolType /\ [Next]_vars => TypeOK'
<1> SUFFICES ASSUME TypeOK, PoolType, [Next]_vars PROVE TypeOK'
  OBVIOUS
<1> USE DEF TypeOK, PoolType, Stages, Labels, Faults, Outcomes, From, Goto, InStage,
            workVars, modelVars, lockVars, callVars
<1>1. ASSUME NEW t \in Callers, Translate(t) PROVE TypeOK'
  <2>1. PICK n \in 1..MaxBatches : \E q \in [1..n -> Jobs] :
          batches' = [batches EXCEPT ![t] = q]
    BY <1>1 DEF Translate
  <2>5. PICK q \in [1..n -> Jobs] : batches' = [batches EXCEPT ![t] = q]
    BY <2>1
  <2>2. q \in Seq(Jobs)
    BY <2>5, LifecycleAssumption
  <2>3. batches' \in [Callers -> Seq(Jobs)]
    BY <2>5, <2>2
  <2>4. /\ UNCHANGED <<workVars, modelVars, lockVars, fault>>
        /\ \E async \in BOOLEAN : Begin(t, "lockShared", async)
    BY <1>1, LifecycleAssumption DEF Translate
  <2> QED
    BY <2>3, <2>4 DEF Begin
<1>2. ASSUME NEW t \in Callers, Unload(t) PROVE TypeOK'
  BY <1>2 DEF Unload, Call, Begin
<1>3. ASSUME NEW t \in Callers, Load(t) PROVE TypeOK'
  BY <1>3 DEF Load, Call, Begin
<1>4. ASSUME NEW t \in Callers, LockShared(t) PROVE TypeOK'
  <2>1. batches' \in [Callers -> Seq(Jobs)]
    <3>1. batches' = batches \/ batches' = [batches EXCEPT ![t] = <<>>]
      BY <1>4 DEF LockShared
    <3> QED
      BY Zenon, <3>1, NoBatches
  <2>2. pc' \in [Callers -> Labels] /\ flag' \in [Callers -> BOOLEAN]
    BY <1>4 DEF LockShared
  <2> QED
    BY <1>4, <2>1, <2>2 DEF LockShared
<1>5. ASSUME NEW t \in Callers, Post(t) PROVE TypeOK'
  BY <1>5 DEF Post
<1>6. ASSUME NEW t \in Callers, Put(t) PROVE TypeOK'
  <2>1. batches' \in [Callers -> Seq(Jobs)] /\ readers' \subseteq Callers
    <3>1. batches' = batches \/ batches' = [batches EXCEPT ![t] = <<>>]
      BY <1>6 DEF Put, Return
    <3>2. readers' \subseteq Callers
      BY <1>6 DEF Put, Return
    <3> QED
      BY Zenon, <3>1, <3>2, NoBatches
  <2>2. pc' \in [Callers -> Labels] /\ flag' \in [Callers -> BOOLEAN]
    BY <1>6 DEF Put
  <2> QED
    BY <1>6, <2>1, <2>2 DEF Put
<1>7. ASSUME NEW t \in Callers, Await(t) PROVE TypeOK'
  BY <1>7 DEF Await, Return
<1>8. ASSUME NEW t \in Callers, CheckActive(t) PROVE TypeOK'
  BY <1>8 DEF CheckActive
<1>9. ASSUME NEW t \in Callers, TryLock(t) PROVE TypeOK'
  BY <1>9 DEF TryLock
<1>10. ASSUME NEW t \in Callers, Detach(t) PROVE TypeOK'
  <2>1. replica' \in [Workers -> BOOLEAN] /\ fault' \in Faults
    BY <1>10 DEF Detach
  <2>2. stage' \in [Workers -> Stages]
    BY <1>10 DEF Detach, Destroyed
  <2> QED
    BY <1>10, <2>1, <2>2 DEF Detach
<1>11. ASSUME NEW t \in Callers, Uncache(t) PROVE TypeOK'
  BY <1>11 DEF Uncache
<1>12. ASSUME NEW t \in Callers, CloneFails(t) PROVE TypeOK'
  BY <1>12 DEF CloneFails
<1>13. ASSUME NEW t \in Callers, LockExclusive(t) PROVE TypeOK'
  BY <1>13 DEF LockExclusive
<1>14. ASSUME NEW t \in Callers, ReadModels(t) PROVE TypeOK'
  BY <1>14 DEF ReadModels
<1>15. ASSUME NEW t \in Callers, SetModel(t) PROVE TypeOK'
  BY <1>15 DEF SetModel, Destroyed
<1>16. ASSUME NEW t \in Callers, SetModelFails(t) PROVE TypeOK'
  BY <1>16 DEF SetModelFails
<1>17. ASSUME NEW t \in Callers, FinishLoad(t) PROVE TypeOK'
  BY <1>17 DEF FinishLoad
<1>18. ASSUME NEW w \in Workers, StartJob(w) PROVE TypeOK'
  BY <1>18 DEF StartJob, Pool!Start
<1>19. ASSUME NEW w \in Workers, Resolve(w) PROVE TypeOK'
  BY <1>19 DEF Resolve, SetPromises, Pool!Finish
<1>20. ASSUME NEW w \in Workers, Compute(w) PROVE TypeOK'
  BY <1>20 DEF Compute, SetPromises, Pool!Finish
<1>21. ASSUME NEW w \in Workers, ComputeDangling(w) PROVE TypeOK'
  BY <1>21 DEF ComputeDangling
<1>22. ASSUME NEW w \in Workers, ReleaseJob(w) PROVE TypeOK'
  BY <1>22 DEF ReleaseJob
<1>23. CASE UNCHANGED vars
  BY <1>23 DEF vars
<1> QED
  BY <1>1, <1>2, <1>3, <1>4, <1>5, <1>6, <1>7, <1>8, <1>9, <1>10, <1>11, <1>12,
     <1>13, <1>14, <1>15, <1>16, <1>17, <1>18, <1>19, <1>20, <1>21, <1>22, <1>23
     DEF Next, CallStep, WorkerStep

\* The holders of the mutex are the calls that are between its lock and its unlock.
LEMMA LocksStep == TypeOK /\ LocksHeld /\ ReplicasTold /\ [Next]_vars => LocksHeld'
<1> SUFFICES ASSUME TypeOK, LocksHeld, ReplicasTold, [Next]_vars PROVE LocksHeld'
  OBVIOUS
<1> USE LifecycleAssumption
        DEF TypeOK, LocksHeld, SharedAt, ExclusiveAt, From, Goto, InStage,
            workVars, modelVars, lockVars, callVars
<1>1. ASSUME NEW t \in Callers, Translate(t) PROVE LocksHeld'
  BY <1>1 DEF Translate, Begin
<1>2. ASSUME NEW t \in Callers, Unload(t) PROVE LocksHeld'
  BY <1>2 DEF Unload, Call, Begin
<1>3. ASSUME NEW t \in Callers, Load(t) PROVE LocksHeld'
  BY <1>3 DEF Load, Call, Begin
<1>4. ASSUME NEW t \in Callers, LockShared(t) PROVE LocksHeld'
  BY <1>4 DEF LockShared
<1>5. ASSUME NEW t \in Callers, Post(t) PROVE LocksHeld'
  BY <1>5 DEF Post
<1>6. ASSUME NEW t \in Callers, Put(t) PROVE LocksHeld'
  BY <1>6 DEF Put, Return
<1>7. ASSUME NEW t \in Callers, Await(t) PROVE LocksHeld'
  BY <1>7 DEF Await, Return
<1>8. ASSUME NEW t \in Callers, CheckActive(t) PROVE LocksHeld'
  BY <1>8 DEF CheckActive
<1>9. ASSUME NEW t \in Callers, TryLock(t) PROVE LocksHeld'
  BY <1>9 DEF TryLock
<1>10. ASSUME NEW t \in Callers, Detach(t) PROVE LocksHeld'
  BY <1>10 DEF Detach, Destroyed
<1>11. ASSUME NEW t \in Callers, Uncache(t) PROVE LocksHeld'
  BY <1>11 DEF Uncache
<1>12. ASSUME NEW t \in Callers, CloneFails(t) PROVE LocksHeld'
  BY <1>12 DEF CloneFails
<1>13. ASSUME NEW t \in Callers, LockExclusive(t) PROVE LocksHeld'
  BY <1>13 DEF LockExclusive
<1>14. ASSUME NEW t \in Callers, ReadModels(t) PROVE LocksHeld'
  BY <1>14 DEF ReadModels
<1>15. ASSUME NEW t \in Callers, SetModel(t) PROVE LocksHeld'
  BY <1>15 DEF SetModel, Destroyed
<1>16. ASSUME NEW t \in Callers, SetModelFails(t) PROVE LocksHeld'
  BY <1>16 DEF SetModelFails
<1>17. ASSUME NEW t \in Callers, FinishLoad(t) PROVE LocksHeld'
  BY <1>17 DEF FinishLoad
<1>18. ASSUME NEW w \in Workers, StartJob(w) PROVE LocksHeld'
  BY <1>18 DEF StartJob, Pool!Start
<1>19. ASSUME NEW w \in Workers, Resolve(w) PROVE LocksHeld'
  BY <1>19 DEF Resolve, SetPromises, Pool!Finish
<1>20. ASSUME NEW w \in Workers, Compute(w) PROVE LocksHeld'
  BY <1>20 DEF Compute, SetPromises, Pool!Finish
<1>21. ASSUME NEW w \in Workers, ComputeDangling(w) PROVE LocksHeld'
  BY <1>21 DEF ComputeDangling
<1>22. ASSUME NEW w \in Workers, ReleaseJob(w) PROVE LocksHeld'
  BY <1>22 DEF ReleaseJob
<1>23. CASE UNCHANGED vars
  BY <1>23 DEF vars
<1> QED
  BY <1>1, <1>2, <1>3, <1>4, <1>5, <1>6, <1>7, <1>8, <1>9, <1>10, <1>11, <1>12,
     <1>13, <1>14, <1>15, <1>16, <1>17, <1>18, <1>19, <1>20, <1>21, <1>22, <1>23
     DEF Next, CallStep, WorkerStep

-----------------------------------------------------------------------------
\* unload_model destroys every replica before it takes the flag down, and
\* load_model puts all of them back before it takes it up.
LEMMA ToldStep ==
  TypeOK /\ LocksHeld /\ ReplicasTold /\ [Next]_vars => ReplicasTold'
<1> SUFFICES ASSUME TypeOK, LocksHeld, ReplicasTold, [Next]_vars PROVE ReplicasTold'
  OBVIOUS
<1> USE LifecycleAssumption
        DEF TypeOK, LocksHeld, SharedAt, ExclusiveAt, ReplicasTold, From, Goto, InStage,
            workVars, modelVars, lockVars, callVars
<1>1. ASSUME NEW t \in Callers, Translate(t) PROVE ReplicasTold'
  BY <1>1 DEF Translate, Begin
<1>2. ASSUME NEW t \in Callers, Unload(t) PROVE ReplicasTold'
  BY <1>2 DEF Unload, Call, Begin
<1>3. ASSUME NEW t \in Callers, Load(t) PROVE ReplicasTold'
  BY <1>3 DEF Load, Call, Begin
<1>4. ASSUME NEW t \in Callers, LockShared(t) PROVE ReplicasTold'
  BY <1>4 DEF LockShared
<1>5. ASSUME NEW t \in Callers, Post(t) PROVE ReplicasTold'
  BY <1>5 DEF Post
<1>6. ASSUME NEW t \in Callers, Put(t) PROVE ReplicasTold'
  BY <1>6 DEF Put, Return
<1>7. ASSUME NEW t \in Callers, Await(t) PROVE ReplicasTold'
  BY <1>7 DEF Await, Return
<1>8. ASSUME NEW t \in Callers, CheckActive(t) PROVE ReplicasTold'
  BY <1>8 DEF CheckActive
<1>9. ASSUME NEW t \in Callers, TryLock(t) PROVE ReplicasTold'
  BY <1>9 DEF TryLock
<1>10. ASSUME NEW t \in Callers, Detach(t) PROVE ReplicasTold'
  BY <1>10 DEF Detach, Destroyed
<1>11. ASSUME NEW t \in Callers, Uncache(t) PROVE ReplicasTold'
  BY <1>11 DEF Uncache
<1>12. ASSUME NEW t \in Callers, CloneFails(t) PROVE ReplicasTold'
  BY <1>12 DEF CloneFails
<1>13. ASSUME NEW t \in Callers, LockExclusive(t) PROVE ReplicasTold'
  BY <1>13 DEF LockExclusive
<1>14. ASSUME NEW t \in Callers, ReadModels(t) PROVE ReplicasTold'
  BY <1>14 DEF ReadModels
<1>15. ASSUME NEW t \in Callers, SetModel(t) PROVE ReplicasTold'
  BY <1>15 DEF SetModel, Destroyed
<1>16. ASSUME NEW t \in Callers, SetModelFails(t) PROVE ReplicasTold'
  BY <1>16 DEF SetModelFails
<1>17. ASSUME NEW t \in Callers, FinishLoad(t) PROVE ReplicasTold'
  BY <1>17 DEF FinishLoad
<1>18. ASSUME NEW w \in Workers, StartJob(w) PROVE ReplicasTold'
  BY <1>18 DEF StartJob, Pool!Start
<1>19. ASSUME NEW w \in Workers, Resolve(w) PROVE ReplicasTold'
  BY <1>19 DEF Resolve, SetPromises, Pool!Finish
<1>20. ASSUME NEW w \in Workers, Compute(w) PROVE ReplicasTold'
  BY <1>20 DEF Compute, SetPromises, Pool!Finish
<1>21. ASSUME NEW w \in Workers, ComputeDangling(w) PROVE ReplicasTold'
  BY <1>21 DEF ComputeDangling
<1>22. ASSUME NEW w \in Workers, ReleaseJob(w) PROVE ReplicasTold'
  BY <1>22 DEF ReleaseJob
<1>23. CASE UNCHANGED vars
  BY <1>23 DEF vars
<1> QED
  BY <1>1, <1>2, <1>3, <1>4, <1>5, <1>6, <1>7, <1>8, <1>9, <1>10, <1>11, <1>12,
     <1>13, <1>14, <1>15, <1>16, <1>17, <1>18, <1>19, <1>20, <1>21, <1>22, <1>23
     DEF Next, CallStep, WorkerStep

-----------------------------------------------------------------------------
(* The batches in the pool.                                                *)

\* Only Put and the workers change the pool and the results.
LEMMA PoolFrame ==
  ASSUME [Next]_vars
  PROVE  \/ UNCHANGED <<buffer, running, finished, outcome>>
         \/ \E t \in Callers : Put(t)
         \/ \E w \in Workers : StartJob(w) \/ Resolve(w) \/ Compute(w)
<1> USE DEF workVars
<1>1. ASSUME NEW t \in Callers, Translate(t) \/ Unload(t) \/ Load(t)
      PROVE  UNCHANGED <<buffer, running, finished, outcome>>
  BY <1>1 DEF Translate, Unload, Load, Call
<1>2. ASSUME NEW t \in Callers,
             \/ LockShared(t) \/ Post(t) \/ Await(t)
             \/ CheckActive(t) \/ TryLock(t) \/ Detach(t) \/ Uncache(t) \/ CloneFails(t)
             \/ LockExclusive(t) \/ ReadModels(t) \/ SetModel(t) \/ SetModelFails(t)
             \/ FinishLoad(t)
      PROVE  UNCHANGED <<buffer, running, finished, outcome>>
  BY <1>2 DEF LockShared, Post, Await, CheckActive, TryLock, Detach, Uncache, CloneFails,
              LockExclusive, ReadModels, SetModel, SetModelFails, FinishLoad
<1>3. ASSUME NEW w \in Workers, ComputeDangling(w) \/ ReleaseJob(w)
      PROVE  UNCHANGED <<buffer, running, finished, outcome>>
  BY <1>3 DEF ComputeDangling, ReleaseJob
<1>4. CASE UNCHANGED vars
  BY <1>4 DEF vars
<1> QED
  BY <1>1, <1>2, <1>3, <1>4 DEF Next, CallStep, WorkerStep

\* What is in the pool's buffer after a batch was put or started.
LEMMA WaitingAppend ==
  ASSUME buffer \in Seq(Jobs), NEW j \in Jobs, buffer' = Append(buffer, j)
  PROVE  buffer' \in Seq(Jobs) /\ Pool!Waiting' = Pool!Waiting \cup {j}
BY DEF Pool!Waiting

\* Taking the first job of the queue leaves the others waiting.
LEMMA WaitingTail ==
  ASSUME buffer \in Seq(Jobs), buffer # <<>>, buffer' = Tail(buffer)
  PROVE  /\ buffer' \in Seq(Jobs) /\ Head(buffer) \in Jobs
         /\ Pool!Waiting = Pool!Waiting' \cup {Head(buffer)}
<1>1. /\ buffer' \in Seq(Jobs) /\ Head(buffer) \in Jobs
      /\ Len(buffer') = Len(buffer) - 1 /\ Head(buffer) = buffer[1]
      /\ \A i \in 1..Len(buffer') : buffer'[i] = buffer[i + 1]
  OBVIOUS
<1>2. \A i \in 1..Len(buffer) : i = 1 \/ buffer[i] = buffer'[i - 1]
  BY <1>1
<1>3. 1 \in 1..Len(buffer)
  OBVIOUS
<1> QED
  BY <1>1, <1>2, <1>3 DEF Pool!Waiting

\* The batches of a call are jobs.
LEMMA BatchesAreJobs == ASSUME TypeOK, NEW t \in Callers PROVE Batches(t) \subseteq Jobs
BY DEF TypeOK, Batches

\* A put adds one batch of the call to the pool.
LEMMA PutPosts ==
  ASSUME TypeOK, PoolType, NEW t \in Callers, Put(t)
  PROVE  /\ buffer' \in Seq(Jobs)
         /\ UNCHANGED <<running, finished, outcome, stage>>
         /\ \E j \in Unposted(t) :
              /\ \A k : Posted(k)' <=> Posted(k) \/ k = j
              /\ pc' = [pc EXCEPT ![t] = IF Unposted(t) # {j} THEN "post"
                                         ELSE IF flag[t] THEN "idle" ELSE "await"]
              /\ IF Unposted(t) = {j} /\ flag[t]
                 THEN batches' = [batches EXCEPT ![t] = <<>>]
                 ELSE batches' = batches
<1>1. PICK j \in Unposted(t) :
        /\ Pool!Accept(j)
        /\ UNCHANGED <<outcome, stage>>
        /\ From(t, "put", IF Unposted(t) # {j} THEN "post" ELSE IF flag[t] THEN "idle" ELSE "await")
        /\ IF Unposted(t) = {j} /\ flag[t] THEN Return(t) ELSE UNCHANGED <<readers, batches>>
  BY DEF Put
<1>2. j \in Jobs
  BY <1>1, BatchesAreJobs DEF Unposted
<1>3. buffer' \in Seq(Jobs) /\ Pool!Waiting' = Pool!Waiting \cup {j}
  BY <1>1, <1>2, WaitingAppend DEF PoolType, Pool!Accept
<1>4. UNCHANGED <<running, finished>>
  BY <1>1 DEF Pool!Accept
<1>5. \A k : Posted(k)' <=> Posted(k) \/ k = j
  BY <1>3, <1>4 DEF Posted
<1> QED
  BY <1>1, <1>3, <1>4, <1>5 DEF From, Goto, Return

\* A worker's step takes no batch out of the pool and puts none into it.
LEMMA WorkersKeepPosted ==
  ASSUME TypeOK, PoolType, NEW w \in Workers, StartJob(w) \/ Resolve(w) \/ Compute(w)
  PROVE  \A k : k # NoJob => (Posted(k)' <=> Posted(k))
<1> USE LifecycleAssumption DEF TypeOK, PoolType, InStage
<1>1. ASSUME StartJob(w) PROVE \A k : k # NoJob => (Posted(k)' <=> Posted(k))
  <2>1. /\ Pool!Waiting = Pool!Waiting' \cup {Head(buffer)}
        /\ running[w] = NoJob
        /\ running' = [running EXCEPT ![w] = Head(buffer)]
        /\ finished' = finished
    BY <1>1, WaitingTail DEF StartJob, Pool!Start
  <2> QED
    BY <2>1 DEF Posted
<1>2. ASSUME NEW result \in Outcomes, SetPromises(w, result)
      PROVE  \A k : k # NoJob => (Posted(k)' <=> Posted(k))
  <2>1. /\ Pool!Waiting' = Pool!Waiting
        /\ running' = [running EXCEPT ![w] = NoJob]
        /\ finished' = finished \cup {running[w]}
    BY <1>2 DEF SetPromises, Pool!Finish, Pool!Waiting
  <2> QED
    BY <2>1 DEF Posted
<1>3. ASSUME UNCHANGED <<buffer, running, finished>>
      PROVE  \A k : k # NoJob => (Posted(k)' <=> Posted(k))
  BY <1>3 DEF Posted, Pool!Waiting
<1>4. \/ StartJob(w)
      \/ \E result \in Outcomes : SetPromises(w, result)
      \/ UNCHANGED <<buffer, running, finished>>
  BY DEF Resolve, Compute, Outcomes
<1> QED
  BY <1>1, <1>2, <1>3, <1>4

\* A step but Put leaves the same batches in the pool.
LEMMA PostedKept ==
  ASSUME TypeOK, PoolType, [Next]_vars, \A t \in Callers : ~Put(t)
  PROVE  \A k \in Jobs : Posted(k)' <=> Posted(k)
<1>1. ASSUME UNCHANGED <<buffer, running, finished, outcome>>
      PROVE  \A k \in Jobs : Posted(k)' <=> Posted(k)
  BY <1>1 DEF Posted, Pool!Waiting
<1>2. ASSUME NEW w \in Workers, StartJob(w) \/ Resolve(w) \/ Compute(w)
      PROVE  \A k \in Jobs : Posted(k)' <=> Posted(k)
  BY <1>2, WorkersKeepPosted, LifecycleAssumption
<1> QED
  BY <1>1, <1>2, PoolFrame

\* Only a replica that is destroyed changes the stage of a worker from outside.
LEMMA StageFrame ==
  ASSUME TypeOK, [Next]_vars
  PROVE  \/ stage' = stage
         \/ \E t \in Callers : Detach(t) \/ SetModel(t)
         \/ \E w \in Workers : StartJob(w) \/ Resolve(w) \/ Compute(w) \/ ReleaseJob(w)
<1> USE DEF workVars
<1>1. ASSUME NEW t \in Callers, Translate(t) \/ Unload(t) \/ Load(t) PROVE stage' = stage
  BY <1>1 DEF Translate, Unload, Load, Call
<1>2. ASSUME NEW t \in Callers,
             \/ LockShared(t) \/ Post(t) \/ Put(t) \/ Await(t)
             \/ CheckActive(t) \/ TryLock(t) \/ Uncache(t) \/ CloneFails(t)
             \/ LockExclusive(t) \/ ReadModels(t) \/ SetModelFails(t) \/ FinishLoad(t)
      PROVE  stage' = stage
  BY <1>2 DEF LockShared, Post, Put, Await, CheckActive, TryLock, Uncache, CloneFails,
              LockExclusive, ReadModels, SetModelFails, FinishLoad
<1>3. ASSUME NEW w \in Workers, ComputeDangling(w) PROVE stage' = stage
  BY <1>3 DEF ComputeDangling
<1>4. CASE UNCHANGED vars
  BY <1>4 DEF vars
<1> QED
  BY <1>1, <1>2, <1>3, <1>4 DEF Next, CallStep, WorkerStep

\* A worker is in the middle of run() exactly while the pool says it is busy.
LEMMA PoolStep == TypeOK /\ PoolType /\ [Next]_vars => PoolType'
<1> SUFFICES ASSUME TypeOK, PoolType, [Next]_vars PROVE PoolType'
  OBVIOUS
<1> USE LifecycleAssumption DEF TypeOK, PoolType, From, InStage, Stages
<1>1. ASSUME NEW t \in Callers, Put(t) PROVE PoolType'
  BY <1>1, PutPosts
<1>2. ASSUME NEW w \in Workers, StartJob(w) PROVE PoolType'
  BY <1>2, WaitingTail DEF StartJob, Pool!Start
<1>3. ASSUME NEW w \in Workers, Resolve(w) PROVE PoolType'
  <2>1. CASE replica[w]
    BY <1>3, <2>1 DEF Resolve
  <2>2. CASE ~replica[w]
    <3>1. /\ running[w] \in Jobs
          /\ running' = [running EXCEPT ![w] = NoJob]
          /\ finished' = finished \cup {running[w]}
          /\ stage' = [stage EXCEPT ![w] = "release"]
          /\ buffer' = buffer
      BY <1>3, <2>2 DEF Resolve, SetPromises, Pool!Finish
    <3> QED
      BY <3>1
  <2> QED
    BY <2>1, <2>2
<1>4. ASSUME NEW w \in Workers, Compute(w) PROVE PoolType'
  BY <1>4 DEF Compute, SetPromises, Pool!Finish
<1>5. ASSUME UNCHANGED <<buffer, running, finished, outcome>> PROVE PoolType'
  <2>1. CASE stage' = stage
    BY <1>5, <2>1
  <2>2. ASSUME NEW t \in Callers, Detach(t) \/ SetModel(t) PROVE PoolType'
    BY <1>5, <2>2 DEF Detach, SetModel, Destroyed
  <2>3. ASSUME NEW w \in Workers, ReleaseJob(w) PROVE PoolType'
    BY <2>3 DEF ReleaseJob
  <2> QED
    BY <1>2, <1>3, <1>4, <2>1, <2>2, <2>3, StageFrame
<1> QED
  BY <1>1, <1>2, <1>3, <1>4, <1>5, PoolFrame

-----------------------------------------------------------------------------
\* A call changes its batches when it begins and ends; it is admitted by LockShared
\* and waits after a put.
LEMMA CallFrame ==
  ASSUME TypeOK, [Next]_vars
  PROVE  \/ /\ batches' = batches
            /\ \A u \in Callers :
                 /\ pc'[u] \in {"lockShared", "await"} => pc'[u] = pc[u]
                 /\ pc'[u] \in SharedAt => pc[u] \in SharedAt
         \/ \E t \in Callers : Translate(t) \/ LockShared(t) \/ Put(t) \/ Await(t)
<1> USE DEF TypeOK, From, Goto, callVars, SharedAt
<1>1. ASSUME NEW t \in Callers, Unload(t) \/ Load(t)
      PROVE  /\ batches' = batches
             /\ \A u \in Callers : pc'[u] = pc[u] \/ pc'[u] \in {"checkActive", "lockExclusive"}
  BY <1>1 DEF Unload, Load, Call, Begin
<1>2. ASSUME NEW t \in Callers, Post(t)
      PROVE  /\ batches' = batches
             /\ \A u \in Callers :
                  /\ pc'[u] \in {"lockShared", "await"} => pc'[u] = pc[u]
                  /\ pc'[u] \in SharedAt => pc[u] \in SharedAt
  BY <1>2 DEF Post
<1>3. ASSUME NEW t \in Callers,
             \/ CheckActive(t) \/ TryLock(t) \/ Detach(t) \/ Uncache(t) \/ CloneFails(t)
             \/ LockExclusive(t) \/ ReadModels(t) \/ SetModel(t) \/ SetModelFails(t)
             \/ FinishLoad(t)
      PROVE  /\ batches' = batches
             /\ \A u \in Callers : pc'[u] \in {"lockShared"} \cup SharedAt => pc'[u] = pc[u]
  BY <1>3 DEF CheckActive, TryLock, Detach, Uncache, CloneFails, LockExclusive, ReadModels,
              SetModel, SetModelFails, FinishLoad
<1>4. ASSUME NEW w \in Workers, WorkerStep(w)
      PROVE  UNCHANGED <<pc, batches>>
  BY <1>4 DEF WorkerStep, StartJob, Resolve, Compute, ComputeDangling, ReleaseJob
<1>5. CASE UNCHANGED vars
  BY <1>5 DEF vars
<1> QED
  BY <1>1, <1>2, <1>3, <1>4, <1>5 DEF Next, CallStep

\* A result is there only when the batch has finished.
LEMMA OutcomeStep ==
  ASSUME TypeOK, PoolType, [Next]_vars, \A j \in Jobs : outcome[j] # "none" => j \in finished
  PROVE  \A j \in Jobs : outcome'[j] # "none" => j \in finished'
<1> USE LifecycleAssumption DEF TypeOK, PoolType, InStage
<1>1. ASSUME NEW t \in Callers, Put(t) PROVE UNCHANGED <<finished, outcome>>
  BY <1>1, PutPosts
<1>2. ASSUME NEW w \in Workers, StartJob(w) PROVE UNCHANGED <<finished, outcome>>
  BY <1>2 DEF StartJob, Pool!Start
<1>3. ASSUME NEW w \in Workers, NEW result, SetPromises(w, result)
      PROVE  \A j \in Jobs : outcome'[j] # "none" => j \in finished'
  BY <1>3 DEF SetPromises, Pool!Finish
<1>4. ASSUME NEW w \in Workers, Resolve(w) \/ Compute(w)
      PROVE  (\E result : SetPromises(w, result)) \/ UNCHANGED <<finished, outcome>>
  BY <1>4 DEF Resolve, Compute
<1> QED
  BY <1>1, <1>2, <1>3, <1>4, PoolFrame

\* A call that drops its batches has none, and the others keep theirs.
LEMMA DroppedBatches ==
  ASSUME TypeOK, NEW t \in Callers, batches' = [batches EXCEPT ![t] = <<>>], NEW u \in Callers
  PROVE  IF u = t THEN Batches(u)' = {} ELSE Batches(u)' = Batches(u)
<1>1. batches'[u] = IF u = t THEN <<>> ELSE batches[u]
  BY DEF TypeOK
<1>2. DOMAIN <<>> = {}
  OBVIOUS
<1> QED
  BY <1>1, <1>2 DEF Batches

\* Every step keeps what BatchesOwned says of the batches and their calls.
LEMMA OwnedStep ==
  TypeOK /\ PoolType /\ BatchesOwned /\ [Next]_vars => BatchesOwned'
<1> SUFFICES ASSUME TypeOK, PoolType, BatchesOwned, [Next]_vars PROVE BatchesOwned'
  OBVIOUS
<1>1. \A j \in Jobs : outcome'[j] # "none" => j \in finished'
  BY OutcomeStep DEF BatchesOwned
<1>2. \A t \in Callers : Batches(t) \subseteq Jobs
  BY BatchesAreJobs
<1>3. ASSUME NEW t \in Callers, Put(t) PROVE BatchesOwned'
  <2>1. PICK j \in Unposted(t) :
          /\ \A k : Posted(k)' <=> Posted(k) \/ k = j
          /\ pc' = [pc EXCEPT ![t] = IF Unposted(t) # {j} THEN "post"
                                     ELSE IF flag[t] THEN "idle" ELSE "await"]
          /\ IF Unposted(t) = {j} /\ flag[t]
             THEN batches' = [batches EXCEPT ![t] = <<>>]
             ELSE batches' = batches
    BY <1>3, PutPosts
  <2>2. \A u \in Callers : Batches(u)' = Batches(u) \/ (u = t /\ Batches(u)' = {})
    <3>1. CASE batches' = batches
      BY <3>1 DEF Batches
    <3>2. CASE batches' = [batches EXCEPT ![t] = <<>>]
      BY <3>2, DroppedBatches
    <3> QED
      BY <2>1, <3>1, <3>2
  <2>3. ASSUME NEW u \in Callers, pc'[u] = "lockShared", NEW k \in Batches(u)' PROVE ~Posted(k)'
    <3>1. u # t /\ pc[u] = "lockShared"
      BY <2>1, <2>3 DEF TypeOK
    <3>2. k \in Batches(u) /\ j \in Batches(t)
      BY <2>1, <2>2, <2>3 DEF Unposted
    <3> QED
      BY <2>1, <3>1, <3>2 DEF BatchesOwned
  <2>4. ASSUME NEW u \in Callers, pc'[u] = "await", NEW k \in Batches(u)' PROVE Posted(k)'
    <3>1. k \in Batches(u)
      BY <2>2, <2>4
    <3>2. CASE u = t
      <4>1. Unposted(t) = {j}
        BY <2>1, <2>4, <3>2 DEF TypeOK
      <4> QED
        BY <2>1, <3>1, <3>2, <4>1 DEF Unposted
    <3>3. CASE u # t
      BY <2>1, <2>4, <3>1, <3>3 DEF BatchesOwned, TypeOK
    <3> QED
      BY <3>2, <3>3
  <2>5. \A u, v \in Callers : \A k \in Batches(u)' : k \in Batches(v)' => u = v
    BY <2>2 DEF BatchesOwned
  <2> QED
    BY <1>1, <2>3, <2>4, <2>5 DEF BatchesOwned
<1>4. ASSUME \A t \in Callers : ~Put(t), NEW t \in Callers, Translate(t) PROVE BatchesOwned'
  <2>1. \A k \in Jobs : Posted(k)' <=> Posted(k)
    BY <1>4, PostedKept
  <2>2. PICK n \in 1..MaxBatches : \E q \in [1..n -> Jobs] :
          /\ \A i \in 1..n : Fresh(q[i])
          /\ batches' = [batches EXCEPT ![t] = q]
    BY <1>4 DEF Translate
  <2>3. PICK q \in [1..n -> Jobs] :
          /\ \A i \in 1..n : Fresh(q[i])
          /\ batches' = [batches EXCEPT ![t] = q]
    BY <2>2
  <2>4. pc' = [pc EXCEPT ![t] = "lockShared"]
    BY <1>4 DEF Translate, Begin, Goto
  <2>5. \A k \in Batches(t)' : k \in Jobs /\ Fresh(k)
    BY <2>3 DEF Batches, TypeOK
  <2>6. \A u \in Callers : u # t => Batches(u)' = Batches(u)
    BY <2>3 DEF Batches, TypeOK
  <2>7. \A u, v \in Callers : \A k \in Batches(u)' : k \in Batches(v)' => u = v
    BY <2>5, <2>6 DEF BatchesOwned, Fresh
  <2>8. \A u \in Callers : pc'[u] = "lockShared" => \A k \in Batches(u)' : ~Posted(k)'
    BY <1>2, <2>1, <2>4, <2>5, <2>6 DEF BatchesOwned, Fresh, TypeOK
  <2>9. \A u \in Callers : pc'[u] = "await" => \A k \in Batches(u)' : Posted(k)'
    BY <1>2, <2>1, <2>4, <2>6 DEF BatchesOwned, TypeOK
  <2> QED
    BY <1>1, <2>7, <2>8, <2>9 DEF BatchesOwned
<1>5. ASSUME \A t \in Callers : ~Put(t),
             \A u \in Callers : Batches(u)' \subseteq Batches(u),
             \A u \in Callers : pc'[u] \in {"lockShared", "await"} => pc'[u] = pc[u]
      PROVE  BatchesOwned'
  <2>1. \A k \in Jobs : Posted(k)' <=> Posted(k)
    BY <1>5, PostedKept
  <2> QED
    BY <1>1, <1>2, <1>5, <2>1 DEF BatchesOwned
<1>6. ASSUME NEW t \in Callers, LockShared(t) \/ Await(t)
      PROVE  /\ \A u \in Callers : Batches(u)' \subseteq Batches(u)
             /\ \A u \in Callers : pc'[u] \in {"lockShared", "await"} => pc'[u] = pc[u]
  <2>1. batches' = batches \/ batches' = [batches EXCEPT ![t] = <<>>]
    BY <1>6 DEF LockShared, Await, Return
  <2>2. \A u \in Callers : Batches(u)' \subseteq Batches(u)
    BY <2>1, DroppedBatches DEF Batches
  <2> QED
    BY <1>6, <2>2 DEF LockShared, Await, From, Goto, TypeOK
<1>7. ASSUME batches' = batches PROVE \A u \in Callers : Batches(u)' \subseteq Batches(u)
  BY <1>7 DEF Batches
<1> QED
  BY <1>3, <1>4, <1>5, <1>6, <1>7, CallFrame

-----------------------------------------------------------------------------
\* While a call holds the lock in shared mode no replica comes or goes; its batches
\* were not in the pool before it put them there.
LEMMA HeldStep == LifecycleInv /\ [Next]_vars => HeldKept'
<1> SUFFICES ASSUME LifecycleInv, [Next]_vars, NEW t \in Callers, pc'[t] \in SharedAt
             PROVE  /\ \A w \in Workers : running'[w] \in Batches(t)' => stage'[w] # "dangling"
                    /\ halfway' = "no" => \A j \in Batches(t)' : outcome'[j] # "noModel"
  BY DEF HeldKept
<1>1. CASE pc[t] \notin SharedAt
  <2>1. LockShared(t)
    <3>1. PICK u \in Callers : Translate(u) \/ LockShared(u) \/ Put(u) \/ Await(u)
      BY <1>1, CallFrame DEF LifecycleInv
    <3>2. u = t /\ ~Translate(t) /\ ~Put(t) /\ ~Await(t)
      BY <1>1, <3>1
         DEF Translate, LockShared, Put, Await, Begin, From, Goto, SharedAt, LifecycleInv, TypeOK
    <3> QED
      BY <3>1, <3>2
  <2>2. /\ UNCHANGED <<buffer, running, finished, stage, outcome, batches>>
        /\ pc[t] = "lockShared"
    BY <1>1, <2>1 DEF LockShared, From, Goto, SharedAt, workVars, LifecycleInv, TypeOK
  <2>3. \A j \in Batches(t) : ~Posted(j) /\ outcome[j] = "none"
    BY <2>2, BatchesAreJobs DEF LifecycleInv, BatchesOwned, Posted
  <2>4. Batches(t)' = Batches(t)
    BY <2>2 DEF Batches
  <2> QED
    BY <2>2, <2>3, <2>4 DEF Posted
<1>2. CASE pc[t] \in SharedAt
  <2>1. Batches(t)' = Batches(t)
    <3>1. ASSUME NEW u \in Callers, Translate(u) \/ LockShared(u) \/ Put(u) \/ Await(u)
          PROVE  batches'[t] = batches[t]
      <4>1. CASE Put(u)
        BY <4>1, PutPosts DEF LifecycleInv, TypeOK, SharedAt
      <4>2. CASE Translate(u) \/ LockShared(u) \/ Await(u)
        BY <1>2, <4>2
           DEF Translate, LockShared, Await, Return, Begin, From, Goto, SharedAt, LifecycleInv, TypeOK
      <4> QED
        BY <3>1, <4>1, <4>2
    <3> QED
      BY <3>1, CallFrame DEF LifecycleInv, Batches
  <2>2. /\ \A u \in Callers : pc[u] \notin ExclusiveAt
        /\ loaded
    <3>1. readers # {} /\ \A u \in Callers : pc[u] \in ExclusiveAt => writer = u
      BY <1>2 DEF LifecycleInv, LocksHeld
    <3>2. writer = NoCaller /\ loaded
      BY <3>1 DEF LifecycleInv, LocksHeld
    <3> QED
      BY <3>1, <3>2, LifecycleAssumption
  <2>3. halfway = "no" => \A w \in Workers : replica[w]
    BY <2>2 DEF LifecycleInv, ReplicasTold, ExclusiveAt
  <2>4. halfway' = halfway
    <3>1. ASSUME NEW u \in Callers PROVE ~Uncache(u) /\ ~CloneFails(u) /\ ~SetModelFails(u) /\ ~FinishLoad(u)
      BY <2>2 DEF Uncache, CloneFails, SetModelFails, FinishLoad, From, ExclusiveAt
    <3>2. ASSUME NEW u \in Callers,
                 \/ Translate(u) \/ Unload(u) \/ Load(u)
                 \/ LockShared(u) \/ Post(u) \/ Put(u) \/ Await(u)
                 \/ CheckActive(u) \/ TryLock(u) \/ Detach(u)
                 \/ LockExclusive(u) \/ ReadModels(u) \/ SetModel(u)
          PROVE  halfway' = halfway
      BY <3>2 DEF Translate, Unload, Load, Call, LockShared, Post, Put, Await, CheckActive,
                  TryLock, Detach, LockExclusive, ReadModels, SetModel, modelVars
    <3>3. ASSUME NEW w \in Workers, WorkerStep(w) PROVE halfway' = halfway
      BY <3>3 DEF WorkerStep, StartJob, Resolve, Compute, ComputeDangling, ReleaseJob, modelVars
    <3>4. CASE UNCHANGED vars
      BY <3>4 DEF vars, modelVars
    <3> QED
      BY <3>1, <3>2, <3>3, <3>4 DEF Next, CallStep
  <2>5. \A u \in Callers : ~Detach(u) /\ ~SetModel(u)
    BY <2>2 DEF Detach, SetModel, From, ExclusiveAt
  <2>6. ASSUME NEW w \in Workers, StartJob(w)
        PROVE  /\ \A v \in Workers : stage'[v] = "dangling" =>
                     stage[v] = "dangling" /\ running'[v] = running[v]
               /\ outcome' = outcome
    BY <2>6 DEF StartJob, Pool!Start, LifecycleInv, TypeOK, PoolType
  <2>7. ASSUME NEW w \in Workers, Resolve(w)
        PROVE  /\ \A v \in Workers : stage'[v] = "dangling" =>
                     stage[v] = "dangling" /\ running'[v] = running[v]
               /\ outcome' = outcome \/ ~replica[w]
    BY <2>7 DEF Resolve, SetPromises, Pool!Finish, InStage, LifecycleInv, TypeOK, PoolType
  <2>8. ASSUME NEW w \in Workers, Compute(w) \/ ReleaseJob(w)
        PROVE  /\ \A v \in Workers : stage'[v] = "dangling" =>
                     stage[v] = "dangling" /\ running'[v] = running[v]
               /\ \A j \in Jobs : outcome'[j] = "noModel" => outcome[j] = "noModel"
    BY <2>8 DEF Compute, ReleaseJob, SetPromises, Pool!Finish, InStage, LifecycleInv, TypeOK, PoolType
  <2>9. ASSUME stage' = stage
        PROVE  \A v \in Workers : running'[v] = running[v] \/ stage[v] # "dangling"
    <3>1. ASSUME NEW w \in Workers, StartJob(w) \/ Resolve(w) \/ Compute(w) PROVE running' = running
      BY <2>9, <3>1 DEF StartJob, Resolve, Compute, SetPromises, InStage, LifecycleInv, TypeOK
    <3>2. ASSUME NEW u \in Callers, Put(u) PROVE running' = running
      BY <3>2, PutPosts DEF LifecycleInv
    <3> QED
      BY <3>1, <3>2, PoolFrame
  <2>10. ASSUME NEW u \in Callers, Put(u) PROVE outcome' = outcome
    BY <2>10, PutPosts DEF LifecycleInv
  <2>11. \A v \in Workers : running'[v] \in Batches(t) => stage'[v] # "dangling"
    <3>1. \A v \in Workers : running[v] \in Batches(t) => stage[v] # "dangling"
      BY <1>2 DEF LifecycleInv, HeldKept
    <3> QED
      BY <2>5, <2>6, <2>7, <2>8, <2>9, <3>1, StageFrame DEF LifecycleInv
  <2>12. halfway = "no" => \A j \in Batches(t) : outcome'[j] # "noModel"
    <3>1. halfway = "no" => \A j \in Batches(t) : outcome[j] # "noModel"
      BY <1>2 DEF LifecycleInv, HeldKept
    <3>2. Batches(t) \subseteq Jobs
      BY BatchesAreJobs DEF LifecycleInv
    <3> QED
      BY <2>3, <2>6, <2>7, <2>8, <2>10, <3>1, <3>2, PoolFrame
  <2> QED
    BY <2>1, <2>4, <2>11, <2>12
<1> QED
  BY <1>1, <1>2

\* The inductive invariant of the calls, the mutex and the replicas.
THEOREM LifecycleCorrect == Spec => []LifecycleInv
<1>1. LifecycleInv /\ [Next]_vars => LifecycleInv'
  BY TypeStep, PoolStep, LocksStep, ToldStep, OwnedStep, HeldStep DEF LifecycleInv
<1> QED
  BY <1>1, LifecycleInit, PTL DEF Spec

-----------------------------------------------------------------------------
\* Every variable keeps its type.
THEOREM TypeCorrect == Spec => []TypeOK
BY LifecycleCorrect, PTL DEF LifecycleInv

\* A call of any number of batches keeps the model it was admitted with for as long
\* as it holds the shared lock, whatever other threads load, unload or fail to load
\* and unload, and whichever computations throw.
THEOREM SyncCallsKeepModel == Spec => []SyncBatchSucceeds
<1>1. LifecycleInv => SyncBatchSucceeds
  BY DEF LifecycleInv, HeldKept, SharedAt, BatchesOwned, SyncBatchSucceeds
<1> QED
  BY <1>1, LifecycleCorrect, PTL

\* Between the calls that change the model the flag says whether there are replicas,
\* and which ones there may be after a load or an unload that failed half-way.
THEOREM FlagIsTold == Spec => []FlagTellsReplicas
<1>1. LifecycleInv => FlagTellsReplicas
  BY LifecycleAssumption
     DEF LifecycleInv, TypeOK, LocksHeld, ExclusiveAt, ReplicasTold, FlagTellsReplicas
<1> QED
  BY <1>1, LifecycleCorrect, PTL
=============================================================================
