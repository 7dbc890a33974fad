-------------------------- MODULE ReplicaLifecycle --------------------------
(***************************************************************************)
(* Loading and unloading of the model replicas behind CTranslate2's Python *)
(* objects: ReplicaPoolHelper (python/cpp/replica_pool.h) over ReplicaPool,*)
(* ReplicaWorker and BatchJob (include/ctranslate2/replica_pool.h).        *)
(*                                                                         *)
(* Python threads call translate_batch, unload_model and load_model without*)
(* the GIL; a shared mutex protects the model state. The batches run later *)
(* on the worker threads, outside of that mutex. The thread pool appears as*)
(* its abstract specification JobPool, whose actions are conjoined here;   *)
(* its counter of active jobs is kept, because unload_model reads it.      *)
(***************************************************************************)
EXTENDS Integers, Sequences, FiniteSets

CONSTANTS Callers,       \* Python threads
          Workers,       \* worker threads, one replica each
          Jobs,          \* batches translated in a behaviour; bounds the model
          MaxQueue,      \* max_queued_batches
          MaxBatches,    \* most batches of one call
          NoJob,
          NoCaller,
          Asynchronous,  \* values of "asynchronous" the callers use
          CloneMayFail   \* whether copying a model may throw

ASSUME LifecycleAssumption ==
  /\ NoJob \notin Jobs
  /\ NoCaller \notin Callers
  /\ MaxQueue \in Nat \ {0}
  /\ MaxBatches \in Nat \ {0}
  /\ Asynchronous \subseteq BOOLEAN
  /\ CloneMayFail \in BOOLEAN

VARIABLES buffer, running, finished, phase,  \* the thread pool, as in JobPool
          active,      \* ThreadPool::_num_active_jobs
          stage,       \* where each worker is in BatchJob::run
          replica,     \* whether each ReplicaWorker::_replica is set
          outcome,     \* what each batch's promises were set to
          loaded,      \* _model_is_loaded
          cached,      \* whether _cached_models holds the CPU copies
          readers,     \* holders of _mutex in shared mode
          writer,      \* holder of _mutex in exclusive mode
          pc,          \* where each Python thread is
          flag,        \* argument of its call: asynchronous, to_cpu, keep_cache
          batches,     \* the batches of a call, in the order it waits for them
          unset,       \* replicas that load_model has not set yet
          halfway,     \* which call failed half-way and was not made up for
          fault        \* undefined behaviour met, after which nothing is known

Pool == INSTANCE JobPool

workVars == <<buffer, running, finished, phase, active, stage, outcome>>
modelVars == <<replica, loaded, cached, unset, halfway>>
lockVars == <<readers, writer>>
callVars == <<pc, flag, batches>>
vars == <<workVars, modelVars, lockVars, callVars, fault>>

Stages == {"ready", "resolve", "compute", "dangling", "release"}
Labels == {"idle", "lockShared", "post", "put", "await", "checkActive",
           "tryLock", "detach", "cache", "lockExclusive", "load", "set"}
Faults == {"none", "useAfterFree", "nullModel"}

Goto(t, label) == pc' = [pc EXCEPT ![t] = label]

\* Nothing runs any more after undefined behaviour. A call begins with its argument,
\* and goes from one label to the next; the argument is dropped when it returns.
Begin(t, label, arg) ==
  /\ fault = "none" /\ pc[t] = "idle" /\ Goto(t, label)
  /\ flag' = [flag EXCEPT ![t] = arg]

From(t, label, next) ==
  /\ fault = "none" /\ pc[t] = label /\ Goto(t, next)
  /\ flag' = [flag EXCEPT ![t] = next # "idle" /\ @]

InStage(w, s) == fault = "none" /\ stage[w] = s

Call(t, label, arg) ==
  /\ Begin(t, label, arg)
  /\ UNCHANGED <<workVars, modelVars, lockVars, batches, fault>>

Init ==
  /\ Pool!Init
  /\ active = 0
  /\ stage = [w \in Workers |-> "ready"]
  /\ replica = [w \in Workers |-> TRUE]
  /\ outcome = [j \in Jobs |-> "none"]
  /\ loaded = TRUE
  /\ cached = FALSE
  /\ readers = {} /\ writer = NoCaller
  /\ pc = [t \in Callers |-> "idle"]
  /\ flag = [t \in Callers |-> FALSE]
  /\ batches = [t \in Callers |-> <<>>]
  /\ unset = {} /\ halfway = "no"
  /\ fault = "none"

-----------------------------------------------------------------------------
(* What the calls and the workers share.                                   *)

Outcomes == {"none", "value", "error", "noModel"}

Batches(t) == {batches[t][i] : i \in DOMAIN batches[t]}

\* The pool has batch j, or had it.
Posted(j) == j \in Pool!Waiting \cup finished \/ \E w \in Workers : running[w] = j

Unposted(t) == {j \in Batches(t) : ~Posted(j)}

\* No call works on batch j and the pool has not had it.
Fresh(j) == ~Posted(j) /\ \A t \in Callers : j \notin Batches(t)

\* A worker that computes on a replica that is destroyed goes on with its memory.
Destroyed(ws) ==
  [w \in Workers |-> IF w \in ws /\ stage[w] = "compute" THEN "dangling" ELSE stage[w]]

\* The promises of the batch are set and its run() returns.
SetPromises(w, result) ==
  /\ outcome' = [outcome EXCEPT ![running[w]] = result]
  /\ Pool!Finish(w)
  /\ stage' = [stage EXCEPT ![w] = "release"]

-----------------------------------------------------------------------------
(* Faulty variants of actions below, for mutation testing.                 *)

\* translate_batch releases the shared lock before it waits for its results.
PutUnlocked(t) ==
  \E j \in Unposted(t) :
    LET last == Unposted(t) = {j}
    IN /\ From(t, "put", IF ~last THEN "post" ELSE IF flag[t] THEN "idle" ELSE "await")
       /\ Pool!Accept(j)
       /\ readers' = IF last THEN readers \ {t} ELSE readers
       /\ batches' = IF last /\ flag[t] THEN [batches EXCEPT ![t] = <<>>] ELSE batches
       /\ UNCHANGED <<active, stage, outcome, modelVars, writer, fault>>

\* detach_models skips the workers that are busy.
DetachIdleOnly(t) ==
  /\ From(t, "detach", "cache")
  /\ replica' = [w \in Workers |-> replica[w] /\ stage[w] # "ready"]
  /\ UNCHANGED <<workVars, loaded, cached, unset, halfway, lockVars, batches, fault>>

\* The exception of a batch is lost: its promises are never set.
ResolveSilent(w) ==
  /\ InStage(w, "resolve")
  /\ stage' = [stage EXCEPT ![w] = IF replica[w] THEN "compute" ELSE "release"]
  /\ UNCHANGED <<buffer, running, finished, phase, active, outcome,
                 modelVars, lockVars, callVars, fault>>

-----------------------------------------------------------------------------
(* translate_batch and the other computing methods.                        *)

\* The examples of a call make one or more batches.
Translate(t) ==
  \E async \in Asynchronous, n \in 1..MaxBatches : \E s \in [1..n -> Jobs] :
    /\ \A i \in 1..n : Fresh(s[i])
    /\ \A i, k \in 1..n : s[i] = s[k] => i = k
    /\ Begin(t, "lockShared", async)
    /\ batches' = [batches EXCEPT ![t] = s]
    /\ UNCHANGED <<workVars, modelVars, lockVars, fault>>

\* Under the shared lock the method throws when the model is unloaded, which
\* releases the lock.
LockShared(t) ==
  /\ writer = NoCaller
  /\ \/ /\ loaded
        /\ From(t, "lockShared", "post")
        /\ readers' = readers \cup {t}
        /\ UNCHANGED batches
     \/ /\ ~loaded
        /\ From(t, "lockShared", "idle")
        /\ batches' = [batches EXCEPT ![t] = <<>>]
        /\ UNCHANGED readers
  /\ UNCHANGED <<workVars, modelVars, writer, fault>>

\* ThreadPool::post counts the batch before it has a slot in the queue.
Post(t) ==
  /\ From(t, "post", "put")
  /\ active' = active + 1
  /\ UNCHANGED <<buffer, running, finished, phase, stage, outcome,
                 modelVars, lockVars, batches, fault>>

\* The call returns, which releases the shared lock.
Return(t) ==
  /\ readers' = readers \ {t}
  /\ batches' = [batches EXCEPT ![t] = <<>>]

\* The batches are posted in an order of their own (rebatch_input sorts). After the
\* last one an asynchronous call returns.
Put(t) ==
  \E j \in Unposted(t) :
    LET last == Unposted(t) = {j}
    IN /\ From(t, "put", IF ~last THEN "post" ELSE IF flag[t] THEN "idle" ELSE "await")
       /\ Pool!Accept(j)
       /\ IF last /\ flag[t] THEN Return(t) ELSE UNCHANGED <<readers, batches>>
       /\ UNCHANGED <<active, stage, outcome, modelVars, writer, fault>>

\* wait_on_futures blocks a synchronous call under the shared lock, up to the last
\* result or the first exception: then other batches of the call may still be
\* queued or run when it returns.
Await(t) ==
  /\ From(t, "await", "idle")
  /\ \E i \in DOMAIN batches[t] :
       /\ \A k \in 1..(i - 1) : outcome[batches[t][k]] = "value"
       /\ outcome[batches[t][i]] # "none"
       /\ outcome[batches[t][i]] # "value" \/ i = Len(batches[t])
  /\ Return(t)
  /\ UNCHANGED <<workVars, modelVars, writer, fault>>

-----------------------------------------------------------------------------
(* unload_model(to_cpu), on a GPU.                                         *)

Unload(t) == \E toCpu \in BOOLEAN : Call(t, "checkActive", toCpu)

\* The number of active batches is read before the mutex is tried.
CheckActive(t) ==
  /\ From(t, "checkActive", IF active > 0 THEN "idle" ELSE "tryLock")
  /\ UNCHANGED <<workVars, modelVars, lockVars, batches, fault>>

\* try_to_lock may also fail although the mutex is free.
TryLock(t) ==
  /\ \/ /\ readers = {} /\ writer = NoCaller
        /\ From(t, "tryLock", "detach")
        /\ writer' = t
     \/ From(t, "tryLock", "idle") /\ UNCHANGED writer
  /\ UNCHANGED <<workVars, modelVars, readers, batches, fault>>

\* Every replica is destroyed, whatever its worker is doing. The copy to the
\* CPU that follows dereferences every model: without replicas, a null pointer.
Detach(t) ==
  /\ From(t, "detach", "cache")
  /\ IF loaded
     THEN /\ replica' = [w \in Workers |-> FALSE]
          /\ stage' = Destroyed(Workers)
          /\ fault' = IF \A w \in Workers : replica[w] \/ ~flag[t] \/ cached
                      THEN fault ELSE "nullModel"
     ELSE UNCHANGED <<replica, stage, fault>>
  /\ UNCHANGED <<buffer, running, finished, phase, active, outcome,
                 loaded, cached, unset, halfway, lockVars, batches>>

\* The models are copied to the CPU or the copies dropped; then the state is
\* updated and the lock released.
Uncache(t) ==
  /\ From(t, "cache", "idle")
  /\ cached' = (flag[t] /\ (cached \/ loaded))
  /\ loaded' = FALSE
  /\ halfway' = IF loaded THEN "no" ELSE halfway
  /\ writer' = NoCaller
  /\ UNCHANGED <<workVars, replica, unset, readers, batches, fault>>

\* copy_to throws: the lock is released, and the rest of unload_model skipped.
CloneFails(t) ==
  /\ CloneMayFail
  /\ flag[t] /\ ~cached /\ loaded
  /\ From(t, "cache", "idle")
  /\ halfway' = "unload"
  /\ writer' = NoCaller
  /\ UNCHANGED <<workVars, replica, loaded, cached, unset, readers, batches, fault>>

-----------------------------------------------------------------------------
(* load_model(keep_cache).                                                 *)

Load(t) == \E keep \in BOOLEAN : Call(t, "lockExclusive", keep)

\* Nothing is done when the flag is up.
LockExclusive(t) ==
  /\ readers = {} /\ writer = NoCaller
  /\ \/ loaded /\ From(t, "lockExclusive", "idle") /\ UNCHANGED writer
     \/ ~loaded /\ From(t, "lockExclusive", "load") /\ writer' = t
  /\ UNCHANGED <<workVars, modelVars, readers, batches, fault>>

\* Reading the model, or copying it from the CPU, may throw before anything
\* is changed.
ReadModels(t) ==
  /\ \/ From(t, "load", "idle") /\ writer' = NoCaller /\ UNCHANGED unset
     \/ From(t, "load", "set") /\ unset' = Workers /\ UNCHANGED writer
  /\ UNCHANGED <<workVars, replica, loaded, cached, halfway, readers, batches, fault>>

\* set_models gives one worker after the other a new replica, which destroys an old
\* one that an earlier call left there (the order is not important: they are alike).
SetModel(t) ==
  \E w \in unset :
    /\ From(t, "set", "set")
    /\ replica' = [replica EXCEPT ![w] = TRUE]
    /\ stage' = Destroyed({w})
    /\ unset' = unset \ {w}
    /\ UNCHANGED <<buffer, running, finished, phase, active, outcome,
                   loaded, cached, halfway, lockVars, batches, fault>>

\* create_from_model throws: the workers before it keep their new replicas.
SetModelFails(t) ==
  /\ CloneMayFail
  /\ unset # {}
  /\ From(t, "set", "idle")
  /\ unset' = {}
  /\ halfway' = "load"
  /\ writer' = NoCaller
  /\ UNCHANGED <<workVars, replica, loaded, cached, readers, batches, fault>>

FinishLoad(t) ==
  /\ From(t, "set", "idle")
  /\ unset = {}
  /\ cached' = (cached /\ flag[t])
  /\ loaded' = TRUE
  /\ halfway' = "no"
  /\ writer' = NoCaller
  /\ UNCHANGED <<workVars, replica, unset, readers, batches, fault>>

-----------------------------------------------------------------------------
(* The worker threads: BatchJob::run and ~Job.                             *)

StartJob(w) ==
  /\ InStage(w, "ready")
  /\ Pool!Start(w)
  /\ stage' = [stage EXCEPT ![w] = "resolve"]
  /\ UNCHANGED <<active, outcome, modelVars, lockVars, callVars, fault>>

\* get_thread_replica throws without a replica, and the promises get the
\* exception.
Resolve(w) ==
  /\ InStage(w, "resolve")
  /\ IF replica[w]
     THEN /\ stage' = [stage EXCEPT ![w] = "compute"]
          /\ UNCHANGED <<buffer, running, finished, phase, outcome>>
     ELSE SetPromises(w, "noModel")
  /\ UNCHANGED <<active, modelVars, lockVars, callVars, fault>>

\* The computation gives results or throws.
Compute(w) ==
  /\ InStage(w, "compute")
  /\ \E result \in {"value", "error"} : SetPromises(w, result)
  /\ UNCHANGED <<active, modelVars, lockVars, callVars, fault>>

\* It works on the replica it resolved, also when that was destroyed.
ComputeDangling(w) ==
  /\ InStage(w, "dangling")
  /\ fault' = "useAfterFree"
  /\ UNCHANGED <<workVars, modelVars, lockVars, callVars>>

\* The counter is decremented after the results are visible.
ReleaseJob(w) ==
  /\ InStage(w, "release")
  /\ stage' = [stage EXCEPT ![w] = "ready"]
  /\ active' = active - 1
  /\ UNCHANGED <<buffer, running, finished, phase, outcome,
                 modelVars, lockVars, callVars, fault>>

-----------------------------------------------------------------------------
CallStep(t) ==
  \/ LockShared(t) \/ Post(t) \/ Put(t) \/ Await(t)
  \/ CheckActive(t) \/ TryLock(t) \/ Detach(t) \/ Uncache(t) \/ CloneFails(t)
  \/ LockExclusive(t) \/ ReadModels(t) \/ SetModel(t) \/ SetModelFails(t) \/ FinishLoad(t)

WorkerStep(w) ==
  StartJob(w) \/ Resolve(w) \/ Compute(w) \/ ComputeDangling(w) \/ ReleaseJob(w)

Next ==
  \/ \E t \in Callers : Translate(t) \/ Unload(t) \/ Load(t) \/ CallStep(t)
  \/ \E w \in Workers : WorkerStep(w)

Fairness ==
  /\ \A t \in Callers : WF_vars(CallStep(t))
  /\ \A w \in Workers : WF_vars(WorkerStep(w))

Spec == Init /\ [][Next]_vars /\ Fairness

-----------------------------------------------------------------------------
\* Every variable has its type.
TypeOK ==
  /\ active \in Int
  /\ stage \in [Workers -> Stages]
  /\ replica \in [Workers -> BOOLEAN]
  /\ outcome \in [Jobs -> Outcomes]
  /\ loaded \in BOOLEAN /\ cached \in BOOLEAN
  /\ unset \subseteq Workers /\ halfway \in {"no", "load", "unload"}
  /\ readers \subseteq Callers /\ writer \in Callers \cup {NoCaller}
  /\ pc \in [Callers -> Labels]
  /\ flag \in [Callers -> BOOLEAN]
  /\ batches \in [Callers -> Seq(Jobs)]
  /\ fault \in Faults

\* A call keeps the model it was admitted with for as long as it holds the shared
\* lock, a synchronous one until it has all results or an exception: no replica is
\* destroyed under any of its batches, none of them fails for want of one unless
\* an unload_model failed half-way before, and it never gets to wait for a batch it
\* did not post (translate_batch, unload_model, load_model). Its batches that are
\* left when it leaves at an exception, and those of asynchronous calls, have no
\* such protection.
SyncBatchSucceeds ==
  \A t \in Callers : pc[t] \in {"post", "put", "await"} =>
    /\ \A w \in Workers : running[w] \in Batches(t) => stage[w] # "dangling"
    /\ halfway = "no" => \A j \in Batches(t) : outcome[j] # "noModel"
    /\ pc[t] = "await" => \A j \in Batches(t) : Posted(j)

\* Whenever no call is changing the model, the flag says whether the workers have
\* replicas, all of them or none. When a load_model failed half-way the flag is
\* down, whatever replicas it left, until a later load_model succeeds: no
\* unload_model frees them. When an unload_model failed half-way the flag is up and
\* every replica is gone, until a later unload_model succeeds: load_model does
\* nothing.
FlagTellsReplicas ==
  writer = NoCaller =>
    /\ halfway = "no" => \A w \in Workers : replica[w] <=> loaded
    /\ halfway = "load" => ~loaded
    /\ halfway = "unload" => loaded /\ \A w \in Workers : ~replica[w]

\* Every batch that a call handed to the pool gets a result or an exception,
\* also when its model was taken away before it ran (BatchJob::run), and the
\* call returns: it waits under the lock that load_model and unload_model want,
\* and no batch needs that lock.
CallsAnswered ==
  \A j \in Jobs :
    (\E t \in Callers : pc[t] = "put" /\ j \in Batches(t))
      ~> \/ outcome[j] # "none" /\ \A t \in Callers : j \notin Batches(t)
         \/ fault # "none"
=============================================================================
