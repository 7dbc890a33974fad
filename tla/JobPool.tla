------------------------------ MODULE JobPool ------------------------------
(***************************************************************************)
(* What CTranslate2's ThreadPool promises to the code that posts jobs,     *)
(* without its mutex, its condition variables or its job counter: accepted *)
(* jobs wait in arrival order in a buffer of bounded size, are started in  *)
(* that order by a bounded number of workers, run exactly once, and none   *)
(* is abandoned when the pool is closed and destroyed.                     *)
(*                                                                         *)
(* ThreadPool implements this specification (ThreadPool!ImplementsJobPool).*)
(***************************************************************************)
EXTENDS Naturals, Sequences

CONSTANTS Jobs,        \* every job that may ever be posted
          Workers,     \* the worker threads
          MaxQueue,    \* capacity of the buffer
          NoJob        \* what an idle worker is running

VARIABLES buffer,      \* accepted jobs that have not started, oldest first
          running,     \* the job each worker is executing, or NoJob
          finished,    \* jobs whose run() has returned
          phase        \* "open", then "closed", then "destroyed"

vars == <<buffer, running, finished, phase>>

Waiting == {buffer[i] : i \in 1..Len(buffer)}

Init ==
  /\ buffer = <<>>
  /\ running = [w \in Workers |-> NoJob]
  /\ finished = {}
  /\ phase = "open"

\* A job enters the buffer once, while there is room and the pool is open.
Accept(j) ==
  /\ phase = "open"
  /\ j \notin Waiting \cup finished
  /\ \A w \in Workers : running[w] # j
  /\ Len(buffer) < MaxQueue
  /\ buffer' = Append(buffer, j)
  /\ UNCHANGED <<running, finished, phase>>

\* The oldest job starts on an idle worker.
Start(w) ==
  /\ buffer # <<>>
  /\ running[w] = NoJob
  /\ buffer' = Tail(buffer)
  /\ running' = [running EXCEPT ![w] = Head(buffer)]
  /\ UNCHANGED <<finished, phase>>

Finish(w) ==
  /\ running[w] # NoJob
  /\ running' = [running EXCEPT ![w] = NoJob]
  /\ finished' = finished \cup {running[w]}
  /\ UNCHANGED <<buffer, phase>>

Close ==
  /\ phase = "open"
  /\ phase' = "closed"
  /\ UNCHANGED <<buffer, running, finished>>

\* The pool disappears only after everything it accepted has run.
Destroy ==
  /\ phase = "closed"
  /\ buffer = <<>>
  /\ \A w \in Workers : running[w] = NoJob
  /\ phase' = "destroyed"
  /\ UNCHANGED <<buffer, running, finished>>

Next ==
  \/ \E j \in Jobs : Accept(j)
  \/ \E w \in Workers : Start(w) \/ Finish(w)
  \/ Close
  \/ Destroy

Fairness ==
  /\ WF_vars(\E w \in Workers : Start(w))
  /\ \A w \in Workers : WF_vars(Finish(w))
  /\ WF_vars(Destroy)

SafeSpec == Init /\ [][Next]_vars

Spec == SafeSpec /\ Fairness
============================================================================
