-------------------------- MODULE TokenStreamProofs --------------------------
(***************************************************************************)
(* Theorems about TokenStream for any batches, lengths and number of       *)
(* workers.                                                                *)
(***************************************************************************)
EXTENDS TokenStream, Integers, SequenceTheorems, FiniteSetTheorems, TLAPS

StreamType ==
  /\ callback \in [Jobs -> Entries \cup {NoEntry}]
  /\ late \in [Entries -> Nat]
  /\ closed \in BOOLEAN

\* The token an entry put after the generator was closed is the one whose
\* callback stops the entry.
LateEnds ==
  \A e \in Entries :
    /\ late[e] <= 1
    /\ late[e] = 1 => closed /\ (callback[JobOf(e)] = e \/ e \in ended)

StreamInv == StreamType /\ LateEnds

\* Every entry has its batch.
LEMMA JobType == ASSUME NEW e \in Entries PROVE JobOf(e) \in Jobs /\ e # NoEntry
<1>1. PICK j \in DOMAIN Batches : e \in Batches[j]
  BY DEF Entries, ToSet
<1>2. e # NoEntry
  <2>1. e \in 1..Cardinality(Entries)
    BY StreamAssumption
  <2> QED
    BY <2>1 DEF NoEntry
<1> QED
  BY <1>1, <1>2 DEF JobOf, Jobs

\* The invariant holds before a token is made.
LEMMA StreamInit == Init => StreamInv
<1> SUFFICES ASSUME Init PROVE StreamInv
  OBVIOUS
<1>1. /\ callback = [j \in Jobs |-> NoEntry]
      /\ late = [e \in Entries |-> 0]
      /\ closed = FALSE
  BY DEF Init
<1>2. closed \in BOOLEAN
  BY <1>1, Zenon
<1>3. \A e \in Entries : late[e] = 0
  BY <1>1
<1>4. callback \in [Jobs -> Entries \cup {NoEntry}] /\ late \in [Entries -> Nat]
  BY <1>1
<1> QED
  BY <1>2, <1>3, <1>4 DEF StreamInv, StreamType, LateEnds

\* A token put after the generator was closed is the first such token of its entry.
LEMMA PutStep ==
  ASSUME StreamInv, NEW e \in Entries, PutToken(e)
  PROVE  StreamInv'
<1> USE DEF StreamInv, StreamType, LateEnds
<1>1. /\ callback[JobOf(e)] = NoEntry /\ e \notin ended
      /\ late' = [late EXCEPT ![e] = IF closed THEN @ + 1 ELSE @]
      /\ callback' = [callback EXCEPT ![JobOf(e)] = e]
      /\ UNCHANGED <<ended, closed>>
  BY DEF PutToken
<1>2. late[e] = 0
  BY <1>1, JobType
<1>3. ASSUME NEW f \in Entries
      PROVE  /\ late'[f] <= 1
             /\ late'[f] = 1 => closed /\ (callback'[JobOf(f)] = f \/ f \in ended)
  <2>1. CASE f = e
    BY <1>1, <1>2, <2>1, JobType
  <2>2. CASE f # e
    <3>1. late'[f] = late[f] /\ f # NoEntry /\ JobOf(f) \in Jobs
      BY <1>1, <2>2, JobType
    <3>2. callback[JobOf(f)] = f => callback'[JobOf(f)] = f
      BY <1>1, <3>1
    <3> QED
      BY <3>1, <3>2
  <2> QED
    BY <2>1, <2>2
<1>4. StreamType'
  BY <1>1, JobType
<1> QED
  BY <1>1, <1>3, <1>4

\* A callback that returns after the close ends its entry.
LEMMA ReturnStep ==
  ASSUME StreamInv, NEW e \in Entries, NEW userResult \in BOOLEAN, ReturnCallback(e, userResult)
  PROVE  StreamInv'
<1> USE DEF StreamInv, StreamType, LateEnds
<1>1. /\ callback[JobOf(e)] = e
      /\ callback' = [callback EXCEPT ![JobOf(e)] = NoEntry]
      /\ ended' = ended \cup {e} \/ ended' = ended
      /\ closed => ended' = ended \cup {e}
      /\ UNCHANGED <<late, closed>>
  BY DEF ReturnCallback, Stopped
<1>2. ASSUME NEW f \in Entries, late[f] = 1
      PROVE  callback'[JobOf(f)] = f \/ f \in ended'
  BY <1>1, <1>2, JobType
<1>3. StreamType'
  BY <1>1, JobType
<1> QED
  BY <1>1, <1>2, <1>3

\* Every step of the workers, the threads and the user keeps the invariant.
LEMMA StreamStep == StreamInv /\ [Next]_vars => StreamInv'
<1> SUFFICES ASSUME StreamInv, [Next]_vars PROVE StreamInv'
  OBVIOUS
<1>1. CASE UNCHANGED <<callback, late, ended>> /\ (closed' = closed \/ closed' = TRUE)
  BY <1>1 DEF StreamInv, StreamType, LateEnds
<1>2. CASE \E e \in Entries : PutToken(e) \/ \E stop \in BOOLEAN : ReturnCallback(e, stop)
  BY <1>2, PutStep, ReturnStep
<1>3. CASE \E j \in Jobs : StartJob(j) \/ FinishJob(j) \/ FailJob(j)
  BY <1>1, <1>3 DEF StartJob, FinishJob, FailJob
<1>4. CASE Catcher
  BY <1>1, <1>4 DEF Catcher, CatchResult, CatchException, PutNone, work
<1>5. CASE Generator \/ Resume \/ CloseGenerator
  BY <1>1, <1>5 DEF Generator, GetToken, GetNone, GetException, Join, Resume, CloseGenerator, work
<1>6. CASE CallNext \/ AnswerNext \/ CancelNext \/ AbandonNext
  BY <1>1, <1>6 DEF CallNext, AnswerNext, CancelNext, AbandonNext, work
<1>7. CASE UNCHANGED vars
  BY <1>1, <1>7 DEF vars, work
<1> QED
  BY <1>2, <1>3, <1>4, <1>5, <1>6, <1>7 DEF Next, Worker, Loop, User

\* However many batches run when the user closes the generator, no entry of any
\* of them is decoded for more than one further token.
THEOREM ClosingStopsEntries == Spec => []StopsAfterClose
<1>1. Spec => []StreamInv
  BY StreamInit, StreamStep, PTL DEF Spec
<1>2. StreamInv => StopsAfterClose
  BY DEF StreamInv, LateEnds, StopsAfterClose
<1> QED
  BY <1>1, <1>2, PTL

-----------------------------------------------------------------------------
(* Sequences: what moves between the queues stays in its place. *)

LEMMA ConcatAppend ==
  ASSUME NEW T, NEW s \in Seq(T), NEW t \in Seq(T), NEW x \in T
  PROVE  s \o Append(t, x) = Append(s \o t, x)
<1>1. s \o t \in Seq(T) /\ Append(t, x) \in Seq(T)
  BY ConcatProperties, AppendProperties
<1>2. s \o Append(t, x) \in Seq(T) /\ Append(s \o t, x) \in Seq(T)
  BY <1>1, ConcatProperties, AppendProperties
<1>3. Len(s \o Append(t, x)) = Len(Append(s \o t, x))
  BY <1>1, ConcatProperties, AppendProperties
<1>4. ASSUME NEW i \in 1..Len(s \o Append(t, x))
      PROVE  (s \o Append(t, x))[i] = Append(s \o t, x)[i]
  <2>1. Len(s) \in Nat /\ Len(t) \in Nat /\ Len(s \o Append(t, x)) = Len(s) + Len(t) + 1
    BY <1>1, ConcatProperties, AppendProperties
  <2>2. CASE i <= Len(s)
    BY <1>1, <2>1, <2>2, ConcatProperties, AppendProperties
  <2>3. CASE i > Len(s) /\ i <= Len(s) + Len(t)
    <3>1. (s \o Append(t, x))[i] = Append(t, x)[i - Len(s)]
      BY <1>1, <2>1, <2>3, ConcatProperties, AppendProperties
    <3>2. Append(t, x)[i - Len(s)] = t[i - Len(s)]
      BY <2>1, <2>3, AppendProperties
    <3>3. Append(s \o t, x)[i] = (s \o t)[i] /\ (s \o t)[i] = t[i - Len(s)]
      BY <1>1, <2>1, <2>3, ConcatProperties, AppendProperties
    <3> QED
      BY <3>1, <3>2, <3>3
  <2>4. CASE i = Len(s) + Len(t) + 1
    BY <1>1, <2>1, <2>4, ConcatProperties, AppendProperties
  <2> QED
    BY <2>1, <2>2, <2>3, <2>4
<1> QED
  BY <1>2, <1>3, <1>4, SeqEqual

LEMMA MoveHead ==
  ASSUME NEW T, NEW s \in Seq(T), NEW t \in Seq(T), t # <<>>
  PROVE  s \o t = Append(s, Head(t)) \o Tail(t)
<1>1. Head(t) \in T /\ Tail(t) \in Seq(T) /\ Head(t) = t[1]
  BY HeadTailProperties
<1>2. Append(s, Head(t)) \in Seq(T)
  BY <1>1, AppendProperties
<1>3. s \o t \in Seq(T) /\ Append(s, Head(t)) \o Tail(t) \in Seq(T)
  BY <1>1, <1>2, ConcatProperties
<1>4. Len(s \o t) = Len(s) + Len(t) /\ Len(Append(s, Head(t)) \o Tail(t)) = Len(s) + Len(t)
  BY <1>1, <1>2, ConcatProperties, AppendProperties, HeadTailProperties
<1>5. ASSUME NEW i \in 1..Len(s \o t)
      PROVE  (s \o t)[i] = (Append(s, Head(t)) \o Tail(t))[i]
  <2>1. Len(s) \in Nat /\ Len(t) \in Nat /\ Len(t) >= 1
    BY EmptySeq
  <2>2. CASE i <= Len(s)
    BY <1>1, <1>2, <1>4, <2>1, <2>2, ConcatProperties, AppendProperties, HeadTailProperties
  <2>3. CASE i = Len(s) + 1
    BY <1>1, <1>2, <1>4, <2>1, <2>3, ConcatProperties, AppendProperties, HeadTailProperties
  <2>4. CASE i > Len(s) + 1
    BY <1>1, <1>2, <1>4, <2>1, <2>4, ConcatProperties, AppendProperties, HeadTailProperties
  <2> QED
    BY <1>4, <2>1, <2>2, <2>3, <2>4
<1> QED
  BY <1>3, <1>4, <1>5, SeqEqual

-----------------------------------------------------------------------------
(* The tokens of an entry in a sequence. *)

Tokens == (Entries \cup {NoEntry}) \X Nat

LEMMA AppendToSet ==
  ASSUME NEW T, NEW s \in Seq(T), NEW x \in T
  PROVE  ToSet(Append(s, x)) = ToSet(s) \cup {x}
<1>1. Append(s, x) \in Seq(T) /\ Len(Append(s, x)) = Len(s) + 1
  BY AppendProperties
<1>2. Append(s, x)[Len(s) + 1] = x /\ \A i \in 1..Len(s) : Append(s, x)[i] = s[i]
  BY AppendProperties
<1>3. DOMAIN s = 1..Len(s) /\ DOMAIN Append(s, x) = 1..(Len(s) + 1) /\ Len(s) \in Nat
  BY <1>1, LenProperties
<1> QED
  BY <1>2, <1>3 DEF ToSet

\* What is not a token of the entry changes nothing.
LEMMA NumberedOther ==
  ASSUME NEW s \in Seq(Tokens), NEW x \in Tokens, NEW e, NEW count \in Nat, x[1] # e
  PROVE  Numbered(Append(s, x), e, count) <=> Numbered(s, e, count)
<1>1. Append(s, x) \in Seq(Tokens) /\ Len(Append(s, x)) = Len(s) + 1
  BY AppendProperties
<1>2. Append(s, x)[Len(s) + 1] = x /\ \A i \in 1..Len(s) : Append(s, x)[i] = s[i]
  BY AppendProperties
<1>3. DOMAIN s = 1..Len(s) /\ DOMAIN Append(s, x) = 1..(Len(s) + 1) /\ Len(s) \in Nat
  BY <1>1, LenProperties
<1>4. {token \in ToSet(Append(s, x)) : token[1] = e} = {token \in ToSet(s) : token[1] = e}
  BY AppendToSet
<1>5. ASSUME NEW i \in DOMAIN Append(s, x), Append(s, x)[i][1] = e
      PROVE  i \in DOMAIN s /\ Append(s, x)[i] = s[i]
  BY <1>2, <1>3, <1>5
<1>6. \A i \in DOMAIN s : i \in DOMAIN Append(s, x) /\ Append(s, x)[i] = s[i]
  BY <1>2, <1>3
<1> QED
  BY <1>4, <1>5, <1>6 DEF Numbered

\* The next token of the entry extends its row.
LEMMA NumberedNext ==
  ASSUME NEW s \in Seq(Tokens), NEW e \in Entries, NEW count \in Nat, Numbered(s, e, count)
  PROVE  Numbered(Append(s, Token(e, count + 1)), e, count + 1)
<1> DEFINE x == Token(e, count + 1)
           t == Append(s, x)
<1>0. x \in Tokens /\ x[1] = e /\ x[2] = count + 1
  BY DEF Token, Tokens
<1> HIDE DEF x
<1>1. t \in Seq(Tokens) /\ Len(t) = Len(s) + 1
  BY <1>0, AppendProperties
<1>2. t[Len(s) + 1] = x /\ \A i \in 1..Len(s) : t[i] = s[i]
  BY <1>0, AppendProperties
<1>3. DOMAIN s = 1..Len(s) /\ DOMAIN t = 1..(Len(s) + 1) /\ Len(s) \in Nat
  BY <1>1, LenProperties
<1>4. {token \in ToSet(t) : token[1] = e} = {token \in ToSet(s) : token[1] = e} \cup {x}
  BY <1>0, AppendToSet
<1>5. {token \in ToSet(s) : token[1] = e} = {Token(e, n) : n \in 1..count}
  BY DEF Numbered
<1>6. 1..(count + 1) = 1..count \cup {count + 1}
  OBVIOUS
<1>7. {Token(e, n) : n \in 1..(count + 1)} = {Token(e, n) : n \in 1..count} \cup {x}
  BY <1>6 DEF x
<1>8. \A i \in DOMAIN s : s[i][1] = e => s[i][2] <= count
  <2> SUFFICES ASSUME NEW i \in DOMAIN s, s[i][1] = e PROVE s[i][2] <= count
    OBVIOUS
  <2>1. s[i] \in {token \in ToSet(s) : token[1] = e}
    BY DEF ToSet
  <2>2. PICK n \in 1..count : s[i] = Token(e, n)
    BY <1>5, <2>1
  <2> QED
    BY <2>2 DEF Token
<1> HIDE DEF t
<1>9. ASSUME NEW i \in DOMAIN t, NEW k \in DOMAIN t, i < k, t[i][1] = e, t[k][1] = e
      PROVE  t[i][2] < t[k][2]
  <2>1. i \in DOMAIN s /\ t[i] = s[i]
    BY <1>2, <1>3, <1>9
  <2>2. CASE k \in DOMAIN s
    <3>1. t[k] = s[k]
      BY <1>2, <1>3, <2>2
    <3> QED
      BY <1>9, <2>1, <2>2, <3>1 DEF Numbered
  <2>3. CASE k = Len(s) + 1
    <3>1. t[k][2] = count + 1 /\ t[i][2] <= count
      BY <1>0, <1>2, <1>8, <1>9, <2>1, <2>3
    <3>2. t[i] \in Tokens
      BY <1>1
    <3>3. t[i][2] \in Nat
      BY <3>2 DEF Tokens
    <3> QED
      BY <3>1, <3>3
  <2> QED
    BY <1>3, <2>2, <2>3
<1>10. Numbered(t, e, count + 1)
  BY <1>4, <1>5, <1>7, <1>9 DEF Numbered
<1> QED
  BY <1>10 DEF t, x

-----------------------------------------------------------------------------
(* Nothing is lost between the workers and the user. *)

NumEntries == Cardinality(Entries)
All == received \o items \o queue
Alive == pc \in {"get", "yield"}
Complete == pc \in {"join", "returned"} /\ ~closed

QueueType ==
  /\ mode \in {"sync", "async"}
  /\ made \in [Entries -> Nat]
  /\ job \in [Jobs -> {"queued", "running", "done", "failed"}]
  /\ queue \in Seq(Tokens) /\ items \in Seq(Tokens) /\ received \in Seq(Tokens)
  /\ caught \in Nat /\ caught <= NumEntries

\* The results that were got are there; once all are, the thread goes on, and
\* earlier only after it has put an exception.
ResultsCaught ==
  /\ \A e \in 1..caught : job[JobOf(e)] = "done"
  /\ catcher = "waiting" => caught < NumEntries
  /\ catcher # "waiting" /\ Alive =>
       caught = NumEntries \/ \E i \in DOMAIN queue : queue[i] = Exception

\* What comes after None: nothing, unless an exception comes before it.
NoneIsLast ==
  /\ \A i \in DOMAIN queue : queue[i] = None =>
       /\ catcher = "finished"
       /\ Alive => \/ caught = NumEntries /\ i = Len(queue)
                   \/ \E k \in DOMAIN queue : k < i /\ queue[k] = Exception
  /\ mode = "sync" => items = <<>>
  /\ \A i \in DOMAIN items : items[i] = None => i = Len(items) /\ pc = "returned"
  /\ Complete => queue = <<>> /\ caught = NumEntries /\ catcher = "finished"

TokensInOrder == Alive \/ Complete => \A e \in Entries : Numbered(All, e, made[e])

OrderInv == QueueType /\ ResultsCaught /\ NoneIsLast /\ TokensInOrder

LEMMA EntriesType == NumEntries \in Nat /\ Entries = 1..NumEntries /\ NoEntry \notin Entries
<1>1. NumEntries \in Nat
  BY StreamAssumption, FS_CardinalityType DEF NumEntries
<1> QED
  BY <1>1, StreamAssumption DEF NumEntries, NoEntry

LEMMA MarksType ==
  /\ None \in Tokens /\ None[1] = NoEntry
  /\ Exception \in Tokens /\ Exception[1] = NoEntry /\ Exception # None
BY DEF None, Exception, Tokens

LEMMA AllType == ASSUME QueueType PROVE All \in Seq(Tokens) /\ received \o items \in Seq(Tokens)
BY ConcatProperties DEF QueueType, All

LEMMA OrderInit == Init => OrderInv
<1> SUFFICES ASSUME Init PROVE OrderInv
  OBVIOUS
<1>1. /\ queue = <<>> /\ items = <<>> /\ received = <<>> /\ caught = 0
      /\ job = [j \in Jobs |-> "queued"] /\ made = [e \in Entries |-> 0]
      /\ mode \in {"sync", "async"}
      /\ pc = "get" /\ catcher = IF Entries = {} THEN "ending" ELSE "waiting"
  BY DEF Init
<1>2. <<>> \in Seq(Tokens) /\ <<>> \o <<>> = <<>> /\ DOMAIN <<>> = {}
  BY EmptySeq, ConcatEmptySeq
<1>3. QueueType
  BY <1>1, <1>2, EntriesType DEF QueueType
<1>4. ResultsCaught
  <2>1. 1..caught = {}
    BY <1>1
  <2>2. catcher = "waiting" => caught < NumEntries
    BY <1>1, EntriesType
  <2>3. catcher # "waiting" => caught = NumEntries
    BY <1>1, EntriesType, FS_EmptySet DEF NumEntries
  <2> QED
    BY <2>1, <2>2, <2>3 DEF ResultsCaught
<1>5. NoneIsLast
  BY <1>1, <1>2 DEF NoneIsLast, Complete
<1>6. ASSUME NEW e \in Entries PROVE Numbered(All, e, made[e])
  <2>1. All = <<>> /\ made[e] = 0
    BY <1>1, <1>2 DEF All
  <2>2. ToSet(All) = {}
    BY <1>2, <2>1 DEF ToSet
  <2>3. {Token(e, n) : n \in 1..0} = {}
    OBVIOUS
  <2> QED
    BY <1>2, <2>1, <2>2, <2>3 DEF Numbered
<1> QED
  BY <1>3, <1>4, <1>5, <1>6 DEF OrderInv, TokensInOrder

\* A mark or a token at the end of step_results is at the end of everything.
LEMMA AllAppend ==
  ASSUME QueueType, NEW x \in Tokens, queue' = Append(queue, x), UNCHANGED <<items, received>>
  PROVE  /\ All' = Append(All, x)
         /\ queue' \in Seq(Tokens) /\ Len(queue') = Len(queue) + 1 /\ Len(queue) \in Nat
         /\ DOMAIN queue = 1..Len(queue) /\ DOMAIN queue' = 1..(Len(queue) + 1)
         /\ \A i \in DOMAIN queue : queue'[i] = queue[i]
         /\ queue'[Len(queue) + 1] = x
<1>1. queue \in Seq(Tokens) /\ received \o items \in Seq(Tokens)
  BY AllType DEF QueueType
<1>2. (received \o items) \o Append(queue, x) = Append((received \o items) \o queue, x)
  BY <1>1, ConcatAppend
<1>3. All' = Append(All, x)
  BY <1>2 DEF All
<1>4. queue' \in Seq(Tokens) /\ Len(queue') = Len(queue) + 1
  BY <1>1, AppendProperties
<1>5. DOMAIN queue = 1..Len(queue) /\ DOMAIN queue' = 1..(Len(queue) + 1) /\ Len(queue) \in Nat
  BY <1>1, <1>4, LenProperties
<1>6. (\A i \in 1..Len(queue) : queue'[i] = queue[i]) /\ queue'[Len(queue) + 1] = x
  BY <1>1, AppendProperties
<1> QED
  BY <1>3, <1>4, <1>5, <1>6

\* No batch is decoded once all the results were got.
LEMMA CaughtAll ==
  ASSUME QueueType, ResultsCaught, caught = NumEntries, NEW e \in Entries
  PROVE  job[JobOf(e)] = "done"
BY EntriesType DEF ResultsCaught

LEMMA PutTokenOrder ==
  ASSUME OrderInv, NEW e \in Entries, PutToken(e)
  PROVE  OrderInv'
<1> DEFINE x == Token(e, made[e] + 1)
<1>1. /\ job[JobOf(e)] = "running"
      /\ made' = [made EXCEPT ![e] = @ + 1]
      /\ queue' = Append(queue, Token(e, made'[e]))
      /\ UNCHANGED <<mode, job, closed, caught, catcher, pc, items, received>>
  BY DEF PutToken, user
<1>2. QueueType /\ ResultsCaught /\ NoneIsLast /\ TokensInOrder
  BY DEF OrderInv
<1>3. made[e] \in Nat /\ made'[e] = made[e] + 1 /\ made' \in [Entries -> Nat]
  BY <1>1, <1>2 DEF QueueType
<1>4. x \in Tokens /\ x # None /\ queue' = Append(queue, x) /\ x[1] = e
  BY <1>1, <1>3, EntriesType DEF Token, Tokens, None
<1> HIDE DEF x
<1>5. caught # NumEntries
  BY <1>1, <1>2, CaughtAll
<1>6. /\ All' = Append(All, x)
      /\ queue' \in Seq(Tokens) /\ Len(queue') = Len(queue) + 1 /\ Len(queue) \in Nat
      /\ DOMAIN queue = 1..Len(queue) /\ DOMAIN queue' = 1..(Len(queue) + 1)
      /\ \A i \in DOMAIN queue : queue'[i] = queue[i]
      /\ queue'[Len(queue) + 1] = x
  BY <1>1, <1>2, <1>4, AllAppend
<1>7. QueueType'
  BY <1>1, <1>2, <1>3, <1>6 DEF QueueType
<1>8. ResultsCaught'
  BY <1>1, <1>2, <1>6 DEF ResultsCaught, Alive
<1>9. NoneIsLast'
  BY <1>1, <1>2, <1>4, <1>5, <1>6 DEF NoneIsLast, Alive, Complete
<1>10. ASSUME Alive' \/ Complete', NEW f \in Entries
       PROVE  Numbered(All', f, made'[f])
  <2>1. Numbered(All, f, made[f]) /\ made[f] \in Nat /\ All \in Seq(Tokens)
    BY <1>1, <1>2, <1>10, AllType DEF TokensInOrder, Alive, Complete, QueueType
  <2>2. CASE f = e
    BY <1>3, <1>6, <2>1, <2>2, NumberedNext DEF x
  <2>3. CASE f # e
    BY <1>1, <1>2, <1>4, <1>6, <2>1, <2>3, NumberedOther DEF QueueType
  <2> QED
    BY <2>2, <2>3
<1> QED
  BY <1>7, <1>8, <1>9, <1>10 DEF OrderInv, TokensInOrder

\* A step that moves no token keeps the order.
LEMMA TokensKept ==
  ASSUME OrderInv, All' = All, made' = made, Alive' \/ Complete' => Alive \/ Complete
  PROVE  TokensInOrder'
BY DEF OrderInv, TokensInOrder

\* A mark put at the end is no token of an entry.
LEMMA MarkKeeps ==
  ASSUME OrderInv, NEW x \in Tokens, x[1] = NoEntry, All' = Append(All, x), made' = made,
         Alive' \/ Complete' => Alive \/ Complete
  PROVE  TokensInOrder'
<1> SUFFICES ASSUME Alive' \/ Complete', NEW e \in Entries PROVE Numbered(All', e, made'[e])
  BY DEF TokensInOrder
<1>1. Numbered(All, e, made[e]) /\ made[e] \in Nat /\ All \in Seq(Tokens) /\ x[1] # e
  BY AllType, EntriesType DEF OrderInv, TokensInOrder, QueueType
<1>2. Numbered(Append(All, x), e, made[e])
  BY <1>1, NumberedOther
<1> QED
  BY <1>2

LEMMA CatchExceptionOrder == ASSUME OrderInv, CatchException PROVE OrderInv'
<1>1. /\ catcher = "waiting" /\ catcher' = "ending"
      /\ queue' = Append(queue, Exception)
      /\ UNCHANGED <<mode, job, made, closed, caught, pc, items, received>>
  BY DEF CatchException, work, user
<1>2. QueueType /\ ResultsCaught /\ NoneIsLast
  BY DEF OrderInv
<1>3. /\ All' = Append(All, Exception)
      /\ queue' \in Seq(Tokens) /\ Len(queue') = Len(queue) + 1 /\ Len(queue) \in Nat
      /\ DOMAIN queue = 1..Len(queue) /\ DOMAIN queue' = 1..(Len(queue) + 1)
      /\ \A i \in DOMAIN queue : queue'[i] = queue[i]
      /\ queue'[Len(queue) + 1] = Exception
  BY <1>1, <1>2, MarksType, AllAppend
<1>4. QueueType'
  BY <1>1, <1>2, <1>3 DEF QueueType
<1>5. ResultsCaught'
  <2>1. Len(queue) + 1 \in DOMAIN queue'
    BY <1>3
  <2> QED
    BY <1>1, <1>2, <1>3, <2>1 DEF ResultsCaught
<1>6. NoneIsLast'
  <2>1. \A i \in DOMAIN queue' : queue'[i] # None
    BY <1>1, <1>2, <1>3, MarksType DEF NoneIsLast
  <2> QED
    BY <1>1, <1>2, <2>1 DEF NoneIsLast, Complete
<1>7. TokensInOrder'
  BY <1>1, <1>3, MarksType, MarkKeeps DEF Alive, Complete
<1> QED
  BY <1>4, <1>5, <1>6, <1>7 DEF OrderInv

LEMMA PutNoneOrder == ASSUME OrderInv, PutNone PROVE OrderInv'
<1>1. /\ catcher = "ending" /\ catcher' = "finished"
      /\ queue' = Append(queue, None)
      /\ UNCHANGED <<mode, job, made, closed, caught, pc, items, received>>
  BY DEF PutNone, work, user
<1>2. QueueType /\ ResultsCaught /\ NoneIsLast
  BY DEF OrderInv
<1>3. /\ All' = Append(All, None)
      /\ queue' \in Seq(Tokens) /\ Len(queue') = Len(queue) + 1 /\ Len(queue) \in Nat
      /\ DOMAIN queue = 1..Len(queue) /\ DOMAIN queue' = 1..(Len(queue) + 1)
      /\ \A i \in DOMAIN queue : queue'[i] = queue[i]
      /\ queue'[Len(queue) + 1] = None
  BY <1>1, <1>2, MarksType, AllAppend
<1>4. QueueType'
  BY <1>1, <1>2, <1>3 DEF QueueType
<1>5. ResultsCaught'
  BY <1>1, <1>2, <1>3 DEF ResultsCaught, Alive
<1>6. NoneIsLast'
  <2>1. \A i \in DOMAIN queue : queue[i] # None
    BY <1>1, <1>2 DEF NoneIsLast
  <2>2. ASSUME NEW i \in DOMAIN queue', queue'[i] = None
        PROVE  i = Len(queue) + 1
    BY <1>3, <2>1, <2>2
  <2>3. Alive => caught = NumEntries \/ \E k \in DOMAIN queue : queue[k] = Exception
    BY <1>1, <1>2 DEF ResultsCaught
  <2>4. \A k \in DOMAIN queue : k \in DOMAIN queue' /\ k < Len(queue) + 1 /\ queue'[k] = queue[k]
    BY <1>3
  <2>5. ASSUME NEW i \in DOMAIN queue', queue'[i] = None, Alive
        PROVE  \/ caught = NumEntries /\ i = Len(queue')
               \/ \E k \in DOMAIN queue' : k < i /\ queue'[k] = Exception
    BY <1>3, <2>2, <2>3, <2>4, <2>5
  <2>6. Alive' <=> Alive
    BY <1>1 DEF Alive
  <2>7. ~Complete
    BY <1>1, <1>2 DEF NoneIsLast
  <2>8. ~Complete'
    BY <1>1, <2>7 DEF Complete
  <2> QED
    BY <1>1, <1>2, <2>5, <2>6, <2>8 DEF NoneIsLast
<1>7. TokensInOrder'
  BY <1>1, <1>3, MarksType, MarkKeeps DEF Alive, Complete
<1> QED
  BY <1>4, <1>5, <1>6, <1>7 DEF OrderInv

\* The results are taken one by one, in their order.
LEMMA CatchResultOrder == ASSUME OrderInv, CatchResult PROVE OrderInv'
<1>1. /\ catcher = "waiting" /\ job[JobOf(caught + 1)] = "done"
      /\ caught' = caught + 1
      /\ catcher' = IF caught' = NumEntries THEN "ending" ELSE "waiting"
      /\ UNCHANGED <<mode, job, made, queue, closed, pc, items, received>>
  BY DEF CatchResult, work, user, NumEntries
<1>2. QueueType /\ ResultsCaught /\ NoneIsLast
  BY DEF OrderInv
<1>3. caught < NumEntries /\ caught \in Nat
  BY <1>1, <1>2 DEF ResultsCaught, QueueType
<1>4. QueueType'
  BY <1>1, <1>2, <1>3, EntriesType DEF QueueType
<1>5. ResultsCaught'
  <2>1. 1..caught' = 1..caught \cup {caught + 1}
    BY <1>1, <1>3
  <2>2. \A e \in 1..caught' : job'[JobOf(e)] = "done"
    BY <1>1, <1>2, <2>1 DEF ResultsCaught
  <2>3. catcher' = "waiting" => caught' < NumEntries
    BY <1>1, <1>3, EntriesType
  <2> QED
    BY <1>1, <2>2, <2>3 DEF ResultsCaught
<1>6. NoneIsLast'
  <2>1. \A i \in DOMAIN queue : queue[i] # None
    BY <1>1, <1>2 DEF NoneIsLast
  <2>2. ~Complete
    BY <1>1, <1>2 DEF NoneIsLast
  <2> QED
    BY <1>1, <1>2, <2>1, <2>2 DEF NoneIsLast, Complete
<1>7. TokensInOrder'
  BY <1>1, TokensKept DEF All, Alive, Complete
<1> QED
  BY <1>4, <1>5, <1>6, <1>7 DEF OrderInv

\* A batch that starts or ends moves no token.
LEMMA JobOrder ==
  ASSUME OrderInv, NEW j \in Jobs, StartJob(j) \/ FinishJob(j) \/ FailJob(j)
  PROVE  OrderInv'
<1>1. /\ job[j] # "done"
      /\ job' = [job EXCEPT ![j] = "running"] \/ job' = [job EXCEPT ![j] = "done"]
         \/ job' = [job EXCEPT ![j] = "failed"]
      /\ UNCHANGED <<mode, made, queue, closed, caught, catcher, pc, items, received>>
  BY DEF StartJob, FinishJob, FailJob, user
<1>2. QueueType /\ ResultsCaught /\ NoneIsLast
  BY DEF OrderInv
<1>3. QueueType'
  BY <1>1, <1>2 DEF QueueType
<1>4. ResultsCaught'
  <2>1. \A i \in Jobs : job[i] = "done" => job'[i] = "done"
    BY <1>1, <1>2 DEF QueueType
  <2>2. \A e \in 1..caught : e \in Entries
    BY <1>2, EntriesType DEF QueueType
  <2>3. \A e \in 1..caught : job'[JobOf(e)] = "done"
    BY <1>2, <2>1, <2>2, JobType DEF ResultsCaught
  <2> QED
    BY <1>1, <1>2, <2>3 DEF ResultsCaught, Alive
<1>5. NoneIsLast'
  BY <1>1, <1>2 DEF NoneIsLast, Alive, Complete
<1>6. TokensInOrder'
  BY <1>1, TokensKept DEF All, Alive, Complete
<1> QED
  BY <1>3, <1>4, <1>5, <1>6 DEF OrderInv

\* The head of step_results, and what is left when it is taken.
LEMMA TailOf ==
  ASSUME NEW s \in Seq(Tokens), s # <<>>
  PROVE  /\ Head(s) \in Tokens /\ Head(s) = s[1] /\ 1 \in DOMAIN s
         /\ Tail(s) \in Seq(Tokens) /\ Len(s) \in Nat /\ Len(Tail(s)) = Len(s) - 1
         /\ DOMAIN s = 1..Len(s) /\ DOMAIN Tail(s) = 1..(Len(s) - 1)
         /\ \A i \in DOMAIN Tail(s) : i + 1 \in DOMAIN s /\ Tail(s)[i] = s[i + 1]
         /\ \A i \in DOMAIN s : i # 1 => i - 1 \in DOMAIN Tail(s) /\ Tail(s)[i - 1] = s[i]
<1>1. Len(s) \in Nat /\ Len(s) >= 1
  BY EmptySeq
<1>2. /\ Head(s) \in Tokens /\ Head(s) = s[1]
      /\ Tail(s) \in Seq(Tokens) /\ Len(Tail(s)) = Len(s) - 1
      /\ \A i \in 1..Len(Tail(s)) : Tail(s)[i] = s[i + 1]
  BY HeadTailProperties
<1>3. DOMAIN s = 1..Len(s) /\ DOMAIN Tail(s) = 1..(Len(s) - 1)
  BY <1>2, LenProperties
<1>4. \A i \in DOMAIN Tail(s) : i + 1 \in DOMAIN s /\ Tail(s)[i] = s[i + 1]
  BY <1>1, <1>2, <1>3
<1>5. ASSUME NEW i \in DOMAIN s, i # 1 PROVE i - 1 \in DOMAIN Tail(s) /\ Tail(s)[i - 1] = s[i]
  <2>1. i - 1 \in 1..(Len(s) - 1) /\ (i - 1) + 1 = i
    BY <1>1, <1>3, <1>5
  <2> QED
    BY <1>3, <1>4, <2>1
<1> QED
  BY <1>1, <1>2, <1>3, <1>4, <1>5

\* What the generator takes from step_results is what the user gets next.
LEMMA GetTokenMoves ==
  ASSUME QueueType, NoneIsLast, GetToken
  PROVE  All' = All /\ items' \in Seq(Tokens) /\ received' \in Seq(Tokens)
<1> DEFINE h == Head(queue)
           t == Tail(queue)
<1>1. queue \in Seq(Tokens) /\ items \in Seq(Tokens) /\ received \in Seq(Tokens) /\ queue # <<>>
  BY DEF QueueType, GetToken
<1>2. h \in Tokens /\ t \in Seq(Tokens)
  BY <1>1, TailOf
<1>3. queue' = t
  BY DEF GetToken
<1> HIDE DEF h, t
<1>4. CASE mode = "sync"
  <2>1. received' = Append(received, h) /\ items' = items /\ items = <<>>
    BY <1>4 DEF GetToken, NoneIsLast, h
  <2>2. received \o items = received /\ received' \o items' = Append(received, h)
    BY <1>1, <1>2, <2>1, ConcatEmptySeq, AppendProperties
  <2>3. received \o queue = Append(received, h) \o t
    BY <1>1, MoveHead DEF h, t
  <2> QED
    BY <1>1, <1>2, <1>3, <2>1, <2>2, <2>3, AppendProperties DEF All
<1>5. CASE mode # "sync"
  <2>1. items' = Append(items, h) /\ received' = received
    BY <1>5 DEF GetToken, h
  <2>2. received \o items \in Seq(Tokens)
    BY <1>1, ConcatProperties
  <2>3. (received \o items) \o queue = Append(received \o items, h) \o t
    BY <1>1, <2>2, MoveHead DEF h, t
  <2>4. received \o Append(items, h) = Append(received \o items, h)
    BY <1>1, <1>2, ConcatAppend
  <2> QED
    BY <1>1, <1>2, <1>3, <2>1, <2>3, <2>4, AppendProperties DEF All
<1> QED
  BY <1>4, <1>5

LEMMA GetTokenOrder == ASSUME OrderInv, GetToken PROVE OrderInv'
<1>1. /\ pc = "get" /\ pc' = "yield" /\ queue # <<>> /\ queue' = Tail(queue)
      /\ Head(queue) # Exception /\ Head(queue) # None
      /\ mode = "sync" => items' = items
      /\ items' = items \/ items' = Append(items, Head(queue))
      /\ UNCHANGED <<mode, job, made, closed, caught, catcher>>
  BY DEF GetToken, work
<1>2. QueueType /\ ResultsCaught /\ NoneIsLast
  BY DEF OrderInv
<1>3. queue \in Seq(Tokens) /\ items \in Seq(Tokens)
  BY <1>2 DEF QueueType
<1>4. /\ Head(queue) \in Tokens /\ Head(queue) = queue[1]
      /\ queue' \in Seq(Tokens) /\ Len(queue) \in Nat /\ Len(queue') = Len(queue) - 1
      /\ DOMAIN queue = 1..Len(queue) /\ DOMAIN queue' = 1..(Len(queue) - 1)
      /\ \A i \in DOMAIN queue' : i + 1 \in DOMAIN queue /\ queue'[i] = queue[i + 1]
      /\ \A i \in DOMAIN queue : i # 1 => i - 1 \in DOMAIN queue' /\ queue'[i - 1] = queue[i]
  BY <1>1, <1>3, TailOf
<1>5. Alive /\ Alive' /\ ~Complete'
  BY <1>1 DEF Alive, Complete
<1>6. QueueType'
  BY <1>1, <1>2, <1>4, GetTokenMoves DEF QueueType
<1>7. ResultsCaught'
  <2>1. (\E i \in DOMAIN queue : queue[i] = Exception) => \E i \in DOMAIN queue' : queue'[i] = Exception
    BY <1>1, <1>4
  <2> QED
    BY <1>1, <1>2, <1>5, <2>1 DEF ResultsCaught
<1>8. NoneIsLast'
  <2>1. ASSUME NEW i \in DOMAIN queue', queue'[i] = None
        PROVE  /\ catcher' = "finished"
               /\ \/ caught' = NumEntries /\ i = Len(queue')
                  \/ \E k \in DOMAIN queue' : k < i /\ queue'[k] = Exception
    <3>1. i + 1 \in DOMAIN queue /\ queue[i + 1] = None
      BY <1>4, <2>1
    <3>2. /\ catcher = "finished"
          /\ \/ caught = NumEntries /\ i + 1 = Len(queue)
             \/ \E k \in DOMAIN queue : k < i + 1 /\ queue[k] = Exception
      BY <1>2, <1>5, <3>1 DEF NoneIsLast
    <3>3. CASE caught = NumEntries /\ i + 1 = Len(queue)
      BY <1>1, <1>4, <2>1, <3>2, <3>3
    <3>4. ASSUME NEW k \in DOMAIN queue, k < i + 1, queue[k] = Exception
          PROVE  k - 1 \in DOMAIN queue' /\ k - 1 < i /\ queue'[k - 1] = Exception
      BY <1>1, <1>4, <2>1, <3>4
    <3> QED
      BY <1>1, <3>2, <3>3, <3>4
  <2>2. \A i \in DOMAIN items : items[i] # None
    BY <1>1, <1>2 DEF NoneIsLast
  <2>3. \A i \in DOMAIN items' : items'[i] # None
    <3>1. CASE items' = items
      BY <2>2, <3>1
    <3>2. CASE items' = Append(items, Head(queue))
      <4>1. /\ items' \in Seq(Tokens) /\ Len(items') = Len(items) + 1
            /\ \A i \in 1..Len(items) : items'[i] = items[i]
            /\ items'[Len(items) + 1] = Head(queue)
        BY <1>3, <1>4, <3>2, AppendProperties
      <4>2. DOMAIN items = 1..Len(items) /\ DOMAIN items' = 1..(Len(items) + 1) /\ Len(items) \in Nat
        BY <1>3, <4>1, LenProperties
      <4> QED
        BY <1>1, <2>2, <4>1, <4>2
    <3> QED
      BY <1>1, <3>1, <3>2
  <2> QED
    BY <1>1, <1>2, <1>5, <2>1, <2>3 DEF NoneIsLast
<1>9. TokensInOrder'
  BY <1>1, <1>2, <1>5, GetTokenMoves, TokensKept
<1> QED
  BY <1>6, <1>7, <1>8, <1>9 DEF OrderInv

\* Dropping a mark at the end of everything loses no token.
LEMMA MarkDropped ==
  ASSUME OrderInv, Alive \/ Complete, All' \in Seq(Tokens), All = Append(All', None), made' = made
  PROVE  TokensInOrder'
<1> SUFFICES ASSUME NEW e \in Entries PROVE Numbered(All', e, made'[e])
  BY DEF TokensInOrder
<1>1. Numbered(All, e, made[e]) /\ made[e] \in Nat /\ None[1] # e
  BY EntriesType, MarksType DEF OrderInv, TokensInOrder, QueueType
<1>2. Numbered(Append(All', None), e, made[e])
  BY <1>1
<1> QED
  BY <1>1, <1>2, MarksType, NumberedOther

\* None at the head of step_results is all that is left, when no exception came before.
LEMMA GetNoneOrder == ASSUME OrderInv, GetNone PROVE OrderInv'
<1>1. /\ pc = "get" /\ pc' = "join" /\ queue # <<>> /\ queue' = Tail(queue)
      /\ Head(queue) = None
      /\ UNCHANGED <<mode, job, made, closed, caught, catcher, items, received>>
  BY DEF GetNone, work, user
<1>2. QueueType /\ ResultsCaught /\ NoneIsLast
  BY DEF OrderInv
<1>3. queue \in Seq(Tokens) /\ items \in Seq(Tokens) /\ received \in Seq(Tokens)
  BY <1>2 DEF QueueType
<1>4. /\ Head(queue) = queue[1] /\ 1 \in DOMAIN queue
      /\ queue' \in Seq(Tokens) /\ Len(queue) \in Nat /\ Len(queue') = Len(queue) - 1
      /\ DOMAIN queue = 1..Len(queue) /\ DOMAIN queue' = 1..(Len(queue) - 1)
  BY <1>1, <1>3, TailOf
<1>5. Alive /\ ~Alive'
  BY <1>1 DEF Alive
<1>6. /\ catcher = "finished"
      /\ caught = NumEntries
      /\ Len(queue) = 1
  <2>1. queue[1] = None
    BY <1>1, <1>4
  <2>2. ~ \E k \in DOMAIN queue : k < 1
    BY <1>4
  <2> QED
    BY <1>2, <1>4, <1>5, <2>1, <2>2 DEF NoneIsLast
<1>7. queue' = <<>> /\ DOMAIN queue' = {}
  BY <1>4, <1>6, EmptySeq
<1>8. QueueType'
  BY <1>1, <1>2, <1>4 DEF QueueType
<1>9. ResultsCaught'
  BY <1>1, <1>2, <1>5 DEF ResultsCaught
<1>10. NoneIsLast'
  <2>1. \A i \in DOMAIN items : items[i] # None
    BY <1>1, <1>2 DEF NoneIsLast
  <2> QED
    BY <1>1, <1>2, <1>6, <1>7, <2>1 DEF NoneIsLast
<1>11. TokensInOrder'
  <2>1. received \o items \in Seq(Tokens)
    BY <1>3, ConcatProperties
  <2>2. (received \o items) \o queue = Append(received \o items, None) \o <<>>
    BY <1>1, <1>3, <1>7, <2>1, MoveHead
  <2>3. Append(received \o items, None) \o <<>> = Append(received \o items, None)
    BY <2>1, MarksType, AppendProperties, ConcatEmptySeq
  <2>4. (received \o items) \o <<>> = received \o items
    BY <2>1, ConcatEmptySeq
  <2>5. All' = received \o items
    BY <1>1, <1>7, <2>4 DEF All
  <2>6. All = Append(All', None)
    BY <2>2, <2>3, <2>5 DEF All
  <2> QED
    BY <1>1, <1>5, <2>1, <2>5, <2>6, MarkDropped
<1> QED
  BY <1>8, <1>9, <1>10, <1>11 DEF OrderInv

\* A stream that ends with the exception promises nothing more.
LEMMA GetExceptionOrder == ASSUME OrderInv, GetException PROVE OrderInv'
<1>1. /\ pc = "get" /\ pc' = "raised" /\ queue # <<>> /\ queue' = Tail(queue)
      /\ UNCHANGED <<mode, job, made, closed, caught, catcher, items, received>>
  BY DEF GetException, work, user
<1>2. QueueType /\ ResultsCaught /\ NoneIsLast
  BY DEF OrderInv
<1>3. queue \in Seq(Tokens)
  BY <1>2 DEF QueueType
<1>4. /\ queue' \in Seq(Tokens)
      /\ \A i \in DOMAIN queue' : i + 1 \in DOMAIN queue /\ queue'[i] = queue[i + 1]
  BY <1>1, <1>3, TailOf
<1>5. ~Alive' /\ ~Complete'
  BY <1>1 DEF Alive, Complete
<1>6. QueueType'
  BY <1>1, <1>2, <1>4 DEF QueueType
<1>7. ResultsCaught'
  BY <1>1, <1>2, <1>5 DEF ResultsCaught
<1>8. NoneIsLast'
  <2>1. \A i \in DOMAIN items : items[i] # None
    BY <1>1, <1>2 DEF NoneIsLast
  <2>2. \A i \in DOMAIN queue' : queue'[i] = None => catcher = "finished"
    BY <1>2, <1>4 DEF NoneIsLast
  <2> QED
    BY <1>1, <1>2, <1>5, <2>1, <2>2 DEF NoneIsLast
<1>9. TokensInOrder'
  BY <1>5 DEF TokensInOrder
<1> QED
  BY <1>6, <1>7, <1>8, <1>9 DEF OrderInv

\* The generator goes on, or is closed and promises nothing more.
LEMMA ResumeOrder == ASSUME OrderInv, Resume \/ CloseGenerator PROVE OrderInv'
<1>1. /\ pc = "yield" /\ (pc' = "get" \/ (pc' = "join" /\ closed'))
      /\ UNCHANGED <<mode, job, made, queue, caught, catcher, items, received>>
  BY DEF Resume, CloseGenerator, work, user
<1>2. QueueType /\ ResultsCaught /\ NoneIsLast
  BY DEF OrderInv
<1>3. Alive /\ ~Complete'
  BY <1>1 DEF Alive, Complete
<1>4. QueueType'
  BY <1>1, <1>2 DEF QueueType
<1>5. ResultsCaught'
  BY <1>1, <1>2, <1>3 DEF ResultsCaught
<1>6. NoneIsLast'
  <2>1. \A i \in DOMAIN items : items[i] # None
    BY <1>1, <1>2 DEF NoneIsLast
  <2> QED
    BY <1>1, <1>2, <1>3, <2>1 DEF NoneIsLast
<1>7. TokensInOrder'
  BY <1>1, <1>3, TokensKept DEF All
<1> QED
  BY <1>4, <1>5, <1>6, <1>7 DEF OrderInv

\* The generator returns: producer() puts None after the tokens.
LEMMA JoinOrder == ASSUME OrderInv, Join PROVE OrderInv'
<1>1. /\ pc = "join" /\ pc' = "returned" /\ catcher = "finished"
      /\ items' = IF mode = "async" THEN Append(items, None) ELSE items
      /\ UNCHANGED <<mode, job, made, queue, closed, caught, catcher, received>>
  BY DEF Join, work
<1>2. QueueType /\ ResultsCaught /\ NoneIsLast
  BY DEF OrderInv
<1>3. items \in Seq(Tokens) /\ received \in Seq(Tokens) /\ queue \in Seq(Tokens)
  BY <1>2 DEF QueueType
<1>4. ~Alive /\ ~Alive' /\ (Complete' <=> Complete)
  BY <1>1 DEF Alive, Complete
<1>5. /\ Append(items, None) \in Seq(Tokens) /\ Len(Append(items, None)) = Len(items) + 1
      /\ \A i \in 1..Len(items) : Append(items, None)[i] = items[i]
  BY <1>3, MarksType, AppendProperties
<1>6. /\ DOMAIN items = 1..Len(items) /\ DOMAIN Append(items, None) = 1..(Len(items) + 1)
      /\ Len(items) \in Nat
  BY <1>3, <1>5, LenProperties
<1>7. items' \in Seq(Tokens)
  BY <1>1, <1>3, <1>5
<1>8. QueueType'
  BY <1>1, <1>2, <1>7 DEF QueueType
<1>9. ResultsCaught'
  BY <1>1, <1>2, <1>4 DEF ResultsCaught
<1>10. NoneIsLast'
  <2>1. \A i \in DOMAIN items : items[i] # None
    BY <1>1, <1>2 DEF NoneIsLast
  <2>2. \A i \in DOMAIN items' : items'[i] = None => i = Len(items')
    BY <1>1, <1>5, <1>6, <2>1
  <2> QED
    BY <1>1, <1>2, <1>4, <2>2 DEF NoneIsLast
<1>11. TokensInOrder'
  <2>1. CASE ~Complete
    BY <1>4, <2>1 DEF TokensInOrder
  <2>2. CASE mode # "async"
    BY <1>1, <1>4, <2>2, TokensKept DEF All
  <2>3. CASE Complete /\ mode = "async"
    <3>1. queue = <<>>
      BY <1>2, <2>3 DEF NoneIsLast
    <3>2. received \o items \in Seq(Tokens) /\ received \o Append(items, None) \in Seq(Tokens)
      BY <1>3, <1>5, ConcatProperties
    <3>3. received \o Append(items, None) = Append(received \o items, None)
      BY <1>3, MarksType, ConcatAppend
    <3>4. (received \o items) \o <<>> = received \o items
      BY <3>2, ConcatEmptySeq
    <3>5. (received \o Append(items, None)) \o <<>> = received \o Append(items, None)
      BY <3>2, ConcatEmptySeq
    <3>6. All = received \o items
      BY <3>1, <3>4 DEF All
    <3>7. All' = received \o Append(items, None)
      BY <1>1, <2>3, <3>1, <3>5 DEF All
    <3>8. All' = Append(All, None)
      BY <3>3, <3>6, <3>7
    <3> QED
      BY <1>1, <1>4, <3>8, MarksType, MarkKeeps
  <2> QED
    BY <2>1, <2>2, <2>3
<1> QED
  BY <1>8, <1>9, <1>10, <1>11 DEF OrderInv

\* The asynchronous user gets the oldest item.
LEMMA AnswerOrder == ASSUME OrderInv, AnswerNext PROVE OrderInv'
<1>1. /\ mode = "async" /\ pc \notin {"get", "join"} /\ items # <<>> /\ items' = Tail(items)
      /\ \/ Head(items) = None /\ received' = received
         \/ Head(items) # None /\ received' = Append(received, Head(items))
      /\ UNCHANGED <<mode, job, made, queue, closed, caught, catcher, pc>>
  BY DEF AnswerNext, LoopIsFree, work
<1>2. QueueType /\ ResultsCaught /\ NoneIsLast
  BY DEF OrderInv
<1>3. items \in Seq(Tokens) /\ received \in Seq(Tokens) /\ queue \in Seq(Tokens)
  BY <1>2 DEF QueueType
<1>4. /\ Head(items) \in Tokens /\ Head(items) = items[1] /\ 1 \in DOMAIN items
      /\ items' \in Seq(Tokens) /\ Len(items) \in Nat /\ Len(items') = Len(items) - 1
      /\ DOMAIN items = 1..Len(items) /\ DOMAIN items' = 1..(Len(items) - 1)
      /\ \A i \in DOMAIN items' : i + 1 \in DOMAIN items /\ items'[i] = items[i + 1]
  BY <1>1, <1>3, TailOf
<1>5. (Alive' <=> Alive) /\ (Complete' <=> Complete)
  BY <1>1 DEF Alive, Complete
<1>6. received' \in Seq(Tokens)
  <2>1. Append(received, Head(items)) \in Seq(Tokens)
    BY <1>3, <1>4, AppendProperties
  <2> QED
    BY <1>1, <1>3, <2>1
<1>7. QueueType'
  BY <1>1, <1>2, <1>4, <1>6 DEF QueueType
<1>8. ResultsCaught'
  BY <1>1, <1>2, <1>5 DEF ResultsCaught
<1>9. NoneIsLast'
  <2>1. ASSUME NEW i \in DOMAIN items', items'[i] = None
        PROVE  i = Len(items') /\ pc = "returned"
    <3>1. i + 1 \in DOMAIN items /\ items[i + 1] = None
      BY <1>4, <2>1
    <3>2. i + 1 = Len(items) /\ pc = "returned"
      BY <1>2, <3>1 DEF NoneIsLast
    <3> QED
      BY <1>4, <2>1, <3>2
  <2> QED
    BY <1>1, <1>2, <1>5, <2>1 DEF NoneIsLast
<1>10. TokensInOrder'
  <2>1. CASE Head(items) # None
    <3>1. received \o items = received' \o items'
      BY <1>1, <1>3, <2>1, MoveHead
    <3>2. All' = All
      BY <1>1, <3>1 DEF All
    <3> QED
      BY <1>1, <1>5, <3>2, TokensKept
  <2>2. CASE Head(items) = None
    <3>1. Len(items) = 1 /\ pc = "returned"
      BY <1>2, <1>4, <2>2 DEF NoneIsLast
    <3>2. items' = <<>>
      BY <1>4, <3>1, EmptySeq
    <3>3. CASE Complete
      <4>1. queue = <<>>
        BY <1>2, <3>3 DEF NoneIsLast
      <4>2. received \o items = Append(received, None) \o <<>>
        BY <1>1, <1>3, <2>2, <3>2, MoveHead
      <4>3. Append(received, None) \in Seq(Tokens)
        BY <1>3, MarksType, AppendProperties
      <4>4. Append(received, None) \o <<>> = Append(received, None)
        BY <4>3, ConcatEmptySeq
      <4>5. All = Append(received, None)
        BY <4>1, <4>2, <4>4 DEF All
      <4>6. received \o <<>> = received
        BY <1>3, ConcatEmptySeq
      <4>7. All' = received
        BY <1>1, <2>2, <3>2, <4>1, <4>6 DEF All
      <4> QED
        BY <1>1, <1>3, <3>3, <4>5, <4>7, MarkDropped
    <3>4. CASE ~Complete
      BY <1>1, <1>5, <3>1, <3>4 DEF TokensInOrder, Alive
    <3> QED
      BY <3>3, <3>4
  <2> QED
    BY <2>1, <2>2
<1> QED
  BY <1>7, <1>8, <1>9, <1>10 DEF OrderInv

\* Nothing the invariant speaks of changes.
LEMMA OtherOrder ==
  ASSUME OrderInv,
         UNCHANGED <<mode, job, made, queue, closed, caught, catcher, pc, items, received>>
  PROVE  OrderInv'
<1>1. QueueType'
  BY DEF OrderInv, QueueType
<1>2. ResultsCaught' /\ NoneIsLast'
  BY DEF OrderInv, ResultsCaught, NoneIsLast, Alive, Complete
<1>3. TokensInOrder'
  BY TokensKept DEF All, Alive, Complete
<1> QED
  BY <1>1, <1>2, <1>3 DEF OrderInv

LEMMA OrderStep == OrderInv /\ [Next]_vars => OrderInv'
<1> SUFFICES ASSUME OrderInv, [Next]_vars PROVE OrderInv'
  OBVIOUS
<1>1. CASE \E e \in Entries : PutToken(e)
  BY <1>1, PutTokenOrder
<1>2. CASE \E e \in Entries, stop \in BOOLEAN : ReturnCallback(e, stop)
  BY <1>2, OtherOrder DEF ReturnCallback, user
<1>3. CASE \E j \in Jobs : StartJob(j) \/ FinishJob(j) \/ FailJob(j)
  BY <1>3, JobOrder
<1>4. CASE Catcher
  BY <1>4, CatchResultOrder, CatchExceptionOrder, PutNoneOrder DEF Catcher
<1>5. CASE Generator
  BY <1>5, GetTokenOrder, GetNoneOrder, GetExceptionOrder, JoinOrder DEF Generator
<1>6. CASE Resume \/ CloseGenerator
  BY <1>6, ResumeOrder
<1>7. CASE AnswerNext
  BY <1>7, AnswerOrder
<1>8. CASE CallNext \/ CancelNext \/ AbandonNext \/ UNCHANGED vars
  BY <1>8, OtherOrder DEF CallNext, CancelNext, AbandonNext, vars, work, user
<1> QED
  BY <1>1, <1>2, <1>3, <1>4, <1>5, <1>6, <1>7, <1>8 DEF Next, Worker, Loop, User

\* The batches are disjoint: the results that were got are those of every batch.
LEMMA EveryJobDone ==
  ASSUME OrderInv, caught = NumEntries, NEW j \in Jobs
  PROVE  job[j] = "done"
<1>1. PICK e \in Batches[j] : TRUE
  BY StreamAssumption
<1>2. e \in Entries
  BY <1>1 DEF Entries, ToSet, Jobs
<1>3. JobOf(e) = j
  <2>1. JobOf(e) \in Jobs /\ e \in Batches[JobOf(e)]
    BY <1>1 DEF JobOf
  <2> QED
    BY <1>1, <2>1, StreamAssumption
<1> QED
  BY <1>2, <1>3, CaughtAll DEF OrderInv

\* Whatever the workers, the waiting thread and the user do, the user gets the
\* tokens of every entry once and in their order, and a stream that ends by
\* itself ends after the last token of the last batch.
THEOREM StreamsAreComplete == Spec => []StreamComplete
<1>1. Spec => []OrderInv
  BY OrderInit, OrderStep, PTL DEF Spec
<1>2. OrderInv => StreamComplete
  <2> SUFFICES ASSUME OrderInv PROVE StreamComplete
    OBVIOUS
  <2>1. ASSUME NEW e \in Entries, Alive \/ Complete
        PROVE  Numbered(received \o items \o queue, e, made[e])
    BY <2>1 DEF OrderInv, TokensInOrder, All
  <2>2. Complete => queue = <<>> /\ caught = NumEntries
    BY DEF OrderInv, NoneIsLast
  <2>3. Complete => \A j \in Jobs : job[j] = "done"
    BY <2>2, EveryJobDone
  <2> QED
    BY <2>1, <2>2, <2>3 DEF StreamComplete, Alive, Complete
<1> QED
  BY <1>1, <1>2, PTL
=============================================================================
