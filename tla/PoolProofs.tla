----------------------------- MODULE PoolProofs -----------------------------
(***************************************************************************)
(* What ThreadPool keeps true, for any number of threads, of callers and   *)
(* of services per call, at either end of the list and on either platform. *)
(***************************************************************************)
EXTENDS ThreadPool, FiniteSetTheorems, TLAPS

\* Between its test and its pop a thread holds the mutex: nobody else can take
\* from the list it tested.
PastTheTest == \A t \in Threads : tpc[t] = "retest" => destroyed \/ sq # <<>>

USE DEF HandSteps

\* What a thread has in hand or runs, it took from the list.
RunsService == \A t \in Threads : tpc[t] \in HandSteps => target[t] \in Services

InBatch == \A p \in Producers : pushed[p] <= Len(Batch[p])

\* The part of the inductive invariant that control alone keeps.
Control ==
    /\ TypeOK
    /\ LockOwnership
    /\ PastTheTest
    /\ NeverPopsEmpty
    /\ RunsService
    /\ InBatch

LEMMA BatchItems ==
  ASSUME NEW p \in Producers
  PROVE  /\ Batch[p] \in Seq(Services)
         /\ Len(Batch[p]) \in Nat
         /\ DOMAIN Batch[p] = 1 .. Len(Batch[p])
         /\ \A i \in 1 .. Len(Batch[p]) : Batch[p][i] \in Services
  BY BatchAssumption

LEMMA InitControl == Init => Control
<1> SUFFICES ASSUME Init PROVE Control
  OBVIOUS
<1>1. TypeOK
  <2>1. sq \in Seq(Services)
    BY DEF Init
  <2>2. "none" \in ThreadSteps /\ "idle" \in ProducerSteps /\ "activate" \in OwnerSteps
    BY DEF ThreadSteps, ProducerSteps, OwnerSteps
  <2> QED BY <2>1, <2>2 DEF Init, TypeOK
<1>2. LockOwnership
  BY PoolAssumption DEF Init, LockOwnership
<1>3. PastTheTest /\ NeverPopsEmpty /\ RunsService
  BY DEF Init, PastTheTest, NeverPopsEmpty, RunsService
<1>4. InBatch
  BY BatchItems DEF Init, InBatch
<1> QED BY <1>1, <1>2, <1>3, <1>4 DEF Control

-----------------------------------------------------------------------------
(* One lemma per action. *)

LEMMA LockControl ==
  ASSUME Control, NEW t \in Threads, Lock(t)
  PROVE  Control'
  BY PoolAssumption DEF Control, Lock, Goto, TypeOK, ThreadSteps, LockOwnership, PastTheTest,
     NeverPopsEmpty, RunsService, InBatch

LEMMA TestControl ==
  ASSUME Control, NEW t \in Threads, Test(t)
  PROVE  Control'
  BY PoolAssumption DEF Control, Test, Goto, TypeOK, ThreadSteps, LockOwnership, PastTheTest,
     NeverPopsEmpty, RunsService, InBatch

LEMMA SleepControl ==
  ASSUME Control, NEW t \in Threads, Sleep(t)
  PROVE  Control'
  BY PoolAssumption DEF Control, Sleep, Goto, TypeOK, ThreadSteps, LockOwnership, PastTheTest,
     NeverPopsEmpty, RunsService, InBatch

LEMMA WakeupControl ==
  ASSUME Control, NEW t \in Threads, SpuriousWakeup(t)
  PROVE  Control'
  BY PoolAssumption DEF Control, SpuriousWakeup, Goto, TypeOK, ThreadSteps, LockOwnership,
     PastTheTest, NeverPopsEmpty, RunsService, InBatch

LEMMA RetestControl ==
  ASSUME Control, NEW t \in Threads, Retest(t)
  PROVE  Control'
  BY PoolAssumption DEF Control, Retest, Goto, TypeOK, ThreadSteps, LockOwnership, PastTheTest,
     NeverPopsEmpty, RunsService, InBatch

LEMMA TakeControl ==
  ASSUME Control, NEW t \in Threads, Take(t)
  PROVE  Control'
<1>1. sq \in Seq(Services) /\ sq # <<>>
  BY DEF Control, TypeOK, NeverPopsEmpty, Take
<1>2. Head(sq) \in Services /\ Tail(sq) \in Seq(Services)
  BY <1>1
<1>3. TypeOK'
  BY <1>2 DEF Control, Take, Goto, TypeOK, ThreadSteps
<1>4. LockOwnership'
  BY PoolAssumption DEF Control, Take, Goto, TypeOK, LockOwnership
<1>5. \A u \in Threads \ {t} : tpc[u] \notin {"retest", "take"}
  BY DEF Control, Take, LockOwnership
<1>6. PastTheTest' /\ NeverPopsEmpty'
  BY <1>5 DEF Control, TypeOK, Take, Goto, PastTheTest, NeverPopsEmpty
<1>7. RunsService'
  BY <1>2 DEF Control, TypeOK, Take, Goto, RunsService
<1>8. InBatch'
  BY DEF Control, Take, InBatch
<1> QED BY <1>3, <1>4, <1>6, <1>7, <1>8 DEF Control

LEMMA RunControl ==
  ASSUME Control, NEW t \in Threads, Run(t)
  PROVE  Control'
<1>1. target[t] \in Services
  BY DEF Control, RunsService, Run
<1> QED
  BY <1>1, PoolAssumption DEF Control, Run, Goto, TypeOK, ThreadSteps, LockOwnership,
     PastTheTest, NeverPopsEmpty, RunsService, InBatch

LEMMA EnterControl ==
  ASSUME Control, NEW t \in Threads, Enter(t)
  PROVE  Control'
  BY PoolAssumption DEF Control, Enter, Goto, TypeOK, ThreadSteps, LockOwnership,
     PastTheTest, NeverPopsEmpty, RunsService, InBatch

LEMMA LeaveControl ==
  ASSUME Control, NEW t \in Threads, LeaveSvc(t)
  PROVE  Control'
  BY PoolAssumption DEF Control, LeaveSvc, Goto, TypeOK, ThreadSteps, LockOwnership,
     PastTheTest, NeverPopsEmpty, RunsService, InBatch

LEMMA ActivateControl ==
  ASSUME Control, NEW t \in Threads, Activate(t)
  PROVE  Control'
  BY PoolAssumption DEF Control, Activate, Goto, TypeOK, ThreadSteps, LockOwnership,
     PastTheTest, NeverPopsEmpty, RunsService, InBatch

LEMMA CallControl ==
  ASSUME Control, NEW p \in Producers, Call(p)
  PROVE  Control'
  BY PoolAssumption DEF Control, Call, ProducerGoto, TypeOK, ProducerSteps, LockOwnership,
     PastTheTest, NeverPopsEmpty, RunsService, InBatch

LEMMA LockForPushControl ==
  ASSUME Control, NEW p \in Producers, LockForPush(p)
  PROVE  Control'
  BY PoolAssumption DEF Control, LockForPush, ProducerGoto, TypeOK, ProducerSteps, LockOwnership,
     PastTheTest, NeverPopsEmpty, RunsService, InBatch

LEMMA UnlockControl ==
  ASSUME Control, NEW p \in Producers, UnlockAfterPush(p)
  PROVE  Control'
  BY PoolAssumption DEF Control, UnlockAfterPush, ProducerGoto, TypeOK, ProducerSteps,
     LockOwnership, PastTheTest, NeverPopsEmpty, RunsService, InBatch

\* signal wakes at most one thread, which then wants the mutex.
LEMMA SignalWakes ==
  ASSUME tpc \in [Threads -> ThreadSteps], Signal
  PROVE  /\ tpc' \in [Threads -> ThreadSteps]
         /\ \A t \in Threads :
               tpc'[t] = tpc[t] \/ (tpc[t] = "waiting" /\ tpc'[t] = "relock")
  BY DEF Signal, Goto, ThreadSteps

\* What a turn of the loop makes of the list.
LEMMA Pushes ==
  ASSUME Control, NEW p \in Producers, Push(p)
  PROVE  LET s == Batch[p][pushed[p] + 1] IN
         /\ pushed[p] + 1 \in 1 .. Len(Batch[p])
         /\ s \in Services
         /\ sq' = IF p \in AtHead THEN <<s>> \o sq ELSE Append(sq, s)
         /\ sq' \in Seq(Services)
         /\ sq' # <<>>
<1>1. pushed[p] + 1 \in 1 .. Len(Batch[p])
  BY BatchItems DEF Control, TypeOK, Push
<1>2. Batch[p][pushed[p] + 1] \in Services
  BY <1>1, BatchItems
<1>3. sq \in Seq(Services)
  BY DEF Control, TypeOK
<1> QED BY <1>1, <1>2, <1>3 DEF Push

LEMMA PushControl ==
  ASSUME Control, NEW p \in Producers, Push(p)
  PROVE  Control'
<1>1. /\ tpc' \in [Threads -> ThreadSteps]
      /\ \A t \in Threads : tpc'[t] = tpc[t] \/ (tpc[t] = "waiting" /\ tpc'[t] = "relock")
  BY SignalWakes DEF Control, TypeOK, Push
<1>2. TypeOK'
  <2>1. sq' \in Seq(Services)
    BY Pushes
  <2>2. pushed' \in [Producers -> Nat]
    BY DEF Control, TypeOK, Push
  <2> QED BY <1>1, <2>1, <2>2 DEF Control, TypeOK, Push
<1>3. LockOwnership'
  BY <1>1 DEF Control, LockOwnership, Push
<1>4. PastTheTest' /\ NeverPopsEmpty'
  BY Pushes DEF PastTheTest, NeverPopsEmpty
<1>5. RunsService'
  BY <1>1 DEF Control, RunsService, Push
<1>6. InBatch'
  BY BatchItems DEF Control, TypeOK, InBatch, Push
<1> QED BY <1>2, <1>3, <1>4, <1>5, <1>6 DEF Control

LEMMA OwnerControl ==
  ASSUME Control, Owner
  PROVE  Control'
<1>1. CASE Activated
  BY <1>1 DEF Control, Activated, TypeOK, OwnerSteps, LockOwnership, PastTheTest,
     NeverPopsEmpty, RunsService, InBatch
<1>2. CASE SetDestroyed
  BY <1>2 DEF Control, SetDestroyed, TypeOK, OwnerSteps, LockOwnership, PastTheTest,
     NeverPopsEmpty, RunsService, InBatch
<1>3. CASE Broadcast
  BY <1>3 DEF Control, Broadcast, TypeOK, ThreadSteps, OwnerSteps, LockOwnership, PastTheTest,
     NeverPopsEmpty, RunsService, InBatch
<1>4. CASE Wait
  BY <1>4 DEF Control, Wait, TypeOK, OwnerSteps, LockOwnership, PastTheTest,
     NeverPopsEmpty, RunsService, InBatch
<1>5. CASE Delete
  BY <1>5 DEF Control, Delete, TypeOK, OwnerSteps, LockOwnership, PastTheTest,
     NeverPopsEmpty, RunsService, InBatch
<1> QED BY <1>1, <1>2, <1>3, <1>4, <1>5 DEF Owner

LEMMA StepControl == Control /\ [Next]_vars => Control'
<1> SUFFICES ASSUME Control, [Next]_vars PROVE Control'
  OBVIOUS
<1>1. CASE \E t \in Threads : Thread(t) \/ SpuriousWakeup(t) \/ Activate(t)
  BY <1>1, LockControl, TestControl, SleepControl, WakeupControl, RetestControl, TakeControl,
     EnterControl, RunControl, LeaveControl, ActivateControl DEF Thread
<1>2. CASE \E p \in Producers : Call(p) \/ Producer(p)
  BY <1>2, CallControl, LockForPushControl, PushControl, UnlockControl DEF Producer
<1>3. CASE Owner
  BY <1>3, OwnerControl
<1>4. CASE UNCHANGED vars
  BY <1>4 DEF vars, Control, TypeOK, LockOwnership, PastTheTest, NeverPopsEmpty, RunsService,
     InBatch
<1> QED BY <1>1, <1>2, <1>3, <1>4 DEF Next

LEMMA AlwaysControl == Spec => []Control
  BY InitControl, StepControl, PTL DEF Spec

\* Every variable of the pool keeps its type.
THEOREM PoolTypeCorrect == Spec => []TypeOK
<1>1. Control => TypeOK
  BY DEF Control
<1> QED BY <1>1, AlwaysControl, PTL

\* The mutex is with the one thread or call between its lock and its unlock
\* (threadpool.cpp:29-63, 85-110), through every release inside a wait.
THEOREM MutexHasOneOwner == Spec => []LockOwnership
<1>1. Control => LockOwnership
  BY DEF Control
<1> QED BY <1>1, AlwaysControl, PTL

\* No thread applies pop_front to an empty list (threadpool.cpp:98-100), whatever
\* wakes it and however many it shares the list with.
THEOREM PopsWhatItTested == Spec => []NeverPopsEmpty
<1>1. Control => NeverPopsEmpty
  BY DEF Control
<1> QED BY <1>1, AlwaysControl, PTL

-----------------------------------------------------------------------------
(* destroy waits for every thread, on POSIX *)

\* A thread that started is in the list, which destroy walks to its end; once it
\* has, no thread is left that could take a step.
Joins ==
    Platform = "posix" =>
        /\ owner # "deleted" => \A t \in Threads : tpc[t] # "none" => t \in recorded
        /\ ExitedBeforeDelete

LEMMA RunningThreadSteps ==
  ASSUME Control, NEW t \in Threads, Thread(t) \/ SpuriousWakeup(t)
  PROVE  /\ tpc[t] \notin {"none", "exited"}
         /\ \A u \in Threads \ {t} : tpc'[u] = tpc[u]
         /\ recorded' = recorded
         /\ owner' = owner
  BY DEF Control, TypeOK, Thread, SpuriousWakeup, Lock, Test, Sleep, Retest, Take, Enter, Run,
     LeaveSvc, Goto

LEMMA StepJoins == Joins /\ Control /\ [Next]_vars => Joins'
<1> SUFFICES ASSUME Joins, Control, [Next]_vars, Platform = "posix"
             PROVE  /\ owner' # "deleted" =>
                          \A t \in Threads : tpc'[t] # "none" => t \in recorded'
                    /\ ExitedBeforeDelete'
  BY DEF Joins
<1>1. ASSUME NEW t \in Threads, Thread(t) \/ SpuriousWakeup(t)
      PROVE  /\ owner' # "deleted" =>
                   \A u \in Threads : tpc'[u] # "none" => u \in recorded'
             /\ ExitedBeforeDelete'
  BY <1>1, RunningThreadSteps DEF Joins, ExitedBeforeDelete
<1>2. ASSUME NEW t \in Threads, Activate(t)
      PROVE  /\ owner' # "deleted" =>
                   \A u \in Threads : tpc'[u] # "none" => u \in recorded'
             /\ ExitedBeforeDelete'
  BY <1>2 DEF Joins, ExitedBeforeDelete, Activate, Goto, Control, TypeOK
<1>3. ASSUME NEW p \in Producers, Call(p) \/ LockForPush(p) \/ UnlockAfterPush(p)
      PROVE  tpc' = tpc /\ recorded' = recorded /\ owner' = owner
  BY <1>3 DEF Call, LockForPush, UnlockAfterPush
<1>4. ASSUME NEW p \in Producers, Push(p)
      PROVE  /\ owner' # "deleted" =>
                   \A u \in Threads : tpc'[u] # "none" => u \in recorded'
             /\ ExitedBeforeDelete'
  <2>1. \A u \in Threads : tpc'[u] = tpc[u] \/ (tpc[u] = "waiting" /\ tpc'[u] = "relock")
    BY <1>4, SignalWakes DEF Control, TypeOK, Push
  <2> QED BY <1>4, <2>1 DEF Joins, ExitedBeforeDelete, Push
<1>5. CASE Owner
  <2>1. CASE Broadcast
    BY <2>1 DEF Joins, ExitedBeforeDelete, Broadcast
  <2>2. CASE Wait
    BY <2>2 DEF Joins, ExitedBeforeDelete, Wait
  <2>3. CASE Delete
    BY <2>3 DEF Joins, ExitedBeforeDelete, Delete
  <2>4. CASE Activated \/ SetDestroyed
    BY <2>4 DEF Joins, ExitedBeforeDelete, Activated, SetDestroyed
  <2> QED BY <1>5, <2>1, <2>2, <2>3, <2>4 DEF Owner
<1>6. CASE tpc' = tpc /\ recorded' = recorded /\ owner' = owner
  BY <1>6 DEF Joins, ExitedBeforeDelete
<1> QED BY <1>1, <1>2, <1>3, <1>4, <1>5, <1>6 DEF Next, Producer, vars

\* On POSIX destroy has joined every thread before it deletes the pool they run in
\* ("wait all worker threads exit", threadpool.cpp:73), however many threads there
\* are and whatever they are doing when it begins.
THEOREM JoinedBeforeDelete ==
  ASSUME Platform = "posix"
  PROVE  Spec => []ExitedBeforeDelete
<1>1. Init => Joins
  BY DEF Init, Joins, ExitedBeforeDelete
<1>2. Joins => ExitedBeforeDelete
  BY DEF Joins
<1>3. Spec => []Joins
  BY <1>1, StepJoins, AlwaysControl, PTL DEF Spec
<1> QED BY <1>2, <1>3, PTL

-----------------------------------------------------------------------------
(* Where a service is *)

Once(q) == \A i, j \in DOMAIN q : q[i] = q[j] => i = j

Items(q) == {q[i] : i \in DOMAIN q}

LEMMA OfTail ==
  ASSUME NEW S, NEW q \in Seq(S), q # <<>>
  PROVE  /\ Len(q) \in Nat \ {0} /\ DOMAIN q = 1 .. Len(q)
         /\ DOMAIN Tail(q) = 1 .. Len(q) - 1
         /\ \A i \in 1 .. Len(q) - 1 : Tail(q)[i] = q[i + 1]
         /\ Head(q) = q[1]
  OBVIOUS

LEMMA OfPush ==
  ASSUME NEW S, NEW q \in Seq(S), NEW s \in S
  PROVE  /\ Len(q) \in Nat /\ DOMAIN q = 1 .. Len(q)
         /\ DOMAIN (<<s>> \o q) = 1 .. Len(q) + 1
         /\ (<<s>> \o q)[1] = s
         /\ \A i \in 1 .. Len(q) : (<<s>> \o q)[i + 1] = q[i]
         /\ DOMAIN Append(q, s) = 1 .. Len(q) + 1
         /\ Append(q, s)[Len(q) + 1] = s
         /\ \A i \in 1 .. Len(q) : Append(q, s)[i] = q[i]
  OBVIOUS

\* Taking the first item of a list leaves the others, each where it was but one.
LEMMA ItemsOfTail ==
  ASSUME NEW S, NEW q \in Seq(S), q # <<>>, Once(q)
  PROVE  /\ Once(Tail(q))
         /\ Head(q) \in Items(q)
         /\ Items(Tail(q)) = Items(q) \ {Head(q)}
<1>1. Once(Tail(q))
  BY OfTail DEF Once
<1>2. Head(q) \in Items(q)
  BY OfTail DEF Items
<1>3. ASSUME NEW x \in Items(Tail(q)) PROVE x \in Items(q) \ {Head(q)}
  <2>1. PICK i \in 1 .. Len(q) - 1 : x = q[i + 1]
    BY <1>3, OfTail DEF Items
  <2>2. i + 1 \in DOMAIN q /\ 1 \in DOMAIN q /\ i + 1 # 1
    BY <2>1, OfTail
  <2> QED BY <2>1, <2>2, OfTail DEF Items, Once
<1>4. ASSUME NEW x \in Items(q) \ {Head(q)} PROVE x \in Items(Tail(q))
  <2>1. PICK i \in DOMAIN q : x = q[i]
    BY DEF Items
  <2>2. i - 1 \in DOMAIN Tail(q) /\ Tail(q)[i - 1] = q[i]
    BY <2>1, OfTail
  <2> QED BY <2>1, <2>2 DEF Items
<1> QED BY <1>1, <1>2, <1>3, <1>4

\* A new item at either end.
LEMMA ItemsOfPush ==
  ASSUME NEW S, NEW q \in Seq(S), NEW s \in S \ Items(q), Once(q),
         NEW r, r = <<s>> \o q \/ r = Append(q, s)
  PROVE  Once(r) /\ Items(r) = Items(q) \cup {s}
<1>1. CASE r = <<s>> \o q
  <2>1. \A i \in DOMAIN r : i = 1 \/ (i - 1 \in DOMAIN q /\ r[i] = q[i - 1])
    BY <1>1, OfPush
  <2>2. \A i \in DOMAIN q : i + 1 \in DOMAIN r /\ r[i + 1] = q[i]
    BY <1>1, OfPush
  <2>3. 1 \in DOMAIN r /\ r[1] = s /\ DOMAIN r = 1 .. Len(q) + 1 /\ Len(q) \in Nat
    BY <1>1, OfPush
  <2>4. Once(r)
    BY <2>1, <2>3 DEF Once, Items
  <2>5. Items(r) = Items(q) \cup {s}
    BY SMTT(30), <2>1, <2>2, <2>3 DEF Items
  <2> QED BY <2>4, <2>5
<1>2. CASE r = Append(q, s)
  <2>1. \A i \in DOMAIN r : i = Len(q) + 1 \/ (i \in DOMAIN q /\ r[i] = q[i])
    BY <1>2, OfPush
  <2>2. \A i \in DOMAIN q : i \in DOMAIN r /\ r[i] = q[i]
    BY <1>2, OfPush
  <2>3. Len(q) + 1 \in DOMAIN r /\ r[Len(q) + 1] = s
    BY <1>2, OfPush
  <2>4. Once(r)
    BY <2>1, <2>3 DEF Once, Items
  <2>5. Items(r) = Items(q) \cup {s}
    BY <2>1, <2>2, <2>3 DEF Items
  <2> QED BY <2>4, <2>5
<1> QED BY <1>1, <1>2

LEMMA AccountedByItems ==
  /\ Accounted <=>
        /\ PushedServices = Items(sq) \cup InHand \cup finished
        /\ Items(sq) \cap Taken = {} /\ InHand \cap finished = {}
        /\ Once(sq)
        /\ \A t, u \in Threads :
              tpc[t] \in HandSteps /\ tpc[u] \in HandSteps /\ target[t] = target[u] => t = u
  BY DEF Accounted, Queued, Items, Once

\* A step that neither moves a service nor begins or ends one.
LEMMA QuietAccounted ==
  ASSUME Accounted, sq' = sq, finished' = finished, pushed' = pushed,
         \A t \in Threads : (tpc'[t] \in HandSteps <=> tpc[t] \in HandSteps)
                            /\ (tpc[t] \in HandSteps => target'[t] = target[t])
  PROVE  Accounted'
<1>1. PushedServices' = PushedServices /\ Queued' = Queued
  BY DEF PushedServices, Queued
<1>2. InHand' = InHand
  BY DEF InHand
<1> QED BY <1>1, <1>2 DEF Accounted, Taken

LEMMA TakeAccounted ==
  ASSUME Control, Accounted, NEW t \in Threads, Take(t)
  PROVE  Accounted'
<1>1. sq \in Seq(Services) /\ sq # <<>>
  BY DEF Control, TypeOK, NeverPopsEmpty, Take
<1>2. /\ Once(sq')
      /\ Head(sq) \in Items(sq)
      /\ Items(sq') = Items(sq) \ {Head(sq)}
  BY <1>1, ItemsOfTail, AccountedByItems DEF Take
<1>3. /\ tpc'[t] \in HandSteps /\ target'[t] = Head(sq) /\ tpc[t] \notin HandSteps
      /\ \A u \in Threads \ {t} : tpc'[u] = tpc[u] /\ target'[u] = target[u]
  BY DEF Control, TypeOK, Take, Goto
<1>4. InHand' = InHand \cup {Head(sq)}
  BY <1>3 DEF InHand
<1>5. PushedServices' = PushedServices /\ finished' = finished
  BY DEF PushedServices, Take
<1>6. \A u \in Threads : tpc[u] \in HandSteps => target[u] # Head(sq)
  BY <1>2, AccountedByItems DEF Taken, InHand
<1>7. \A u, v \in Threads :
         tpc'[u] \in HandSteps /\ tpc'[v] \in HandSteps /\ target'[u] = target'[v] => u = v
  BY <1>3, <1>6 DEF Accounted
<1>8. /\ PushedServices' = Items(sq') \cup InHand' \cup finished'
      /\ Items(sq') \cap (InHand' \cup finished') = {} /\ InHand' \cap finished' = {}
  BY <1>2, <1>4, <1>5, AccountedByItems DEF Taken
<1> QED BY <1>2, <1>7, <1>8 DEF Accounted, Queued, Items, Once, Taken

LEMMA RunAccounted ==
  ASSUME Control, Accounted, NEW t \in Threads, Run(t)
  PROVE  Accounted'
<1>1. /\ tpc[t] \in HandSteps /\ tpc'[t] \notin HandSteps /\ target' = target
      /\ \A u \in Threads \ {t} : tpc'[u] = tpc[u]
  BY DEF Control, TypeOK, Run, Goto
<1>2. InHand' = InHand \ {target[t]} /\ target[t] \in InHand
  BY <1>1 DEF InHand, Accounted
<1>3. finished' = finished \cup {target[t]} /\ sq' = sq /\ PushedServices' = PushedServices
  BY DEF Run, PushedServices
<1>4. Queued' = Queued
  BY <1>3 DEF Queued
<1> QED BY <1>1, <1>2, <1>3, <1>4 DEF Accounted, Taken

\* The services of the batches are distinct: the one that is pushed is new.
LEMMA PushesNew ==
  ASSUME Control, NEW p \in Producers, Push(p)
  PROVE  /\ pushed[p] \in Nat /\ pushed[p] + 1 \in DOMAIN Batch[p]
         /\ pushed' = [pushed EXCEPT ![p] = @ + 1]
         /\ \A q \in Producers : \A i \in 1 .. pushed[q] :
               Batch[q][i] # Batch[p][pushed[p] + 1]
<1>1. /\ pushed[p] \in Nat /\ pushed[p] + 1 \in DOMAIN Batch[p]
      /\ \A q \in Producers : pushed[q] \in Nat /\ pushed[q] <= Len(Batch[q])
      /\ pushed' = [pushed EXCEPT ![p] = @ + 1]
  BY Pushes, BatchItems DEF Control, TypeOK, InBatch, Push
<1>2. ASSUME NEW q \in Producers, NEW i \in 1 .. pushed[q],
             Batch[q][i] = Batch[p][pushed[p] + 1]
      PROVE  FALSE
  <2>1. i \in DOMAIN Batch[q]
    BY <1>1, BatchItems
  <2>2. q = p /\ i = pushed[p] + 1
    BY <1>1, <1>2, <2>1, BatchAssumption
  <2> QED BY <1>1, <2>2
<1> QED BY <1>1, <1>2

LEMMA PushAccounted ==
  ASSUME Control, Accounted, NEW p \in Producers, Push(p)
  PROVE  Accounted'
<1> DEFINE s == Batch[p][pushed[p] + 1]
<1>1. /\ pushed[p] \in Nat /\ pushed[p] + 1 \in DOMAIN Batch[p]
      /\ pushed' = [pushed EXCEPT ![p] = @ + 1]
  BY PushesNew
<1>2. s \notin PushedServices
  BY PushesNew DEF PushedServices
<1>3. PushedServices' = PushedServices \cup {s}
  <2>1. ASSUME NEW x \in PushedServices' PROVE x \in PushedServices \cup {s}
    <3>0. PICK q \in Producers : x \in {Batch[q][i] : i \in 1 .. pushed'[q]}
      BY <2>1 DEF PushedServices
    <3>1. PICK i \in 1 .. pushed'[q] : x = Batch[q][i]
      BY <3>0
    <3>2. i \in 1 .. pushed[q] \/ (q = p /\ i = pushed[p] + 1)
      BY <1>1, <3>1 DEF Control, TypeOK
    <3> QED BY <3>1, <3>2 DEF PushedServices
  <2>2. ASSUME NEW x \in PushedServices PROVE x \in PushedServices'
    <3>0. PICK q \in Producers : x \in {Batch[q][i] : i \in 1 .. pushed[q]}
      BY <2>2 DEF PushedServices
    <3>1. PICK i \in 1 .. pushed[q] : x = Batch[q][i]
      BY <3>0
    <3>2. i \in 1 .. pushed'[q]
      BY <1>1, <3>1 DEF Control, TypeOK
    <3> QED BY <3>1, <3>2 DEF PushedServices
  <2>3. s \in PushedServices'
    <3>1. pushed[p] + 1 \in 1 .. pushed'[p]
      BY <1>1 DEF Control, TypeOK
    <3> QED BY <3>1 DEF PushedServices
  <2> QED BY <2>1, <2>2, <2>3
<1>4. Once(sq') /\ Items(sq') = Items(sq) \cup {s}
  <2>1. sq \in Seq(Services) /\ Once(sq) /\ s \in Services \ Items(sq)
    BY <1>2, Pushes, AccountedByItems DEF Control, TypeOK
  <2>2. sq' = <<s>> \o sq \/ sq' = Append(sq, s)
    BY Pushes
  <2> QED BY <2>1, <2>2, ItemsOfPush
<1>5. \A t \in Threads : tpc'[t] \in HandSteps <=> tpc[t] \in HandSteps
  BY SignalWakes DEF Control, TypeOK, Push
<1>6. finished' = finished /\ target' = target /\ InHand' = InHand
  BY <1>5 DEF InHand, Push
<1>7. /\ PushedServices' = Items(sq') \cup InHand' \cup finished'
      /\ Items(sq') \cap (InHand' \cup finished') = {} /\ InHand' \cap finished' = {}
  BY <1>2, <1>3, <1>4, <1>6, AccountedByItems DEF Taken
<1>8. \A t, u \in Threads :
         tpc'[t] \in HandSteps /\ tpc'[u] \in HandSteps /\ target'[t] = target'[u] => t = u
  BY <1>5, <1>6 DEF Accounted
<1> QED BY <1>4, <1>7, <1>8 DEF Accounted, Queued, Items, Once, Taken

LEMMA StepAccounted == Control /\ Accounted /\ [Next]_vars => Accounted'
<1> SUFFICES ASSUME Control, Accounted, [Next]_vars PROVE Accounted'
  OBVIOUS
<1>1. ASSUME NEW t \in Threads,
             Lock(t) \/ Test(t) \/ Sleep(t) \/ Retest(t) \/ Enter(t) \/ LeaveSvc(t)
               \/ SpuriousWakeup(t) \/ Activate(t)
      PROVE  Accounted'
  BY <1>1, QuietAccounted DEF Control, TypeOK, Lock, Test, Sleep, Retest, Enter, LeaveSvc,
     SpuriousWakeup, Activate, Goto
<1>2. ASSUME NEW p \in Producers, Call(p) \/ LockForPush(p) \/ UnlockAfterPush(p)
      PROVE  Accounted'
  BY <1>2, QuietAccounted DEF Call, LockForPush, UnlockAfterPush
<1>3. CASE Owner
  BY <1>3, QuietAccounted DEF Control, TypeOK, Owner, Activated, SetDestroyed, Broadcast, Wait,
     Delete
<1>4. CASE UNCHANGED vars
  BY <1>4, QuietAccounted DEF vars
<1> QED
  BY <1>1, <1>2, <1>3, <1>4, TakeAccounted, RunAccounted, PushAccounted
     DEF Next, Thread, Producer

\* Every service that was enqueued is in the list, in the hands of one thread or
\* finished, and in one of these once (threadpool.cpp:29-63, 98-104): no number of
\* threads loses one or executes it twice.
THEOREM EveryServiceAccounted == Spec => []Accounted
<1>1. Init => Accounted
  BY DEF Init, Accounted, PushedServices, Queued, InHand, Taken
<1> QED BY <1>1, AlwaysControl, StepAccounted, PTL DEF Spec

-----------------------------------------------------------------------------
(* The order of the services of one call *)

\* A call has the mutex from its first push to its last, so that no service of it
\* is taken before all of them are in the list.
Fresh ==
    \A p \in Producers :
        /\ ppc[p] \in {"idle", "lock"} => pushed[p] = 0
        /\ ppc[p] # "returned" => \A i \in 1 .. pushed[p] : Batch[p][i] \notin Taken

\* In the list they stand in the order of the array, or in the opposite one.
Placed ==
    \A p \in Producers : \A i, j \in 1 .. pushed[p] : \A a, b \in DOMAIN sq :
        i < j /\ sq[a] = Batch[p][i] /\ sq[b] = Batch[p][j]
            => IF p \in AtHead THEN b < a ELSE a < b

Order == Fresh /\ Placed /\ CallOrder

LEMMA QuietOrder ==
  ASSUME Order, sq' = sq, Taken' = Taken, pushed' = pushed,
         \A p \in Producers :
            \/ ppc'[p] = ppc[p]
            \/ ppc[p] \in {"idle", "lock"} /\ ppc'[p] # "returned"
            \/ ppc'[p] = "returned"
  PROVE  Order'
<1>1. Fresh'
  <2> SUFFICES ASSUME NEW p \in Producers
               PROVE  /\ ppc'[p] \in {"idle", "lock"} => pushed[p] = 0
                      /\ ppc'[p] # "returned" =>
                            \A i \in 1 .. pushed[p] : Batch[p][i] \notin Taken
    BY DEF Fresh
  <2> QED BY DEF Order, Fresh
<1>2. Placed'
  BY DEF Order, Placed
<1>3. CallOrder'
  BY DEF Order, CallOrder
<1> QED BY <1>1, <1>2, <1>3 DEF Order

\* A thread's step leaves the taken services as they are, unless it takes one.
LEMMA ThreadTakes ==
  ASSUME Control, NEW t \in Threads, Thread(t) \/ SpuriousWakeup(t) \/ Activate(t), ~Take(t)
  PROVE  Taken' = Taken /\ sq' = sq /\ pushed' = pushed /\ ppc' = ppc
<1>1. sq' = sq /\ pushed' = pushed /\ ppc' = ppc
  BY DEF Thread, Lock, Test, Sleep, Retest, Enter, Run, LeaveSvc, SpuriousWakeup, Activate
<1>2. CASE Run(t)
  <2>1. /\ tpc[t] \in HandSteps /\ tpc'[t] \notin HandSteps /\ target' = target
        /\ finished' = finished \cup {target[t]}
        /\ \A u \in Threads \ {t} : tpc'[u] = tpc[u]
    BY <1>2 DEF Control, TypeOK, Run, Goto
  <2> QED BY <1>1, <2>1 DEF Taken, InHand
<1>3. CASE ~Run(t)
  <2>1. /\ target' = target /\ finished' = finished
        /\ \A u \in Threads : tpc'[u] \in HandSteps <=> tpc[u] \in HandSteps
    BY <1>3 DEF Control, TypeOK, Thread, Lock, Test, Sleep, Retest, Enter, LeaveSvc, SpuriousWakeup,
       Activate, Goto
  <2> QED BY <1>1, <2>1 DEF Taken, InHand
<1> QED BY <1>1, <1>2, <1>3

LEMMA TakeOrder ==
  ASSUME Control, Accounted, Order, NEW t \in Threads, Take(t)
  PROVE  Order'
<1>1. sq \in Seq(Services) /\ sq # <<>>
  BY DEF Control, TypeOK, NeverPopsEmpty, Take
<1>2. Taken' = Taken \cup {Head(sq)}
  <2>1. /\ tpc'[t] \in HandSteps /\ target'[t] = Head(sq) /\ tpc[t] \notin HandSteps /\ finished' = finished
        /\ \A u \in Threads \ {t} : tpc'[u] = tpc[u] /\ target'[u] = target[u]
    BY DEF Control, TypeOK, Take, Goto
  <2> QED BY <2>1 DEF Taken, InHand
<1>3. pushed' = pushed /\ ppc' = ppc /\ sq' = Tail(sq)
  BY DEF Take
<1>4. \A p \in Producers : ppc[p] # "push"
  BY PoolAssumption DEF Control, LockOwnership, Take
<1>5. \A p \in Producers : pushed[p] \in Nat /\ ppc[p] \in ProducerSteps
  BY DEF Control, TypeOK
<1>6. Fresh'
  <2> SUFFICES ASSUME NEW p \in Producers
               PROVE  /\ ppc[p] \in {"idle", "lock"} => pushed[p] = 0
                      /\ ppc[p] # "returned" =>
                            \A i \in 1 .. pushed[p] : Batch[p][i] \notin Taken'
    BY <1>3 DEF Fresh
  <2> QED BY <1>4, <1>5 DEF Order, Fresh, ProducerSteps
<1>7. Placed'
  <2> SUFFICES ASSUME NEW p \in Producers, NEW i \in 1 .. pushed[p], NEW j \in 1 .. pushed[p],
                      NEW a \in DOMAIN sq', NEW b \in DOMAIN sq',
                      i < j, sq'[a] = Batch[p][i], sq'[b] = Batch[p][j]
               PROVE  IF p \in AtHead THEN b < a ELSE a < b
    BY <1>3 DEF Placed
  <2>1. /\ a \in Int /\ b \in Int /\ a + 1 \in DOMAIN sq /\ b + 1 \in DOMAIN sq
        /\ sq[a + 1] = Batch[p][i] /\ sq[b + 1] = Batch[p][j]
    BY <1>1, <1>3, OfTail
  <2>2. IF p \in AtHead THEN b + 1 < a + 1 ELSE a + 1 < b + 1
    BY <2>1 DEF Order, Placed
  <2> QED BY <2>1, <2>2
<1>8. CallOrder'
  <2> SUFFICES ASSUME NEW p \in Producers, NEW i \in 1 .. pushed[p], NEW j \in 1 .. pushed[p],
                      i < j
               PROVE  IF p \in AtHead
                        THEN Batch[p][i] \in Taken' => Batch[p][j] \in Taken'
                        ELSE Batch[p][j] \in Taken' => Batch[p][i] \in Taken'
    BY <1>3 DEF CallOrder
  <2>1. ASSUME NEW k \in 1 .. pushed[p], Batch[p][k] \notin Taken
        PROVE  \E a \in DOMAIN sq : sq[a] = Batch[p][k]
    <3>1. Batch[p][k] \in PushedServices
      BY DEF PushedServices
    <3> QED BY <2>1, <3>1 DEF Accounted, Taken, Queued
  <2>2. 1 \in DOMAIN sq /\ sq[1] = Head(sq) /\ \A a \in DOMAIN sq : a \in Int /\ ~(a < 1)
    BY <1>1, OfTail
  <2>3. CASE p \in AtHead /\ Batch[p][i] = Head(sq)
    <3>1. \A a \in DOMAIN sq : sq[a] # Batch[p][j]
      BY <2>2, <2>3 DEF Order, Placed
    <3> QED BY <1>2, <2>1, <2>3, <3>1
  <2>4. CASE p \notin AtHead /\ Batch[p][j] = Head(sq)
    <3>1. \A a \in DOMAIN sq : sq[a] # Batch[p][i]
      BY <2>2, <2>4 DEF Order, Placed
    <3> QED BY <1>2, <2>1, <2>4, <3>1
  <2> QED BY <1>2, <2>3, <2>4 DEF Order, CallOrder
<1> QED BY <1>6, <1>7, <1>8 DEF Order

LEMMA PushOrder ==
  ASSUME Control, Accounted, Order, NEW p \in Producers, Push(p)
  PROVE  Order'
<1> DEFINE s == Batch[p][pushed[p] + 1]
           n == pushed[p] + 1
<1>1. /\ pushed[p] \in Nat /\ n \in DOMAIN Batch[p]
      /\ \A q \in Producers : pushed[q] \in Nat
      /\ \A q \in Producers \ {p} : pushed'[q] = pushed[q]
      /\ pushed'[p] = n
      /\ ppc' = ppc /\ ppc[p] = "push"
  BY PushesNew DEF Control, TypeOK, Push
<1>2. \A q \in Producers : \A i \in 1 .. pushed[q] : Batch[q][i] # s
  BY PushesNew
<1>3. s \notin Items(sq) /\ s \notin Taken
  BY <1>2, AccountedByItems DEF PushedServices, Taken
<1>4. Taken' = Taken
  <2>1. \A t \in Threads : tpc'[t] \in HandSteps <=> tpc[t] \in HandSteps
    BY SignalWakes DEF Control, TypeOK, Push
  <2> QED BY <2>1 DEF Taken, InHand, Push
<1>5. \A i \in 1 .. n : i = n \/ i \in 1 .. pushed[p]
  BY <1>1
<1>6. \A i \in 1 .. n : Batch[p][i] \notin Taken
  BY <1>1, <1>3, <1>5 DEF Order, Fresh
<1>7. Fresh'
  <2> SUFFICES ASSUME NEW q \in Producers
               PROVE  /\ ppc[q] \in {"idle", "lock"} => pushed'[q] = 0
                      /\ ppc[q] # "returned" =>
                            \A i \in 1 .. pushed'[q] : Batch[q][i] \notin Taken
    BY <1>1, <1>4 DEF Fresh
  <2>1. CASE q = p
    BY <1>1, <1>6, <2>1
  <2>2. CASE q # p
    BY <1>1, <2>2 DEF Order, Fresh
  <2> QED BY <2>1, <2>2
<1>8. CallOrder'
  <2> SUFFICES ASSUME NEW q \in Producers, NEW i \in 1 .. pushed'[q], NEW j \in 1 .. pushed'[q],
                      i < j
               PROVE  IF q \in AtHead
                        THEN Batch[q][i] \in Taken => Batch[q][j] \in Taken
                        ELSE Batch[q][j] \in Taken => Batch[q][i] \in Taken
    BY <1>4 DEF CallOrder
  <2>1. CASE q = p
    BY <1>1, <1>6, <2>1
  <2>2. CASE q # p
    BY <1>1, <2>2 DEF Order, CallOrder
  <2> QED BY <2>1, <2>2
<1>9. Placed'
  <2> SUFFICES ASSUME NEW q \in Producers, NEW i \in 1 .. pushed'[q], NEW j \in 1 .. pushed'[q],
                      NEW a \in DOMAIN sq', NEW b \in DOMAIN sq',
                      i < j, sq'[a] = Batch[q][i], sq'[b] = Batch[q][j]
               PROVE  IF q \in AtHead THEN b < a ELSE a < b
    BY DEF Placed
  <2>1. sq \in Seq(Services) /\ s \in Services
    BY Pushes DEF Control, TypeOK
  <2>2. CASE q = p /\ j = n
    <3>1. i \in 1 .. pushed[p] /\ Batch[p][i] # s /\ sq'[a] # s /\ sq'[b] = s
      BY <1>1, <1>2, <2>2
    <3>2. CASE p \in AtHead
      <4>1. sq' = <<s>> \o sq
        BY <3>2, Pushes
      <4>2. DOMAIN sq' = 1 .. Len(sq) + 1 /\ Len(sq) \in Nat /\ sq'[1] = s
            /\ \A k \in DOMAIN sq' : k = 1 \/ (k - 1 \in DOMAIN sq /\ sq'[k] = sq[k - 1])
        BY <2>1, <4>1, OfPush
      <4>3. a # 1 /\ b = 1
        BY <1>3, <3>1, <4>2 DEF Items
      <4> QED BY <2>2, <3>2, <4>2, <4>3
    <3>3. CASE p \notin AtHead
      <4>1. sq' = Append(sq, s)
        BY <3>3, Pushes
      <4>2. DOMAIN sq' = 1 .. Len(sq) + 1 /\ Len(sq) \in Nat /\ sq'[Len(sq) + 1] = s
            /\ \A k \in DOMAIN sq' : k = Len(sq) + 1 \/ (k \in DOMAIN sq /\ sq'[k] = sq[k])
        BY <2>1, <4>1, OfPush
      <4>3. a # Len(sq) + 1 /\ b = Len(sq) + 1
        BY <1>3, <3>1, <4>2 DEF Items
      <4> QED BY <2>2, <3>3, <4>2, <4>3
    <3> QED BY <3>2, <3>3
  <2>3. CASE ~(q = p /\ j = n)
    <3>1. i \in 1 .. pushed[q] /\ j \in 1 .. pushed[q]
      BY <1>1, <2>3
    <3>2. sq'[a] # s /\ sq'[b] # s
      BY <1>2, <3>1
    <3>3. CASE p \in AtHead
      <4>1. sq' = <<s>> \o sq
        BY <3>3, Pushes
      <4>2. DOMAIN sq' = 1 .. Len(sq) + 1 /\ Len(sq) \in Nat /\ sq'[1] = s
            /\ \A k \in DOMAIN sq' : k = 1 \/ (k - 1 \in DOMAIN sq /\ sq'[k] = sq[k - 1])
        BY <2>1, <4>1, OfPush
      <4>3. /\ a \in Int /\ b \in Int /\ a - 1 \in DOMAIN sq /\ b - 1 \in DOMAIN sq
            /\ sq[a - 1] = Batch[q][i] /\ sq[b - 1] = Batch[q][j]
        BY <3>2, <4>2
      <4>4. IF q \in AtHead THEN b - 1 < a - 1 ELSE a - 1 < b - 1
        BY <3>1, <4>3 DEF Order, Placed
      <4> QED BY <4>3, <4>4
    <3>4. CASE p \notin AtHead
      <4>1. sq' = Append(sq, s)
        BY <3>4, Pushes
      <4>2. /\ a \in DOMAIN sq /\ b \in DOMAIN sq
            /\ sq[a] = Batch[q][i] /\ sq[b] = Batch[q][j]
        BY <2>1, <3>2, <4>1, OfPush
      <4> QED BY <3>1, <4>2 DEF Order, Placed
    <3> QED BY <3>3, <3>4
  <2> QED BY <2>2, <2>3
<1> QED BY <1>7, <1>8, <1>9 DEF Order

LEMMA StepOrder == Control /\ Accounted /\ Order /\ [Next]_vars => Order'
<1> SUFFICES ASSUME Control, Accounted, Order, [Next]_vars PROVE Order'
  OBVIOUS
<1>1. ASSUME NEW t \in Threads, Thread(t) \/ SpuriousWakeup(t) \/ Activate(t)
      PROVE  Order'
  BY <1>1, TakeOrder, ThreadTakes, QuietOrder
<1>2. ASSUME NEW p \in Producers, Call(p) \/ LockForPush(p) \/ UnlockAfterPush(p)
      PROVE  Order'
  <2>1. Taken' = Taken
    BY <1>2 DEF Taken, InHand, Call, LockForPush, UnlockAfterPush
  <2> QED
    BY <1>2, <2>1, QuietOrder DEF Control, TypeOK, Call, LockForPush, UnlockAfterPush,
       ProducerGoto
<1>3. CASE Owner
  <2>1. /\ target' = target /\ finished' = finished /\ sq' = sq /\ pushed' = pushed /\ ppc' = ppc
        /\ \A t \in Threads : tpc'[t] \in HandSteps <=> tpc[t] \in HandSteps
    BY <1>3 DEF Control, TypeOK, Owner, Activated, SetDestroyed, Broadcast, Wait, Delete
  <2>2. Taken' = Taken
    BY <2>1 DEF Taken, InHand
  <2> QED BY <2>1, <2>2, QuietOrder
<1>4. CASE UNCHANGED vars
  <2>1. Taken' = Taken
    BY <1>4 DEF Taken, InHand, vars
  <2> QED BY <1>4, <2>1, QuietOrder DEF vars
<1> QED BY <1>1, <1>2, <1>3, <1>4, PushOrder DEF Next, Producer

\* The services of one enqueue_tail_n leave the list in the order of the array, those
\* of one enqueue_head_n in the opposite order, however long the call, whatever other
\* calls come between, and with any number of threads.  When a service starts, those
\* before it in its call are thus finished or in the hands of other threads, but not
\* always started: entry() is called without the mutex.
THEOREM CallsKeepOrder == Spec => []CallOrder
<1>1. Init => Order
  BY DEF Init, Order, Fresh, Placed, CallOrder
<1>2. Order => CallOrder
  BY DEF Order
<1>3. Spec => []Accounted
  BY EveryServiceAccounted
<1> QED BY <1>1, <1>2, <1>3, AlwaysControl, StepOrder, PTL DEF Spec
-----------------------------------------------------------------------------
(* No signal is lost *)

\* The test and the wait are one step to whoever needs the mutex to push.
SleepsOnEmpty == ~destroyed => \A t \in Threads : tpc[t] = "sleep" => sq = <<>>

Wakeups == NoLostWakeup /\ SleepsOnEmpty

LEMMA ThreadCounts ==
  ASSUME NEW A \in SUBSET Threads, NEW B \in SUBSET Threads, A \subseteq B
  PROVE  /\ Cardinality(A) \in Nat /\ Cardinality(B) \in Nat
         /\ Cardinality(A) <= Cardinality(B)
         /\ \A t \in B \ A : Cardinality(A) + 1 <= Cardinality(B)
<1>1. IsFiniteSet(A) /\ IsFiniteSet(B)
  BY PoolAssumption, FS_Subset
<1>2. Cardinality(A) \in Nat /\ Cardinality(B) \in Nat /\ Cardinality(A) <= Cardinality(B)
  BY <1>1, FS_CardinalityType, FS_Subset
<1>3. ASSUME NEW t \in B \ A PROVE Cardinality(A) + 1 <= Cardinality(B)
  <2>1. IsFiniteSet(A \cup {t}) /\ Cardinality(A \cup {t}) = Cardinality(A) + 1
    BY <1>1, <1>3, FS_AddElement
  <2>2. A \cup {t} \subseteq B
    BY <1>3
  <2> QED BY <1>1, <2>1, <2>2, FS_Subset
<1> QED BY <1>2, <1>3

\* A step that leaves the list alone, sends nobody to sleep or to wait and takes
\* nobody away from the list.
LEMMA QuietWakeups ==
  ASSUME Control, Wakeups, sq' = sq, destroyed' = destroyed,
         \A t \in Threads :
            /\ tpc'[t] \in {"sleep", "waiting"} => tpc'[t] = tpc[t]
            /\ t \in Awake => t \in Awake'
  PROVE  Wakeups'
<1>1. SleepsOnEmpty'
  BY DEF Wakeups, SleepsOnEmpty
<1>2. NoLostWakeup'
  <2> SUFFICES ASSUME ~destroyed, NEW t \in Threads, tpc'[t] = "waiting"
               PROVE  Len(sq) <= Cardinality(Awake')
    BY DEF NoLostWakeup
  <2>1. Len(sq) <= Cardinality(Awake)
    BY DEF Wakeups, NoLostWakeup
  <2>2. Awake \in SUBSET Threads /\ Awake' \in SUBSET Threads /\ Awake \subseteq Awake'
    BY DEF Awake
  <2>3. Cardinality(Awake) \in Nat /\ Cardinality(Awake') \in Nat
        /\ Cardinality(Awake) <= Cardinality(Awake')
    BY <2>2, ThreadCounts
  <2>4. Len(sq) \in Nat
    BY DEF Control, TypeOK
  <2> QED BY <2>1, <2>3, <2>4
<1> QED BY <1>1, <1>2 DEF Wakeups

\* On its way to the wait: the list is empty, so that no thread is missed.
LEMMA SleepWakeups ==
  ASSUME Control, Wakeups, NEW t \in Threads, Test(t) \/ Sleep(t)
  PROVE  Wakeups'
<1>1. sq' = sq /\ destroyed' = destroyed
  BY DEF Test, Sleep
<1>2. CASE Test(t) /\ (destroyed \/ sq # <<>>)
  BY <1>1, <1>2, QuietWakeups DEF Control, TypeOK, Test, Goto, Awake
<1>3. CASE Sleep(t) \/ ~(destroyed \/ sq # <<>>)
  <2>1. ~destroyed => sq = <<>>
    BY <1>3 DEF Wakeups, SleepsOnEmpty, Sleep
  <2>2. Awake' \in SUBSET Threads
    BY DEF Awake
  <2>3. Cardinality(Awake') \in Nat
    BY <2>2, ThreadCounts
  <2> QED BY <1>1, <2>1, <2>3 DEF Wakeups, NoLostWakeup, SleepsOnEmpty
<1> QED BY <1>2, <1>3

\* A thread that leaves the list behind takes a service from it.
LEMMA TakeWakeups ==
  ASSUME Control, Wakeups, NEW t \in Threads, Take(t)
  PROVE  Wakeups'
<1>1. sq \in Seq(Services) /\ sq # <<>> /\ sq' = Tail(sq) /\ destroyed' = destroyed
  BY DEF Control, TypeOK, NeverPopsEmpty, Take
<1>2. Len(sq) \in Nat /\ Len(sq') = Len(sq) - 1
  BY <1>1
<1>3. /\ tpc[t] = "take" /\ tpc'[t] \in HandSteps
      /\ \A u \in Threads \ {t} : tpc'[u] = tpc[u] /\ tpc[u] # "sleep"
  BY DEF Control, TypeOK, LockOwnership, Take, Goto
<1>4. SleepsOnEmpty'
  BY <1>3 DEF SleepsOnEmpty
<1>5. NoLostWakeup'
  <2> SUFFICES ASSUME ~destroyed, NEW u \in Threads, tpc'[u] = "waiting"
               PROVE  Len(sq') <= Cardinality(Awake')
    BY <1>1 DEF NoLostWakeup
  <2>1. Len(sq) <= Cardinality(Awake)
    BY <1>3 DEF Wakeups, NoLostWakeup
  <2>2. Awake \in SUBSET Threads /\ Awake' = Awake \ {t} /\ t \in Awake
    BY <1>3 DEF Awake
  <2>3. IsFiniteSet(Awake)
    BY <2>2, PoolAssumption, FS_Subset
  <2>4. Cardinality(Awake') = Cardinality(Awake) - 1 /\ Cardinality(Awake) \in Nat
    BY <2>2, <2>3, FS_RemoveElement, FS_CardinalityType
  <2> QED BY <1>2, <2>1, <2>4
<1> QED BY <1>4, <1>5 DEF Wakeups

\* One more service, and one more thread bound for it, if any was waiting.
LEMMA PushWakeups ==
  ASSUME Control, Wakeups, NEW p \in Producers, Push(p)
  PROVE  Wakeups'
<1>1. sq \in Seq(Services) /\ Batch[p][pushed[p] + 1] \in Services /\ destroyed' = destroyed
  BY Pushes DEF Control, TypeOK, Push
<1>2. Len(sq) \in Nat /\ Len(sq') = Len(sq) + 1
  <2>1. PICK s \in Services : sq' = <<s>> \o sq \/ sq' = Append(sq, s)
    BY Pushes
  <2> QED BY <1>1, <2>1
<1>3. \A u \in Threads : tpc'[u] = tpc[u] \/ (tpc[u] = "waiting" /\ tpc'[u] = "relock")
  BY SignalWakes DEF Control, TypeOK, Push
<1>4. \A u \in Threads : tpc[u] # "sleep"
  BY PoolAssumption DEF Control, LockOwnership, Push
<1>5. SleepsOnEmpty'
  BY <1>3, <1>4 DEF SleepsOnEmpty
<1>6. NoLostWakeup'
  <2> SUFFICES ASSUME ~destroyed, NEW u \in Threads, tpc'[u] = "waiting"
               PROVE  Len(sq') <= Cardinality(Awake')
    BY <1>1 DEF NoLostWakeup
  <2>1. tpc[u] = "waiting"
    BY <1>3
  <2>2. Len(sq) <= Cardinality(Awake)
    BY <2>1 DEF Wakeups, NoLostWakeup
  <2>3. PICK t \in Threads : tpc[t] = "waiting" /\ tpc'[t] = "relock"
    BY <2>1 DEF Push, Signal, Goto, Control, TypeOK
  <2>4. /\ Awake \in SUBSET Threads /\ Awake' \in SUBSET Threads /\ Awake \subseteq Awake'
        /\ t \in Awake' \ Awake
    BY <1>3, <2>3 DEF Awake
  <2>5. /\ Cardinality(Awake) \in Nat /\ Cardinality(Awake') \in Nat
        /\ Cardinality(Awake) + 1 <= Cardinality(Awake')
    BY <2>4, ThreadCounts
  <2> QED BY <1>2, <2>2, <2>5
<1> QED BY <1>5, <1>6 DEF Wakeups

LEMMA StepWakeups == Control /\ Wakeups /\ [Next]_vars => Wakeups'
<1> SUFFICES ASSUME Control, Wakeups, [Next]_vars PROVE Wakeups'
  OBVIOUS
<1>1. ASSUME NEW t \in Threads,
             Lock(t) \/ SpuriousWakeup(t) \/ Enter(t) \/ Run(t) \/ LeaveSvc(t) \/ Activate(t)
      PROVE  Wakeups'
  BY <1>1, QuietWakeups DEF Control, TypeOK, Lock, SpuriousWakeup, Enter, Run,
     LeaveSvc, Activate, Goto, Awake
<1>2. ASSUME NEW t \in Threads, Retest(t)
      PROVE  Wakeups'
  <2>1. CASE destroyed
    BY <1>2, <2>1 DEF Retest, Wakeups, NoLostWakeup, SleepsOnEmpty
  <2>2. CASE ~destroyed
    BY <1>2, <2>2, QuietWakeups DEF Control, TypeOK, Retest, Goto, Awake
  <2> QED BY <2>1, <2>2
<1>3. ASSUME NEW p \in Producers, Call(p) \/ LockForPush(p) \/ UnlockAfterPush(p)
      PROVE  Wakeups'
  BY <1>3, QuietWakeups DEF Call, LockForPush, UnlockAfterPush, Awake
<1>4. CASE Owner
  <2>1. CASE SetDestroyed
    BY <2>1 DEF SetDestroyed, Wakeups, NoLostWakeup, SleepsOnEmpty
  <2>2. CASE Broadcast
    BY <2>2, QuietWakeups DEF Control, TypeOK, Broadcast, Awake
  <2>3. CASE Activated \/ Wait \/ Delete
    BY <2>3, QuietWakeups DEF Activated, Wait, Delete, Awake
  <2> QED BY <1>4, <2>1, <2>2, <2>3 DEF Owner
<1>5. CASE UNCHANGED vars
  BY <1>5, QuietWakeups DEF vars, Awake
<1> QED
  BY <1>1, <1>2, <1>3, <1>4, <1>5, SleepWakeups, TakeWakeups, PushWakeups
     DEF Next, Thread, Producer

\* signal() after every push (threadpool.cpp:29-63) and a wait that lets go of the
\* mutex as it begins (89-92) lose no wakeup: until destroy, a thread is only left
\* waiting when as many threads are bound for the list as there are services in it.
THEOREM NoSignalIsLost == Spec => []NoLostWakeup
<1>1. Init => Wakeups
  BY DEF Init, Wakeups, NoLostWakeup, SleepsOnEmpty
<1>2. Wakeups => NoLostWakeup
  BY DEF Wakeups
<1> QED BY <1>1, <1>2, AlwaysControl, StepWakeups, PTL DEF Spec
=============================================================================
