----------------------------- MODULE ThreadPool -----------------------------
(***************************************************************************)
(* common/threadpool.cpp over common/thread_basic.cpp: worker threads take *)
(* services from one list under a mutex and sleep on a condition variable  *)
(* while it is empty; destroy() stops them and deletes the pool.           *)
(*                                                                         *)
(* The library has no caller of its own.  Its callers are modelled by the  *)
(* contract its interface implies: the owner activates the threads and, as *)
(* the last call made to the pool, destroys it; any number of producers    *)
(* enqueue in between, each service once.                                  *)
(***************************************************************************)
EXTENDS Integers, Sequences, FiniteSets

CONSTANTS
    Threads,    \* the threads activate() may start
    Producers,  \* the callers of enqueue_*: one call each
    Batch,      \* Batch[p]: the services of p's call, in the order of the array
    AtHead,     \* the producers that enqueue at the head
    Endless,    \* the services whose entry() never returns
    Platform,   \* "posix" or "win32"
    Nobody      \* no owner, no service

Services == UNION {{Batch[p][i] : i \in DOMAIN Batch[p]} : p \in Producers}

ASSUME PoolAssumption ==
    /\ Platform \in {"posix", "win32"}
    /\ IsFiniteSet(Threads)
    /\ AtHead \subseteq Producers
    /\ Threads \cap Producers = {}
    /\ Nobody \notin Threads \cup Producers \cup Services

ASSUME BatchAssumption ==
    /\ DOMAIN Batch = Producers
    /\ \A p \in Producers : Batch[p] \in Seq(Services) /\ Batch[p] # <<>>
    /\ \A p, q \in Producers : \A i \in DOMAIN Batch[p], j \in DOMAIN Batch[q] :
          Batch[p][i] = Batch[q][j] => p = q /\ i = j

VARIABLES
    sq,         \* the service list
    locker,     \* the owner of sq_locker, or Nobody
    destroyed,  \* the flag
    tpc,        \* tpc[t]: where thread t is in svc()
    target,     \* target[t]: the service it took last
    finished,   \* the services whose entry() has returned
    recorded,   \* the threads in thread_basic's list (_Myhead)
    ppc,        \* ppc[p]: where producer p is in its call
    pushed,     \* pushed[p]: how many services of its batch are in the list
    owner       \* where the owner is: activating, then in destroy()

vars == <<sq, locker, destroyed, tpc, target, finished, recorded, ppc, pushed, owner>>

\* svc(): `sleep' has seen an empty list and not yet entered the wait; `waiting'
\* is on the condition variable; `relock' was woken and needs the mutex again;
\* `entry' has a service in hand and has not called its entry() yet.
ThreadSteps == {"none", "lock", "test", "sleep", "waiting", "relock", "retest",
                "take", "entry", "run", "leave", "exited"}

ProducerSteps == {"idle", "lock", "push", "returned"}

OwnerSteps == {"activate", "active", "broadcast", "wait", "delete", "deleted"}

TypeOK ==
    /\ sq \in Seq(Services)
    /\ locker \in Threads \cup Producers \cup {Nobody}
    /\ destroyed \in BOOLEAN
    /\ tpc \in [Threads -> ThreadSteps]
    /\ target \in [Threads -> Services \cup {Nobody}]
    /\ finished \subseteq Services
    /\ recorded \subseteq Threads
    /\ ppc \in [Producers -> ProducerSteps]
    /\ pushed \in [Producers -> Nat]
    /\ owner \in OwnerSteps

Init ==
    /\ sq = <<>>
    /\ locker = Nobody
    /\ destroyed = FALSE
    /\ tpc = [t \in Threads |-> "none"]
    /\ target = [t \in Threads |-> Nobody]
    /\ finished = {}
    /\ recorded = {}
    /\ ppc = [p \in Producers |-> "idle"]
    /\ pushed = [p \in Producers |-> 0]
    /\ owner = "activate"

Goto(t, step) == tpc' = [tpc EXCEPT ![t] = step]

-----------------------------------------------------------------------------
(* svc(): a thread of the pool *)

Lock_NoRetest(t) ==  \* mutated form: `if' in the place of `while'
    /\ tpc[t] \in {"lock", "relock"}
    /\ locker = Nobody
    /\ locker' = t
    /\ Goto(t, IF tpc[t] = "lock" THEN "test" ELSE "retest")
    /\ UNCHANGED <<sq, destroyed, target, finished, recorded, ppc, pushed, owner>>

\* lock() at the top of the loop, and wait() on its way back to the condition.
Lock(t) ==
    /\ tpc[t] \in {"lock", "relock"}
    /\ locker = Nobody
    /\ locker' = t
    /\ Goto(t, "test")
    /\ UNCHANGED <<sq, destroyed, target, finished, recorded, ppc, pushed, owner>>

\* while (!destroyed && sq.empty())
Test(t) ==
    /\ tpc[t] = "test"
    /\ Goto(t, IF ~destroyed /\ sq = <<>> THEN "sleep" ELSE "retest")
    /\ UNCHANGED <<sq, locker, destroyed, target, finished, recorded, ppc, pushed, owner>>

\* notifier.wait(sq_locker): lets go of the mutex and sleeps in one step.
Sleep(t) ==
    /\ tpc[t] = "sleep"
    /\ locker' = Nobody
    /\ Goto(t, "waiting")
    /\ UNCHANGED <<sq, destroyed, target, finished, recorded, ppc, pushed, owner>>

\* A condition variable may also wake a thread for no reason.
SpuriousWakeup(t) ==
    /\ tpc[t] = "waiting"
    /\ Goto(t, "relock")
    /\ UNCHANGED <<sq, locker, destroyed, target, finished, recorded, ppc, pushed, owner>>

\* if (destroyed): the flag is read again, and may have been set since.
Retest(t) ==
    /\ tpc[t] = "retest"
    /\ Goto(t, IF destroyed THEN "leave" ELSE "take")
    /\ UNCHANGED <<sq, locker, destroyed, target, finished, recorded, ppc, pushed, owner>>

Take_NoPop(t) ==  \* mutated form: the service stays in the list
    /\ tpc[t] = "take"
    /\ target' = [target EXCEPT ![t] = Head(sq)]
    /\ locker' = Nobody
    /\ Goto(t, "entry")
    /\ UNCHANGED <<sq, destroyed, finished, recorded, ppc, pushed, owner>>

\* target = *sq.begin(); sq.pop_front(); unlock().
Take(t) ==
    /\ tpc[t] = "take"
    /\ target' = [target EXCEPT ![t] = Head(sq)]
    /\ sq' = Tail(sq)
    /\ locker' = Nobody
    /\ Goto(t, "entry")
    /\ UNCHANGED <<destroyed, finished, recorded, ppc, pushed, owner>>

\* target->entry() is called.  The mutex is free since Take: other threads may
\* take, and call, in between.
Enter(t) ==
    /\ tpc[t] = "entry"
    /\ Goto(t, "run")
    /\ UNCHANGED <<sq, locker, destroyed, target, finished, recorded, ppc, pushed, owner>>

\* target->entry() returns, if it ever does.
Run(t) ==
    /\ tpc[t] = "run"
    /\ target[t] \notin Endless
    /\ finished' = finished \cup {target[t]}
    /\ Goto(t, "lock")
    /\ UNCHANGED <<sq, locker, destroyed, target, recorded, ppc, pushed, owner>>

LeaveSvc_Locked(t) ==  \* mutated form: the mutex is kept
    /\ tpc[t] = "leave"
    /\ Goto(t, "exited")
    /\ UNCHANGED <<sq, locker, destroyed, target, finished, recorded, ppc, pushed, owner>>

\* unlock(); the thread leaves svc().
LeaveSvc(t) ==
    /\ tpc[t] = "leave"
    /\ locker' = Nobody
    /\ Goto(t, "exited")
    /\ UNCHANGED <<sq, destroyed, target, finished, recorded, ppc, pushed, owner>>

Thread(t) ==
    \/ Lock(t) \/ Test(t) \/ Sleep(t) \/ Retest(t) \/ Take(t)
    \/ Enter(t) \/ Run(t) \/ LeaveSvc(t)

-----------------------------------------------------------------------------
(* enqueue_head, enqueue_tail, enqueue_head_n, enqueue_tail_n *)

ProducerGoto(p, step) == ppc' = [ppc EXCEPT ![p] = step]

\* The call begins; the contract has it begin before destroy does.
Call(p) ==
    /\ ppc[p] = "idle"
    /\ owner = "active"
    /\ ProducerGoto(p, "lock")
    /\ UNCHANGED <<sq, locker, destroyed, tpc, target, finished, recorded, pushed, owner>>

\* scope_lock
LockForPush(p) ==
    /\ ppc[p] = "lock"
    /\ locker = Nobody
    /\ locker' = p
    /\ ProducerGoto(p, "push")
    /\ UNCHANGED <<sq, destroyed, tpc, target, finished, recorded, pushed, owner>>

\* notifier.signal(): wakes one of the threads that wait, if there are any.
Signal_None == UNCHANGED tpc  \* mutated form: nobody is woken
Signal ==
    LET sleepers == {t \in Threads : tpc[t] = "waiting"} IN
    IF sleepers = {} THEN UNCHANGED tpc ELSE \E t \in sleepers : Goto(t, "relock")

Push_WrongEnd(p) ==  \* mutated form: push_back and push_front exchanged
    /\ ppc[p] = "push"
    /\ pushed[p] < Len(Batch[p])
    /\ LET s == Batch[p][pushed[p] + 1] IN
         sq' = IF p \in AtHead THEN Append(sq, s) ELSE <<s>> \o sq
    /\ pushed' = [pushed EXCEPT ![p] = @ + 1]
    /\ Signal
    /\ UNCHANGED <<locker, destroyed, target, finished, recorded, ppc, owner>>

Push_PastTheEnd(p) ==  \* mutated form: i <= n
    /\ ppc[p] = "push"
    /\ pushed[p] <= Len(Batch[p])
    /\ LET s == IF pushed[p] < Len(Batch[p]) THEN Batch[p][pushed[p] + 1] ELSE Nobody IN
         sq' = IF p \in AtHead THEN <<s>> \o sq ELSE Append(sq, s)
    /\ pushed' = [pushed EXCEPT ![p] = @ + 1]
    /\ Signal
    /\ UNCHANGED <<locker, destroyed, target, finished, recorded, ppc, owner>>

Push_OneSignal(p) ==  \* mutated form: signal() once per call, not per service
    /\ ppc[p] = "push"
    /\ pushed[p] < Len(Batch[p])
    /\ LET s == Batch[p][pushed[p] + 1] IN
         sq' = IF p \in AtHead THEN <<s>> \o sq ELSE Append(sq, s)
    /\ pushed' = [pushed EXCEPT ![p] = @ + 1]
    /\ IF pushed[p] = 0 THEN Signal ELSE UNCHANGED tpc
    /\ UNCHANGED <<locker, destroyed, target, finished, recorded, ppc, owner>>

\* One turn of the loop: push_front or push_back, then signal().
Push(p) ==
    /\ ppc[p] = "push"
    /\ pushed[p] < Len(Batch[p])
    /\ LET s == Batch[p][pushed[p] + 1] IN
         sq' = IF p \in AtHead THEN <<s>> \o sq ELSE Append(sq, s)
    /\ pushed' = [pushed EXCEPT ![p] = @ + 1]
    /\ Signal
    /\ UNCHANGED <<locker, destroyed, target, finished, recorded, ppc, owner>>

\* scope_lock's destructor
UnlockAfterPush(p) ==
    /\ ppc[p] = "push"
    /\ pushed[p] = Len(Batch[p])
    /\ locker' = Nobody
    /\ ProducerGoto(p, "returned")
    /\ UNCHANGED <<sq, destroyed, tpc, target, finished, recorded, pushed, owner>>

Producer(p) == LockForPush(p) \/ Push(p) \/ UnlockAfterPush(p)

-----------------------------------------------------------------------------
(* The owner: activate_n(), later destroy() *)

\* activate(): spawn leaves its result at -1 when CreateThread succeeds, so on
\* Win32 the thread runs but is never put in the list; on POSIX it is.
Activate(t) ==
    /\ owner = "activate"
    /\ tpc[t] = "none"
    /\ Goto(t, "lock")
    /\ recorded' = IF Platform = "posix" THEN recorded \cup {t} ELSE recorded
    /\ UNCHANGED <<sq, locker, destroyed, target, finished, ppc, pushed, owner>>

\* activate_n() has made its n attempts (a thread that could not be created is
\* not missed).
Activated ==
    /\ owner = "activate"
    /\ owner' = "active"
    /\ UNCHANGED <<sq, locker, destroyed, tpc, target, finished, recorded, ppc, pushed>>

\* destroyed = true, without the mutex.  No enqueue is under way.
SetDestroyed ==
    /\ owner = "active"
    /\ \A p \in Producers : ppc[p] \in {"idle", "returned"}
    /\ destroyed' = TRUE
    /\ owner' = "broadcast"
    /\ UNCHANGED <<sq, locker, tpc, target, finished, recorded, ppc, pushed>>

\* notifier.broadcast()
Broadcast ==
    /\ owner = "broadcast"
    /\ tpc' = [t \in Threads |-> IF tpc[t] = "waiting" THEN "relock" ELSE tpc[t]]
    /\ owner' = "wait"
    /\ UNCHANGED <<sq, locker, destroyed, target, finished, recorded, ppc, pushed>>

\* wait(): joins the threads of the list, one after the other.
Wait_FirstOnly ==  \* mutated form: the list is not followed to its end
    /\ owner = "wait"
    /\ recorded = {} \/ \E t \in recorded : tpc[t] = "exited"
    /\ owner' = "delete"
    /\ UNCHANGED <<sq, locker, destroyed, tpc, target, finished, recorded, ppc, pushed>>

Wait ==
    /\ owner = "wait"
    /\ \A t \in recorded : tpc[t] = "exited"
    /\ owner' = "delete"
    /\ UNCHANGED <<sq, locker, destroyed, tpc, target, finished, recorded, ppc, pushed>>

\* dispose() empties the list; delete this ends the pool's members.
Delete ==
    /\ owner = "delete"
    /\ recorded' = {}
    /\ owner' = "deleted"
    /\ UNCHANGED <<sq, locker, destroyed, tpc, target, finished, ppc, pushed>>

Owner == Activated \/ SetDestroyed \/ Broadcast \/ Wait \/ Delete

Next ==
    \/ \E t \in Threads : Thread(t) \/ SpuriousWakeup(t) \/ Activate(t)
    \/ \E p \in Producers : Call(p) \/ Producer(p)
    \/ Owner

Spec == Init /\ [][Next]_vars

\* Threads are scheduled, and a thread that finds the mutex free again and
\* again gets it; the owner activates every thread and finishes a destroy that
\* it has begun.  Nothing makes a caller call, or a thread wake up by itself.
Fairness ==
    /\ \A t \in Threads : WF_vars(Thread(t)) /\ SF_vars(Lock(t)) /\ WF_vars(Activate(t))
    /\ \A p \in Producers : WF_vars(Producer(p)) /\ SF_vars(LockForPush(p))
    /\ WF_vars(Broadcast \/ Wait \/ Delete)

FairSpec == Spec /\ Fairness

-----------------------------------------------------------------------------
(* Safety *)

\* The mutex is with the one thread or call that is between its lock and its
\* unlock, across the wait's release and reacquisition as well.
LockOwnership ==
    /\ \A t \in Threads :
          locker = t <=> tpc[t] \in {"test", "sleep", "retest", "take", "leave"}
    /\ \A p \in Producers : locker = p <=> ppc[p] = "push"

PushedServices == UNION {{Batch[p][i] : i \in 1 .. pushed[p]} : p \in Producers}
Queued         == {sq[i] : i \in DOMAIN sq}
HandSteps      == {"entry", "run"}
InHand         == {target[t] : t \in {u \in Threads : tpc[u] \in HandSteps}}
Taken          == InHand \cup finished
Started        == {target[t] : t \in {u \in Threads : tpc[u] = "run"}} \cup finished

\* A service that was enqueued is in one place, once: in the list, in the hands
\* of one thread, or finished.  None is lost, none is executed twice
\* (threadpool.cpp:29-63, 98-104).
Accounted ==
    /\ PushedServices = Queued \cup InHand \cup finished
    /\ Queued \cap Taken = {} /\ InHand \cap finished = {}
    /\ \A i, j \in DOMAIN sq : sq[i] = sq[j] => i = j
    /\ \A t, u \in Threads :
          tpc[t] \in HandSteps /\ tpc[u] \in HandSteps /\ target[t] = target[u] => t = u

\* pop_front is never applied to an empty list: the thread that got past the
\* test still has the list it tested (threadpool.cpp:89-100).
NeverPopsEmpty == \A t \in Threads : tpc[t] = "take" => sq # <<>>

\* The threads bound for the list: each tests it again before it can wait.
Awake == {t \in Threads : tpc[t] \in {"lock", "relock", "test", "retest", "take"}}

\* No signal is lost: while a thread waits, the services in the list are no more
\* than the threads bound for it, for signal(), called once per service, woke one
\* for each (threadpool.cpp:29-63, 89-92).  destroy ends the promise.
NoLostWakeup ==
    ~destroyed /\ (\E t \in Threads : tpc[t] = "waiting") => Len(sq) <= Cardinality(Awake)

\* The services of one enqueue_tail_n leave the list in the order of the array,
\* those of one enqueue_head_n in the opposite order (threadpool.cpp:43-63, 98-101).
\* They need not start in it: a thread lets go of the mutex (101) before it calls
\* entry() (104), and the next one may call first.
CallOrder ==
    \A p \in Producers : \A i, j \in 1 .. pushed[p] :
        i < j => IF p \in AtHead
                   THEN Batch[p][i] \in Taken => Batch[p][j] \in Taken
                   ELSE Batch[p][j] \in Taken => Batch[p][i] \in Taken

\* "wait all worker threads exit" (threadpool.cpp:73), before the pool they run
\* in is deleted; thread_basic.h:1-5 asks for the same.
ExitedBeforeDelete ==
    owner \in {"delete", "deleted"} => \A t \in Threads : tpc[t] \in {"none", "exited"}

-----------------------------------------------------------------------------
(* Liveness *)

\* With a thread to spare beside the services that never return, every service
\* that is enqueued is started, unless the pool is destroyed first: no signal is
\* lost between the push and the wait.
EveryServiceStarts ==
    \A s \in Services :
        s \in PushedServices
          /\ Cardinality({t \in Threads : tpc[t] # "none"}) > Cardinality(Endless)
        ~> s \in Started \/ destroyed

\* destroy() returns once it has broadcast with no thread on its way to sleep,
\* unless a thread is in a service that never returns.
DestroyReturns ==
    owner = "wait" /\ (\A t \in Threads : tpc[t] \notin {"sleep", "waiting"})
        ~> \/ owner = "deleted"
           \/ \E t \in Threads : tpc[t] = "run" /\ target[t] \in Endless

\* "notify all thread to stop working" (threadpool.cpp:70): after destroy() has
\* set the flag and broadcast, every thread stops and destroy() returns.
DestroyStopsAll == owner = "broadcast" ~> owner = "deleted"
=============================================================================
