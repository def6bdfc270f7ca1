---------------------------- MODULE KernelObjects ---------------------------
(***************************************************************************)
(* The named Windows objects of common/thread_synch.cpp: semaphore, mutex, *)
(* event, waitable_timer.  Several wrapper objects, each used by one       *)
(* thread, perhaps of another program, share one name.                     *)
(***************************************************************************)
EXTENDS Integers

CONSTANTS
    Users,      \* the wrapper objects
    Most        \* bound on the posts

Kinds == {"semaphore", "mutex", "event", "timer"}

VARIABLES
    kind,       \* what the name stands for in the system, or "nothing"
    signals,    \* its count, 0 or 1 for an event or a timer
    timer,      \* "set" from set() until it is due or cancelled, when it is a timer
    owner,      \* the user that owns it, a set, when it is a mutex
    handle,     \* handle[u]: u's handle is not null
    inside,     \* the users that went on behind mutex::lock
    posted,     \* signals given: posts, notifications, due times
    passed      \* waits that succeeded

kernelVars == <<kind, signals, timer, owner, handle, inside, posted, passed>>

KernelTypeOK ==
    /\ kind \in Kinds \cup {"nothing"}
    /\ signals \in Nat /\ posted \in Nat /\ passed \in Nat
    /\ timer \in {"unset", "set"}
    /\ owner \subseteq Users /\ inside \subseteq Users
    /\ handle \in [Users -> BOOLEAN]

KernelInit ==
    /\ kind = "nothing"
    /\ signals = 0 /\ posted = 0 /\ passed = 0
    /\ timer = "unset"
    /\ owner = {} /\ inside = {}
    /\ handle = [u \in Users |-> FALSE]

\* CreateSemaphore is given INFINITE, a negative number, as its maximum, and
\* fails; the others find the name free or of their kind.
Created(k) == k # "semaphore" /\ kind \in {"nothing", k}

Create(u, k) ==
    /\ ~handle[u] /\ u \notin inside
    /\ handle' = [handle EXCEPT ![u] = Created(k)]
    /\ kind' = IF Created(k) THEN k ELSE kind
    /\ UNCHANGED <<signals, timer, owner, inside, posted, passed>>

\* mutex::open calls OpenEvent, which does not find a mutex.
Opened(k) == kind = k /\ k # "mutex"

Open(u, k) ==
    /\ ~handle[u] /\ u \notin inside
    /\ kind \in {"nothing", k}
    /\ handle' = [handle EXCEPT ![u] = Opened(k)]
    /\ UNCHANGED <<kind, signals, timer, owner, inside, posted, passed>>

\* Another program makes the semaphore that semaphore::open can open.
CreatedElsewhere ==
    /\ kind = "nothing"
    /\ kind' = "semaphore"
    /\ UNCHANGED <<signals, timer, owner, handle, inside, posted, passed>>

\* Only a semaphore counts; events and timers are made auto-reset.
Most1(k) == IF k = "semaphore" THEN Most ELSE 1

Signalled ==
    /\ posted < Most
    /\ signals' = IF signals < Most1(kind) THEN signals + 1 ELSE signals
    /\ posted' = posted + 1

\* semaphore::post and event::notify.
Post(u) ==
    /\ handle[u] /\ kind \in {"semaphore", "event"}
    /\ Signalled
    /\ UNCHANGED <<kind, timer, owner, handle, inside, passed>>

\* waitable_timer::set starts over: the timer is unsignalled until it is due.
SetTimer(u) ==
    /\ handle[u] /\ kind = "timer"
    /\ signals' = 0
    /\ timer' = "set"
    /\ UNCHANGED <<kind, owner, handle, inside, posted, passed>>

\* Its due time comes; a periodic one is due again later.
Due ==
    /\ timer = "set"
    /\ Signalled
    /\ timer' \in {"unset", "set"}
    /\ UNCHANGED <<kind, owner, handle, inside, passed>>

\* waitable_timer::cancel takes back no signal.
CancelTimer(u) ==
    /\ handle[u] /\ kind = "timer"
    /\ timer' = "unset"
    /\ UNCHANGED <<kind, signals, owner, handle, inside, posted, passed>>

Wait_ManualReset(u) ==  \* mutated form: the event is made with manual reset
    /\ handle[u] /\ kind \in {"semaphore", "event"}
    /\ signals > 0
    /\ passed < Most + 1
    /\ passed' = passed + 1
    /\ UNCHANGED <<kind, signals, timer, owner, handle, inside, posted>>

\* wait and timedwait of a semaphore or an event, when they succeed: one signal is
\* used up (auto-reset).  The timer's class has no wait.
Wait(u) ==
    /\ handle[u] /\ kind \in {"semaphore", "event"}
    /\ signals > 0
    /\ signals' = signals - 1
    /\ passed' = passed + 1
    /\ UNCHANGED <<kind, timer, owner, handle, inside, posted>>

\* mutex::lock ignores what the wait returns: without a handle it fails at once
\* and the caller goes on as if it had the mutex.
LockMutex_IgnoresOwner(u) ==  \* mutated form: it does not wait
    /\ u \notin inside
    /\ ~handle[u] \/ kind = "mutex"
    /\ inside' = inside \cup {u}
    /\ owner' = IF handle[u] THEN {u} ELSE owner
    /\ UNCHANGED <<kind, signals, timer, handle, posted, passed>>

LockMutex(u) ==
    /\ u \notin inside
    /\ \/ ~handle[u] /\ UNCHANGED owner
       \/ handle[u] /\ kind = "mutex" /\ owner = {} /\ owner' = {u}
    /\ inside' = inside \cup {u}
    /\ UNCHANGED <<kind, signals, timer, handle, posted, passed>>

\* ReleaseMutex has no effect for a user that does not own the mutex.
UnlockMutex(u) ==
    /\ u \in inside
    /\ inside' = inside \ {u}
    /\ owner' = owner \ {u}
    /\ UNCHANGED <<kind, signals, timer, handle, posted, passed>>

\* The destructor closes the handle; the last one ends the object.
Destroy(u) ==
    /\ handle[u]
    /\ u \notin inside
    /\ handle' = [handle EXCEPT ![u] = FALSE]
    /\ IF \A v \in Users \ {u} : ~handle[v]
         THEN kind' = "nothing" /\ signals' = 0 /\ timer' = "unset"
         ELSE UNCHANGED <<kind, signals, timer>>
    /\ UNCHANGED <<owner, inside, posted, passed>>

UserStep(u) ==
    \/ \E k \in Kinds : Create(u, k) \/ Open(u, k)
    \/ Post(u) \/ SetTimer(u) \/ CancelTimer(u) \/ Wait(u) \/ LockMutex(u) \/ UnlockMutex(u) \/ Destroy(u)

KernelNext == CreatedElsewhere \/ Due \/ \E u \in Users : UserStep(u)

KernelSpec == KernelInit /\ [][KernelNext]_kernelVars

-----------------------------------------------------------------------------

\* Users whose create told them that they have the mutex exclude each other; one
\* whose create or open failed is kept out by nothing, for lock does not say so
\* (thread_synch.cpp:186-199).
MutexExcludes ==
    \A u, v \in inside : handle[u] /\ handle[v] => u = v

\* A wait of an event or a semaphore returns at most once for every time it was
\* signalled: the events are made to reset themselves (thread_synch.cpp:221).
WaitsAreSignalled == passed + signals <= posted
=============================================================================
