------------------------------- MODULE Locks --------------------------------
(***************************************************************************)
(* thread_mutex, thread_rwlock, thread_cond and scope_lock                 *)
(* (common/thread_synch.h and .cpp) over the calls thread_config.h maps    *)
(* them to.  For every thread: what it holds in the system, and what the   *)
(* wrapper has told it that it holds.                                      *)
(***************************************************************************)
EXTENDS Integers

CONSTANTS
    Threads,
    Depth,      \* bound on how often a thread enters the mutex
    Win32       \* which half of thread_config.h is compiled

VARIABLES
    own,        \* own[t]: times t is inside the mutex, as the system has it
    told,       \* told[t]: times t was told so
    rw,         \* rw[t]: t's hold on the read-write lock, as the system has it
    rwtold,     \* rwtold[t]: the hold t was told of
    sleep,      \* sleep[t]: t in wait or timedwait of the condition
    tried       \* a trylock has been used

lockVars == <<own, told, rw, rwtold, sleep, tried>>

Holds == {"none", "shared", "exclusive"}

LocksTypeOK ==
    /\ own \in [Threads -> 0 .. Depth] /\ told \in [Threads -> 0 .. Depth]
    /\ rw \in [Threads -> Holds] /\ rwtold \in [Threads -> Holds]
    /\ sleep \in [Threads -> {"no", "wait", "timed", "woken"}]
    /\ tried \in BOOLEAN

LocksInit ==
    /\ own = [t \in Threads |-> 0] /\ told = [t \in Threads |-> 0]
    /\ rw = [t \in Threads |-> "none"] /\ rwtold = [t \in Threads |-> "none"]
    /\ sleep = [t \in Threads |-> "no"]
    /\ tried = FALSE

\* A critical section may be entered again by its owner, a default pthread
\* mutex may not: its owner waits for itself.
MayEnter(t) ==
    /\ \A u \in Threads \ {t} : own[u] = 0
    /\ own[t] = 0 \/ Win32

\* The bool a wrapper makes of the call's result: TryEnterCriticalSection and
\* the like return non-zero for success, pthread functions zero.
AsBool_Negated(success) == success # Win32  \* mutated form: !result
AsBool(success) == success = Win32

-----------------------------------------------------------------------------
(* thread_mutex; scope_lock's constructor and destructor are Lock and Unlock *)

mutexRest == <<rw, rwtold, sleep>>

Awake(t) == sleep[t] = "no"

Lock(t) ==
    /\ Awake(t) /\ own[t] < Depth /\ told[t] < Depth
    /\ MayEnter(t)
    /\ own' = [own EXCEPT ![t] = @ + 1]
    /\ told' = [told EXCEPT ![t] = @ + 1]
    /\ UNCHANGED <<mutexRest, tried>>

Trylock(t) ==
    /\ Awake(t) /\ own[t] < Depth /\ told[t] < Depth
    /\ own' = IF MayEnter(t) THEN [own EXCEPT ![t] = @ + 1] ELSE own
    /\ told' = IF AsBool(MayEnter(t)) THEN [told EXCEPT ![t] = @ + 1] ELSE told
    /\ tried' = TRUE
    /\ UNCHANGED mutexRest

\* A thread that believes it is inside leaves; if it is not, a pthread mutex is
\* taken from whoever is.
Unlock(t) ==
    /\ Awake(t) /\ told[t] > 0
    /\ told' = [told EXCEPT ![t] = @ - 1]
    /\ own' = [u \in Threads |-> IF own[u] > 0 /\ (u = t \/ own[t] = 0)
                                   THEN own[u] - 1 ELSE own[u]]
    /\ UNCHANGED <<mutexRest, tried>>

-----------------------------------------------------------------------------
(* thread_cond, with the mutex *)

\* wait and timedwait leave the mutex, which must be entered once, and sleep.
Wait(t, how) ==
    /\ Awake(t) /\ told[t] = 1 /\ own[t] = 1
    /\ own' = [own EXCEPT ![t] = 0]
    /\ told' = [told EXCEPT ![t] = 0]
    /\ sleep' = [sleep EXCEPT ![t] = how]
    /\ UNCHANGED <<rw, rwtold, tried>>

Asleep(t) == sleep[t] \in {"wait", "timed"}

\* POSIX is given the time as a date of 1970: a timed wait is over at once, and
\* no signal can reach it.
Reachable(t) == sleep[t] = "wait" \/ (sleep[t] = "timed" /\ Win32)

Signal ==
    /\ \E t \in Threads : Reachable(t) /\ sleep' = [sleep EXCEPT ![t] = "woken"]
    /\ UNCHANGED <<own, told, rw, rwtold, tried>>

Broadcast ==
    /\ \E t \in Threads : Reachable(t)
    /\ sleep' = [t \in Threads |-> IF Reachable(t) THEN "woken" ELSE sleep[t]]
    /\ UNCHANGED <<own, told, rw, rwtold, tried>>

\* The mutex is entered again before either returns, woken or too late.
WaitReturns(t) ==
    /\ sleep[t] \in {"timed", "woken"}
    /\ MayEnter(t)
    /\ own' = [own EXCEPT ![t] = 1]
    /\ told' = [told EXCEPT ![t] = 1]
    /\ sleep' = [sleep EXCEPT ![t] = "no"]
    /\ UNCHANGED <<rw, rwtold, tried>>

-----------------------------------------------------------------------------
(* thread_rwlock *)

rwlockRest == <<own, told, sleep>>

MayShare(t, how) ==
    \A u \in Threads : rw[u] = "none" \/ (rw[u] = "shared" /\ how = "shared")

LockRW(t, how) ==
    /\ Awake(t) /\ rw[t] = "none" /\ rwtold[t] = "none"
    /\ MayShare(t, how)
    /\ rw' = [rw EXCEPT ![t] = how]
    /\ rwtold' = [rwtold EXCEPT ![t] = how]
    /\ UNCHANGED <<rwlockRest, tried>>

TrylockRW(t, how) ==
    /\ Awake(t) /\ rw[t] = "none" /\ rwtold[t] = "none"
    /\ rw' = IF MayShare(t, how) THEN [rw EXCEPT ![t] = how] ELSE rw
    /\ rwtold' = IF AsBool(MayShare(t, how)) THEN [rwtold EXCEPT ![t] = how] ELSE rwtold
    /\ tried' = TRUE
    /\ UNCHANGED rwlockRest

UnlockRW(t) ==
    /\ Awake(t) /\ rwtold[t] # "none"
    /\ rw' = [rw EXCEPT ![t] = "none"]
    /\ rwtold' = [rwtold EXCEPT ![t] = "none"]
    /\ UNCHANGED <<rwlockRest, tried>>

ThreadStep(t) ==
    \/ Lock(t) \/ Trylock(t) \/ Unlock(t) \/ UnlockRW(t) \/ WaitReturns(t)
    \/ \E how \in {"wait", "timed"} : Wait(t, how)
    \/ \E how \in {"shared", "exclusive"} : LockRW(t, how) \/ TrylockRW(t, how)

LocksNext == Signal \/ Broadcast \/ \E t \in Threads : ThreadStep(t)

LocksSpec == LocksInit /\ [][LocksNext]_lockVars

-----------------------------------------------------------------------------

\* Threads that were told they hold a lock exclude each other, on Windows
\* always, elsewhere until the first trylock: its bool says the opposite of what
\* it did (common/thread_synch.cpp:27).
HoldersExclude ==
    Win32 \/ ~tried =>
        \A t, u \in Threads : t # u =>
            /\ told[t] = 0 \/ told[u] = 0
            /\ rwtold[t] = "exclusive" => rwtold[u] = "none"

\* Nobody is outside a lock that the system has it inside of, so that a lock
\* that is left by everyone is free, under the same condition.
FreeWhenLeft ==
    Win32 \/ ~tried =>
        \A t \in Threads : (own[t] = 0 <=> told[t] = 0) /\ rw[t] = rwtold[t]
=============================================================================
