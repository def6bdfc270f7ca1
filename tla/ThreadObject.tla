---------------------------- MODULE ThreadObject ----------------------------
(***************************************************************************)
(* thread_basic (common/thread_basic.cpp): the threads an active object    *)
(* has started, its list of them, wait, terminate, dispose and the         *)
(* destructor.                                                             *)
(***************************************************************************)
EXTENDS Integers, Sequences, Functions

CONSTANTS
    Spawned,    \* the threads it starts
    OnWin32     \* CreateThread, or pthreads

VARIABLES
    thread,     \* thread[t]: "none", "running" in svc(), or "ended"
    list,       \* _Myhead: the threads whose handles are stored
    object,     \* "alive", "waiting" in wait(), "destroyed"
    killed,     \* the process has been killed
    let         \* threads that dispose was called over

objectVars == <<thread, list, object, killed, let>>

ObjectTypeOK ==
    /\ thread \in [Spawned -> {"none", "running", "ended"}]
    /\ list \in Seq(Spawned)
    /\ object \in {"alive", "waiting", "destroyed"}
    /\ killed \in BOOLEAN
    /\ let \subseteq Spawned

ObjectInit ==
    /\ thread = [t \in Spawned |-> "none"]
    /\ list = <<>>
    /\ object = "alive"
    /\ killed = FALSE
    /\ let = {}

\* spawn's result is that of pthread_create; on Windows it starts as -1 and is
\* only ever changed when CreateThread fails, so that it is never 0.
SpawnSucceeds(created) == created /\ ~OnWin32

\* activate stores the handle only when spawn says 0.
Activate_Dropped(t) ==  \* mutated form: the handle is not stored
    /\ object = "alive"
    /\ thread[t] = "none"
    /\ thread' = [thread EXCEPT ![t] = "running"]
    /\ UNCHANGED <<list, object, killed, let>>

Activate(t) ==
    /\ object = "alive"
    /\ thread[t] = "none"
    /\ \E created \in BOOLEAN :
         /\ thread' = IF created THEN [thread EXCEPT ![t] = "running"] ELSE thread
         /\ list' = IF SpawnSucceeds(created) THEN Append(list, t) ELSE list
    /\ UNCHANGED <<object, killed, let>>

\* svc() returns.
End(t) ==
    /\ thread[t] = "running"
    /\ thread' = [thread EXCEPT ![t] = "ended"]
    /\ UNCHANGED <<list, object, killed, let>>

\* wait joins the listed threads one after the other.
WaitBegins ==
    /\ object = "alive"
    /\ object' = "waiting"
    /\ UNCHANGED <<thread, list, killed, let>>

WaitReturns ==
    /\ object = "waiting"
    /\ \A t \in Range(list) : thread[t] = "ended"
    /\ object' = "alive"
    /\ UNCHANGED <<thread, list, killed, let>>

\* pthread_kill(SIGKILL) on a thread that runs ends the whole process.
Kills == ~OnWin32 /\ \E t \in Range(list) : thread[t] = "running"

Terminate ==
    /\ object = "alive"
    /\ killed' = Kills
    /\ UNCHANGED <<thread, list, object, let>>

\* The list is forgotten; the threads are not touched.
Dispose ==
    /\ object = "alive"
    /\ list' = <<>>
    /\ let' = let \cup Range(list)
    /\ UNCHANGED <<thread, object, killed>>

\* The destructor terminates and disposes when there is a list.
Destroy ==
    /\ object = "alive"
    /\ object' = "destroyed"
    /\ killed' = Kills
    /\ list' = <<>>
    /\ UNCHANGED <<thread, let>>

ObjectStep ==
    \/ WaitBegins \/ WaitReturns \/ Terminate \/ Dispose \/ Destroy
    \/ \E t \in Spawned : Activate(t) \/ End(t)

ObjectNext == ~killed /\ ObjectStep

ObjectSpec == ObjectInit /\ [][ObjectNext]_objectVars

-----------------------------------------------------------------------------

\* "When the object hold by thread will be destroyed, the thread must already
\* exit" (thread_basic.h): with pthreads no svc() runs on a destroyed object,
\* unless dispose had let its thread go before.
NoneOutlives ==
    ~OnWin32 /\ object = "destroyed" /\ ~killed =>
        \A t \in Spawned : thread[t] = "running" => t \in let
=============================================================================
