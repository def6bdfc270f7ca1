---------------------------- MODULE Descriptors -----------------------------
(***************************************************************************)
(* Socket descriptors as the system sees them, and the socket objects that *)
(* hold them: what xxsocket (xxsocket.cpp) and the older xsocket           *)
(* (common/xsocket.cpp) share.                                             *)
(***************************************************************************)
CONSTANTS
    Descs,      \* descriptors; the system gives any free one out again
    Objs,       \* socket objects
    Bad,        \* bad_sock
    Gone,       \* an object not constructed, or destroyed
    Windows     \* Winsock, or POSIX sockets

ASSUME DescriptorAssumption ==
    /\ Bad \notin Descs
    /\ Gone \notin Descs \cup {Bad}
    /\ Windows \in BOOLEAN

VARIABLES
    os,         \* os[d]: the descriptor's socket in the system
    mode,       \* mode[d]: it is nonblocking
    fd,         \* fd[o]: the object's member fd
    asked,      \* asked[d]: its user asked for the nonblocking mode
    ok          \* descriptors a connect, on its select's word, last called connected

SocketStates == {"free", "fresh", "listening", "accepted",
                 "connecting", "connected", "refused"}

DescTypeOK ==
    /\ os \in [Descs -> SocketStates]
    /\ mode \in [Descs -> BOOLEAN]
    /\ fd \in [Objs -> Descs \cup {Bad, Gone}]
    /\ asked \in [Descs -> BOOLEAN]
    /\ ok \subseteq Descs

DescInit ==
    /\ os = [d \in Descs |-> "free"]
    /\ mode = [d \in Descs |-> FALSE]
    /\ fd = [o \in Objs |-> Gone]
    /\ asked = [d \in Descs |-> FALSE]
    /\ ok = {}

Alive(o) == fd[o] # Gone
IsOpen(o) == fd[o] \in Descs
Held(d) == \E o \in Objs : fd[o] = d

SetFd(o, d) == fd' = [fd EXCEPT ![o] = d]

\* The system's table k after close(d); closing bad_sock does nothing.
Closed(k, d) == IF d \in Descs THEN [k EXCEPT ![d] = "free"] ELSE k

\* The table k after the system made d, which is not in use, a socket in state
\* st; d = Bad when it could not.
MayGive(k, d) == d = Bad \/ (d \in Descs /\ k[d] = "free")
Given(k, d, st) == IF d \in Descs THEN [k EXCEPT ![d] = st] ELSE k

\* A socket starts without history, and blocking unless m.
Reset(d, m) ==
    IF d \in Descs
      THEN /\ mode' = [mode EXCEPT ![d] = m]
           /\ asked' = [asked EXCEPT ![d] = FALSE]
           /\ ok' = ok \ {d}
      ELSE UNCHANGED <<mode, asked, ok>>

-----------------------------------------------------------------------------
(* Connecting with select, as both classes do *)

\* How an attempt on a socket in state st can go: ::connect fails or succeeds
\* at once, or select times out, fails and leaves the sets as they were filled, or
\* finds the socket ready with or without an error (Winsock reports no error to the
\* sets they wait on); or nothing can be read of it, because the sets came back
\* empty or getsockopt fails.
Verdicts(st) ==
    {"fails"} \cup
    IF st # "fresh" THEN {}
    ELSE {"at once", "timeout", "ready", "select fails", "unread"} \cup
         IF Windows THEN {} ELSE {"error"}

\* Where the attempt leaves the socket itself, when it is not closed.
Outcome(st, v) ==
    CASE v = "fails" -> st
      [] v \in {"at once", "ready"} -> "connected"
      [] v \in {"timeout", "select fails", "unread"} -> "connecting"
      [] v = "error" -> "refused"

\* The system finishes an attempt that nobody waits for.
Resolve(d) ==
    /\ os[d] = "connecting"
    /\ \E st \in {"connected", "refused"} : os' = [os EXCEPT ![d] = st]
    /\ UNCHANGED <<mode, fd, asked, ok>>
=============================================================================
