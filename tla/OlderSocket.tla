----------------------------- MODULE OlderSocket ----------------------------
(***************************************************************************)
(* The older class, common/xsocket.cpp: its objects live on the heap and   *)
(* only release, or a failed accept, deletes one.                          *)
(***************************************************************************)
EXTENDS Descriptors

vars == <<os, mode, fd, asked, ok>>

Init == DescInit

\* new xsocket
Create(o) ==
    /\ ~Alive(o)
    /\ SetFd(o, Bad)
    /\ UNCHANGED <<os, mode, asked, ok>>

Open(o) ==
    /\ fd[o] = Bad
    /\ \E d \in Descs \cup {Bad} :
         /\ MayGive(os, d)
         /\ os' = Given(os, d, "fresh")
         /\ SetFd(o, d)
         /\ Reset(d, FALSE)

Close(o) ==
    /\ Alive(o)
    /\ os' = Closed(os, fd[o])
    /\ SetFd(o, Bad)
    /\ UNCHANGED <<mode, asked, ok>>

Release_DeletesOnly(o) ==  \* mutated form: the destructor alone
    /\ Alive(o)
    /\ SetFd(o, Gone)
    /\ UNCHANGED <<os, mode, asked, ok>>

\* release closes before it deletes: the destructor closes nothing.
Release(o) ==
    /\ Alive(o)
    /\ os' = Closed(os, fd[o])
    /\ SetFd(o, Gone)
    /\ UNCHANGED <<mode, asked, ok>>

SetMode(o, b) ==
    /\ IsOpen(o)
    /\ mode' = [mode EXCEPT ![fd[o]] = b]
    /\ asked' = [asked EXCEPT ![fd[o]] = b]
    /\ UNCHANGED <<os, fd, ok>>

Listen(o) ==
    /\ IsOpen(o)
    /\ os[fd[o]] = "fresh"
    /\ os' = [os EXCEPT ![fd[o]] = "listening"]
    /\ UNCHANGED <<mode, fd, asked, ok>>

\* A new object for the connection, deleted again when ::accept fails; m is the
\* mode table otherwise, nb the connection's mode.
TakeConnection(l, o, m, nb) ==
    \/ mode' = m /\ UNCHANGED <<os, fd, asked, ok>>
    \/ \E d \in Descs :
         /\ MayGive(os, d)
         /\ os' = Given(os, d, "accepted")
         /\ SetFd(o, d)
         /\ mode' = Given(m, d, nb)
         /\ asked' = Given(asked, d, Windows /\ asked[fd[l]])
         /\ ok' = ok \ {d}

Accept(l, o) ==
    /\ IsOpen(l)
    /\ os[fd[l]] = "listening"
    /\ ~Alive(o)
    /\ TakeConnection(l, o, mode, Windows /\ mode[fd[l]])

\* The listening socket is blocking afterwards, whatever it was.
AcceptN(l, o) ==
    /\ IsOpen(l)
    /\ os[fd[l]] = "listening"
    /\ ~Alive(o)
    /\ TakeConnection(l, o, [mode EXCEPT ![fd[l]] = FALSE], Windows)

\* The blocking connect.
Connect(o) ==
    /\ IsOpen(o)
    /\ os[fd[o]] = "fresh"
    /\ \E st \in IF mode[fd[o]] THEN {"connecting"} ELSE {"connected", "refused"} :
          os' = [os EXCEPT ![fd[o]] = st]
    /\ UNCHANGED <<mode, fd, asked, ok>>

\* The verdicts connect_n takes for a connection: it ignores what ::connect
\* returned and trusts a writable socket, and outside Windows a refused socket is
\* writable as well, and one whose ::connect failed at once.  A select that failed
\* is no connection to either form, nor is an error connect_n_i cannot read.
Writable ==
    {"at once", "ready"} \cup IF Windows THEN {} ELSE {"error", "fails"}

\* connect_n_i reads the pending error of a writable socket; the failure of
\* ::connect itself is not one.
WritableWithoutError == Writable \ {"error"}

\* Either form closes the socket unless it succeeds.
ConnectedBy(o, success) ==
    /\ IsOpen(o)
    /\ os[fd[o]] = "fresh"
    /\ LET d == fd[o] IN
       \E v \in Verdicts("fresh") :
          IF v \in success
            THEN /\ os' = [os EXCEPT ![d] = Outcome(@, v)]
                 /\ mode' = [mode EXCEPT ![d] = FALSE]
                 /\ ok' = ok \cup {d}
                 /\ UNCHANGED fd
            ELSE /\ os' = Closed(os, d)
                 /\ SetFd(o, Bad)
                 /\ UNCHANGED <<mode, ok>>
    /\ UNCHANGED asked

ConnectN(o) == ConnectedBy(o, Writable)
ConnectNI(o) == ConnectedBy(o, WritableWithoutError)

Next ==
    \/ \E o \in Objs :
         \/ Create(o) \/ Open(o) \/ Close(o) \/ Release(o) \/ Listen(o)
         \/ \E b \in BOOLEAN : SetMode(o, b)
         \/ Connect(o) \/ ConnectN(o) \/ ConnectNI(o)
         \/ \E l \in Objs : Accept(l, o) \/ AcceptN(l, o)
    \/ \E d \in Descs : Resolve(d)

Spec == Init /\ [][Next]_vars

-----------------------------------------------------------------------------

\* What an object holds is open and its own, and an open descriptor is held by
\* an object that lives: this class loses none, on any path of its connects and
\* accepts, although its destructor does not close (common/xsocket.cpp:16).
HeldAndOpen ==
    \A d \in Descs :
        /\ os[d] # "free" <=> Held(d)
        /\ \A o, p \in Objs : fd[o] = d /\ fd[p] = d => o = p

\* What either connect reports as a success is connected on Windows
\* (common/xsocket.cpp:176-207); elsewhere it may be refused or unconnected.
SuccessIsConnected ==
    Windows => \A d \in ok : Held(d) => os[d] = "connected"
=============================================================================
