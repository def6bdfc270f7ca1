---------------------------- MODULE SocketHandle ----------------------------
(***************************************************************************)
(* xxsocket: who holds which descriptor, in which mode, through every      *)
(* constructor, assignment, open, accept, connect, release and close.      *)
(***************************************************************************)
EXTENDS Descriptors

VARIABLE hand   \* descriptors the caller holds as plain handles

handleVars == <<os, mode, fd, asked, ok, hand>>

HandleTypeOK == DescTypeOK /\ hand \subseteq Descs

HandleInit == DescInit /\ hand = {}

-----------------------------------------------------------------------------
(* Constructors, assignment and swap *)

Swapped_Copies(o, p) ==  \* mutated form: the source keeps its descriptor
    IF IsOpen(o) THEN fd ELSE [fd EXCEPT ![o] = fd[p]]

\* swap: an open target keeps its descriptor, and the source its own.
Swapped(o, p) ==
    IF IsOpen(o) THEN fd ELSE [[fd EXCEPT ![o] = fd[p]] EXCEPT ![p] = Bad]

Construct(o) ==
    /\ ~Alive(o)
    /\ SetFd(o, Bad)
    /\ UNCHANGED <<os, mode, asked, ok, hand>>

ConstructFrom(o, d) ==
    /\ ~Alive(o)
    /\ d \in hand
    /\ SetFd(o, d)
    /\ hand' = hand \ {d}
    /\ UNCHANGED <<os, mode, asked, ok>>

MoveConstruct(o, p) ==
    /\ ~Alive(o)
    /\ Alive(p)
    /\ fd' = [[fd EXCEPT ![o] = fd[p]] EXCEPT ![p] = Bad]
    /\ UNCHANGED <<os, mode, asked, ok, hand>>

\* An open object does not take the handle: it stays with the caller.
AssignHandle(o, d) ==
    /\ Alive(o)
    /\ d \in hand
    /\ IF IsOpen(o)
         THEN UNCHANGED <<fd, hand>>
         ELSE /\ SetFd(o, d)
              /\ hand' = hand \ {d}
    /\ UNCHANGED <<os, mode, asked, ok>>

MoveAssign(o, p) ==
    /\ Alive(o)
    /\ Alive(p)
    /\ fd' = Swapped(o, p)
    /\ UNCHANGED <<os, mode, asked, ok, hand>>

-----------------------------------------------------------------------------
(* open, reopen, close, release *)

\* An object that is open is left alone; open_ex, on Windows, does the same.
Open(o) ==
    /\ Alive(o)
    /\ IF IsOpen(o)
         THEN UNCHANGED <<os, mode, fd, asked, ok>>
         ELSE \E d \in Descs \cup {Bad} :
                /\ MayGive(os, d)
                /\ os' = Given(os, d, "fresh")
                /\ SetFd(o, d)
                /\ Reset(d, FALSE)
    /\ UNCHANGED hand

\* The table after reopen: closed, and d opened in its place.
ReopenOs_NotClosed(o, d) == Given(os, d, "fresh")  \* mutated form: open only
ReopenOs(o, d) == Given(Closed(os, fd[o]), d, "fresh")

Reopen(o) ==
    /\ Alive(o)
    /\ \E d \in Descs \cup {Bad} :
         /\ MayGive(Closed(os, fd[o]), d)
         /\ os' = ReopenOs(o, d)
         /\ SetFd(o, d)
         /\ Reset(d, FALSE)
    /\ UNCHANGED hand

Close(o) ==
    /\ Alive(o)
    /\ os' = Closed(os, fd[o])
    /\ SetFd(o, Bad)
    /\ UNCHANGED <<mode, asked, ok, hand>>

Destroy(o) ==
    /\ Alive(o)
    /\ os' = Closed(os, fd[o])
    /\ SetFd(o, Gone)
    /\ UNCHANGED <<mode, asked, ok, hand>>

\* The handle goes to the caller, who may close it.
Release(o) ==
    /\ IsOpen(o)
    /\ hand' = hand \cup {fd[o]}
    /\ SetFd(o, Bad)
    /\ UNCHANGED <<os, mode, asked, ok>>

CallerCloses(d) ==
    /\ d \in hand
    /\ hand' = hand \ {d}
    /\ os' = Closed(os, d)
    /\ UNCHANGED <<mode, fd, asked, ok>>

SetNonblocking(o, b) ==
    /\ IsOpen(o)
    /\ mode' = [mode EXCEPT ![fd[o]] = b]
    /\ asked' = [asked EXCEPT ![fd[o]] = b]
    /\ UNCHANGED <<os, fd, ok, hand>>

-----------------------------------------------------------------------------
(* pserv, accept, accept_n *)

\* reopen, bind and listen; when bind or listen fails the socket stays open.
Pserv(o) ==
    /\ Alive(o)
    /\ \E d \in Descs \cup {Bad}, st \in {"fresh", "listening"} :
         /\ MayGive(Closed(os, fd[o]), d)
         /\ os' = Given(ReopenOs(o, d), d, st)
         /\ SetFd(o, d)
         /\ Reset(d, FALSE)
    /\ UNCHANGED hand

\* o = l.accept(), where the new socket starts nonblocking if nb and the mode
\* table is m otherwise.  The temporary's descriptor moves to o if that is
\* closed, and is closed with the temporary if not; ::accept may fail.
TakeConnection(l, o, m, nb) ==
    IF IsOpen(o)
      THEN mode' = m /\ UNCHANGED <<os, fd, asked, ok>>
      ELSE \E d \in Descs \cup {Bad} :
             /\ MayGive(os, d)
             /\ os' = Given(os, d, "accepted")
             /\ SetFd(o, d)
             /\ mode' = Given(m, d, nb)
             /\ asked' = Given(asked, d, Windows /\ asked[fd[l]])
             /\ ok' = ok \ {d}

Listening(l) == IsOpen(l) /\ os[fd[l]] = "listening"

\* Winsock hands the listening socket's mode down to the connection.
Accept(l, o) ==
    /\ Listening(l)
    /\ Alive(o)
    /\ TakeConnection(l, o, mode, Windows /\ mode[fd[l]])
    /\ UNCHANGED hand

\* The listening socket is nonblocking while select waits, and blocking
\* afterwards.  select(1, ...) looks at descriptor 0 only, except on Windows,
\* where the argument means nothing: elsewhere nothing is ever accepted.
AcceptN(l, o) ==
    /\ Listening(l)
    /\ Alive(o)
    /\ LET m == [mode EXCEPT ![fd[l]] = FALSE]
       IN \/ Windows /\ TakeConnection(l, o, m, TRUE)
          \/ mode' = m /\ UNCHANGED <<os, fd, asked, ok>>
    /\ UNCHANGED hand

-----------------------------------------------------------------------------
(* connect, connect_n, pconnect, pconnect_n *)

\* A blocking connect waits for the verdict, a nonblocking one does not.
ConnectStates(st, m) ==
    IF st # "fresh" THEN {st} ELSE IF m THEN {"connecting"} ELSE {"connected", "refused"}

Connect(o) ==
    /\ IsOpen(o)
    /\ \E st \in ConnectStates(os[fd[o]], mode[fd[o]]) :
          os' = [os EXCEPT ![fd[o]] = st]
    /\ UNCHANGED <<mode, fd, asked, ok, hand>>

\* connect_n's answer is 0.  After a select that failed the sets are as they were
\* filled, getsockopt finds no error, and the answer is 0 as well.
Succeeds_AfterTimeout(v) ==  \* mutated form: a select that timed out goes on
    v \in {"at once", "ready", "select fails", "timeout"}
Succeeds(v) == v \in {"at once", "ready", "select fails"}

\* The success is what ::connect or select said.
ToldOf(v) == Succeeds(v) /\ v # "select fails"

\* It closes the socket after a timeout or an error, but not where it returns -1
\* because ::connect failed at once, getsockopt failed or neither set has it.
Closes(v) == v \in {"timeout", "error"}

\* connect_n on descriptor d, where k and m are the tables before it.  After a
\* success the mode is what it was, or on Windows blocking; where it returns
\* without closing, the socket stays nonblocking.
MadeNonblocking_NotRestored(k, m, d, v) ==  \* mutated form: the mode stays
    /\ os' = IF Closes(v) THEN Closed(k, d) ELSE [k EXCEPT ![d] = Outcome(@, v)]
    /\ mode' = [m EXCEPT ![d] = TRUE]
    /\ ok' = IF ToldOf(v) THEN ok \cup {d} ELSE ok \ {d}

MadeNonblocking(k, m, d, v) ==
    /\ os' = IF Closes(v) THEN Closed(k, d) ELSE [k EXCEPT ![d] = Outcome(@, v)]
    /\ mode' = [m EXCEPT ![d] = IF Succeeds(v) THEN ~Windows /\ @ ELSE TRUE]
    /\ ok' = IF ToldOf(v) THEN ok \cup {d} ELSE ok \ {d}

\* Whenever the answer is -1 the object forgets its descriptor.
ConnectN(o) ==
    /\ IsOpen(o)
    /\ \E v \in Verdicts(os[fd[o]]) :
          /\ MadeNonblocking(os, mode, fd[o], v)
          /\ IF Succeeds(v) THEN UNCHANGED fd ELSE SetFd(o, Bad)
    /\ UNCHANGED <<asked, hand>>

\* The static form, on a handle of the caller's, who forgets it likewise.
ConnectHandle(d) ==
    /\ d \in hand
    /\ \E v \in Verdicts(os[d]) :
          /\ MadeNonblocking(os, mode, d, v)
          /\ hand' = IF Succeeds(v) THEN hand ELSE hand \ {d}
    /\ UNCHANGED <<fd, asked>>

\* reopen, then connect; nothing is connected when the socket cannot be made.
Pconnect(o) ==
    /\ Alive(o)
    /\ \E d \in Descs \cup {Bad} :
         /\ MayGive(Closed(os, fd[o]), d)
         /\ \E st \in ConnectStates("fresh", FALSE) : os' = Given(ReopenOs(o, d), d, st)
         /\ SetFd(o, d)
         /\ Reset(d, FALSE)
    /\ UNCHANGED hand

PconnectN(o) ==
    /\ Alive(o)
    /\ \E d \in Descs :
         /\ MayGive(Closed(os, fd[o]), d)
         /\ \E v \in Verdicts("fresh") :
              /\ MadeNonblocking(ReopenOs(o, d), Given(mode, d, FALSE), d, v)
              /\ SetFd(o, IF Succeeds(v) THEN d ELSE Bad)
         /\ asked' = [asked EXCEPT ![d] = FALSE]
    /\ UNCHANGED hand

-----------------------------------------------------------------------------

ObjectStep(o) ==
    \/ Construct(o) \/ Open(o) \/ Reopen(o) \/ Close(o) \/ Destroy(o) \/ Release(o)
    \/ \E b \in BOOLEAN : SetNonblocking(o, b)
    \/ Pserv(o) \/ Connect(o) \/ ConnectN(o) \/ Pconnect(o) \/ PconnectN(o)
    \/ \E p \in Objs : MoveConstruct(o, p) \/ MoveAssign(o, p) \/ Accept(p, o) \/ AcceptN(p, o)
    \/ \E d \in Descs : ConstructFrom(o, d) \/ AssignHandle(o, d)

HandleStep(d) == CallerCloses(d) \/ ConnectHandle(d) \/ (Resolve(d) /\ UNCHANGED hand)

HandleNext == (\E o \in Objs : ObjectStep(o)) \/ (\E d \in Descs : HandleStep(d))

HandleSpec == HandleInit /\ [][HandleNext]_handleVars

-----------------------------------------------------------------------------

\* A descriptor has one owner: what an object or the caller holds is open in
\* the system, and nobody else holds it, so that a close never hits a socket
\* that was opened since under the same number (swap, xxsocket.cpp:592).
OneOwner ==
    /\ \A o \in Objs : IsOpen(o) => os[fd[o]] # "free" /\ fd[o] \notin hand
    /\ \A o, p \in Objs : IsOpen(o) /\ fd[o] = fd[p] => o = p
    /\ \A d \in hand : os[d] # "free"

\* An open descriptor that nobody can close any more was dropped by a connect_n
\* that returned -1 without closing it, and is nonblocking since (xxsocket.cpp:815,
\* after 839, 859 or 862): no other operation loses one, nor any other of its paths.
OnlyConnectLoses ==
    \A d \in Descs :
        os[d] # "free" /\ ~Held(d) /\ d \notin hand =>
            mode[d] /\ d \notin ok

\* What connect_n reports as a success is connected, where its select did not
\* fail (xxsocket.cpp:850-876): a failed select (-1) is only told from a timeout,
\* and getsockopt finds no error of a connection still under way.
SuccessIsConnected ==
    \A d \in ok : Held(d) \/ d \in hand => os[d] = "connected"

\* A socket somebody holds is nonblocking only where its user asked for it,
\* whatever connects and waits it went through, except that accept_n on Windows
\* hands its own temporary mode down to the connection (xxsocket.cpp:757-768).
NonblockingByRequest ==
    \A d \in Descs :
        (Held(d) \/ d \in hand) /\ mode[d] =>
            asked[d] \/ (Windows /\ os[d] = "accepted")
=============================================================================
