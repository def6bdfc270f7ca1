---------------------------- MODULE SocketProofs ----------------------------
(***************************************************************************)
(* What Library keeps true of the sockets of either class on either        *)
(* system, of the calls that read and write a stream, and of the types of  *)
(* its variables.                                                          *)
(***************************************************************************)
EXTENDS ObjectProofs, HandleProofs, SequenceTheorems

(* The older class *)

OlderInv(windows) ==
    /\ DescTypeOK
    /\ OlderOn(TRUE)!HeldAndOpen
    /\ OlderOn(windows)!SuccessIsConnected

LEMMA OlderFrame ==
    ASSUME DescTypeOK
    PROVE  /\ os \in [Descs -> SocketStates] /\ mode \in [Descs -> BOOLEAN]
           /\ fd \in [Objs -> Descs \cup {Bad, Gone}]
           /\ asked \in [Descs -> BOOLEAN] /\ ok \subseteq Descs
           /\ Bad \notin Descs /\ Gone \notin Descs /\ Bad # Gone
  BY DescriptorAssumption DEF DescTypeOK

\* What has to be shown of a step, with the definitions of the instances opened.
LEMMA OlderKeeps ==
    ASSUME NEW w, DescTypeOK',
           \A d \in Descs : os'[d] # "free" <=> \E o \in Objs : fd'[o] = d,
           \A d \in Descs : \A o, p \in Objs : fd'[o] = d /\ fd'[p] = d => o = p,
           w => \A d \in ok' : (\E o \in Objs : fd'[o] = d) => os'[d] = "connected"
    PROVE  OlderInv(w)'
  BY DEF OlderInv, OlderOn!HeldAndOpen, OlderOn!Held, OlderOn!SuccessIsConnected

LEMMA OlderKnows ==
    ASSUME NEW w, OlderInv(w)
    PROVE  /\ \A d \in Descs : os[d] # "free" <=> \E o \in Objs : fd[o] = d
           /\ \A d \in Descs : \A o, p \in Objs : fd[o] = d /\ fd[p] = d => o = p
           /\ w => \A d \in ok : (\E o \in Objs : fd[o] = d) => os[d] = "connected"
  BY DEF OlderInv, OlderOn!HeldAndOpen, OlderOn!Held, OlderOn!SuccessIsConnected

\* o's descriptor, if it has one, is closed, and o holds none or one that was free.
LEMMA OlderRenews ==
    ASSUME NEW w, OlderInv(w), NEW o \in Objs, NEW d \in Descs \cup {Bad, Gone},
           NEW st \in SocketStates \ {"free"}, DescTypeOK',
           d \in Descs => os[d] = "free",
           \A c \in Descs : os'[c] = IF c = d THEN st ELSE IF c = fd[o] THEN "free" ELSE os[c],
           \A p \in Objs : fd'[p] = IF p = o THEN d ELSE fd[p],
           ok' \subseteq ok \ {d}
    PROVE  OlderInv(w)'
<1> USE OlderKnows
<1>1. DescTypeOK
  BY DEF OlderInv
<1>2. \A c \in Descs : os'[c] # "free" <=> \E p \in Objs : fd'[p] = c
  BY <1>1, OlderFrame
<1>3. \A c \in Descs : \A p, q \in Objs : fd'[p] = c /\ fd'[q] = c => p = q
  BY <1>1, OlderFrame
<1>4. ASSUME w, NEW c \in ok', NEW p \in Objs, fd'[p] = c PROVE os'[c] = "connected"
  <2>1. c \in ok /\ c # d /\ c \in Descs
    BY <1>1, <1>4, OlderFrame
  <2>2. p # o /\ fd[p] = c
    BY <1>4, <2>1
  <2>3. c # fd[o]
    BY <2>1, <2>2
  <2> QED
    BY <1>4, <2>1, <2>2, <2>3
<1> QED
  BY <1>2, <1>3, <1>4, OlderKeeps

\* A step in which the objects keep what they hold, open.
LEMMA OlderStays ==
    ASSUME NEW w, OlderInv(w), DescTypeOK', UNCHANGED fd,
           \A c \in Descs : os'[c] = "free" <=> os[c] = "free",
           w => \A c \in ok' : os[c] # "free" =>
                   os'[c] = "connected" \/ (c \in ok /\ os'[c] = os[c])
    PROVE  OlderInv(w)'
<1> USE OlderKnows
<1>1. \A c \in Descs : os'[c] # "free" <=> \E p \in Objs : fd'[p] = c
  OBVIOUS
<1>2. w => \A c \in ok' : (\E p \in Objs : fd'[p] = c) => os'[c] = "connected"
  BY OlderFrame DEF OlderInv, DescTypeOK
<1> QED
  BY <1>1, <1>2, OlderKeeps

LEMMA OlderMembers ==
    ASSUME NEW w \in BOOLEAN, OlderInv(w), NEW o \in Objs,
           OlderOn(w)!Create(o) \/ OlderOn(w)!Open(o) \/ OlderOn(w)!Close(o) \/ OlderOn(w)!Release(o)
    PROVE  OlderInv(w)'
<1> USE DEF OlderOn!SetFd, OlderOn!Alive
<1>0. DescTypeOK
  BY DEF OlderInv
<1> USE <1>0, OlderFrame
<1>1. "fresh" \in SocketStates \ {"free"}
  BY DEF SocketStates
<1>2. CASE OlderOn(w)!Create(o)
  <2>1. fd' = [fd EXCEPT ![o] = Bad] /\ fd[o] = Gone /\ UNCHANGED <<os, mode, asked, ok>>
    BY <1>2 DEF OlderOn!Create
  <2>2. DescTypeOK'
    BY <2>1 DEF DescTypeOK
  <2> QED
    BY <2>1, <2>2, <1>1, OlderRenews
<1>3. CASE OlderOn(w)!Open(o)
  <2>1. PICK d \in Descs \cup {Bad} :
           /\ OlderOn(w)!MayGive(os, d)
           /\ os' = OlderOn(w)!Given(os, d, "fresh")
           /\ fd' = [fd EXCEPT ![o] = d]
           /\ OlderOn(w)!Reset(d, FALSE)
    BY <1>3 DEF OlderOn!Open
  <2>2. fd[o] = Bad
    BY <1>3 DEF OlderOn!Open
  <2>3. d \in Descs => os[d] = "free"
    BY <2>1 DEF OlderOn!MayGive
  <2>4. \A c \in Descs : os'[c] = IF c = d THEN "fresh" ELSE os[c]
    BY <2>1 DEF OlderOn!Given
  <2>5. ok' = ok \ {d}
    BY <2>1 DEF OlderOn!Reset
  <2>6. DescTypeOK'
    <3>1. os' \in [Descs -> SocketStates]
      BY <2>1, <1>1 DEF OlderOn!Given
    <3>2. mode' \in [Descs -> BOOLEAN] /\ asked' \in [Descs -> BOOLEAN]
      BY <2>1 DEF OlderOn!Reset
    <3> QED
      BY <2>1, <2>5, <3>1, <3>2 DEF DescTypeOK
  <2>7. \A c \in Descs : os'[c] = IF c = d THEN "fresh" ELSE IF c = fd[o] THEN "free" ELSE os[c]
    BY <2>2, <2>4
  <2>8. \A p \in Objs : fd'[p] = IF p = o THEN d ELSE fd[p]
    BY <2>1
  <2> QED
    BY <2>3, <2>5, <2>6, <2>7, <2>8, <1>1, OlderRenews
<1>4. ASSUME NEW d \in {Bad, Gone}, os' = OlderOn(w)!Closed(os, fd[o]), fd' = [fd EXCEPT ![o] = d],
             UNCHANGED <<mode, asked, ok>>
      PROVE  OlderInv(w)'
  <2>1. \A c \in Descs : os'[c] = IF c = fd[o] THEN "free" ELSE os[c]
    BY <1>4 DEF OlderOn!Closed
  <2>2. os' \in [Descs -> SocketStates]
    BY <1>4 DEF OlderOn!Closed, SocketStates
  <2>3. DescTypeOK'
    BY <1>4, <2>2 DEF DescTypeOK
  <2> QED
    BY <1>4, <2>1, <2>3, <1>1, OlderRenews
<1> QED
  BY <1>2, <1>3, <1>4 DEF OlderOn!Close, OlderOn!Release

LEMMA OlderTakes ==
    ASSUME NEW w \in BOOLEAN, OlderInv(w), NEW l \in Objs, NEW o \in Objs, fd[o] = Gone,
           fd[l] \in Descs,
           NEW m \in [Descs -> BOOLEAN], NEW nb \in BOOLEAN,
           OlderOn(w)!TakeConnection(l, o, m, nb)
    PROVE  OlderInv(w)'
<1>0. DescTypeOK
  BY DEF OlderInv
<1> USE <1>0, OlderFrame
<1>1. CASE mode' = m /\ UNCHANGED <<os, fd, asked, ok>>
  <2>1. DescTypeOK'
    BY <1>1 DEF DescTypeOK
  <2> QED
    BY <1>1, <2>1, OlderStays
<1>2. ASSUME NEW d \in Descs,
             OlderOn(w)!MayGive(os, d), os' = OlderOn(w)!Given(os, d, "accepted"),
             fd' = [fd EXCEPT ![o] = d], mode' = OlderOn(w)!Given(m, d, nb),
             asked' = OlderOn(w)!Given(asked, d, w /\ asked[fd[l]]), ok' = ok \ {d}
      PROVE  OlderInv(w)'
  <2>1. os[d] = "free"
    BY <1>2 DEF OlderOn!MayGive
  <2>2. "accepted" \in SocketStates \ {"free"}
    BY DEF SocketStates
  <2>3. \A c \in Descs : os'[c] = IF c = d THEN "accepted" ELSE os[c]
    BY <1>2 DEF OlderOn!Given
  <2>4. DescTypeOK'
    <3>1. os' \in [Descs -> SocketStates]
      BY <1>2, <2>2 DEF OlderOn!Given
    <3>2. mode' \in [Descs -> BOOLEAN] /\ asked' \in [Descs -> BOOLEAN]
      BY <1>2 DEF OlderOn!Given
    <3> QED
      BY <1>2, <3>1, <3>2 DEF DescTypeOK
  <2>5. \A c \in Descs : os'[c] = IF c = d THEN "accepted" ELSE IF c = fd[o] THEN "free" ELSE os[c]
    BY <2>3
  <2> QED
    BY <1>2, <2>1, <2>2, <2>4, <2>5, OlderRenews
<1> QED
  BY <1>1, <1>2 DEF OlderOn!TakeConnection, OlderOn!SetFd

\* On Windows a connect that is taken for a success is one.
LEMMA OlderConnects ==
    ASSUME NEW w \in BOOLEAN, OlderInv(w), NEW o \in Objs, NEW success, OlderOn(w)!ConnectedBy(o, success),
           success \subseteq OlderOn(w)!Writable
    PROVE  OlderInv(w)'
<1>0. DescTypeOK
  BY DEF OlderInv
<1> USE <1>0, OlderFrame
<1>1. fd[o] \in Descs /\ os[fd[o]] = "fresh" /\ UNCHANGED asked
  BY DEF OlderOn!ConnectedBy, OlderOn!IsOpen
<1>2. PICK v \in OlderOn(w)!Verdicts("fresh") :
         IF v \in success
            THEN /\ os' = [os EXCEPT ![fd[o]] = OlderOn(w)!Outcome(@, v)]
                 /\ mode' = [mode EXCEPT ![fd[o]] = FALSE]
                 /\ ok' = ok \cup {fd[o]}
                 /\ UNCHANGED fd
            ELSE /\ os' = OlderOn(w)!Closed(os, fd[o])
                 /\ fd' = [fd EXCEPT ![o] = Bad]
                 /\ UNCHANGED <<mode, ok>>
  BY DEF OlderOn!ConnectedBy, OlderOn!SetFd
<1>3. CASE v \in success
  <2>1. w => v \in {"at once", "ready"}
    BY <1>3 DEF OlderOn!Writable
  <2>2. /\ OlderOn(w)!Outcome("fresh", v) \in SocketStates \ {"free"}
        /\ w => OlderOn(w)!Outcome("fresh", v) = "connected"
    BY <2>1 DEF OlderOn!Outcome, OlderOn!Verdicts, SocketStates
  <2>3. os' = [os EXCEPT ![fd[o]] = OlderOn(w)!Outcome("fresh", v)]
    BY <1>1, <1>2, <1>3
  <2>4. DescTypeOK'
    BY <1>1, <1>2, <1>3, <2>2, <2>3 DEF DescTypeOK
  <2>5. \A c \in Descs : os'[c] = "free" <=> os[c] = "free"
    BY <1>1, <2>2, <2>3
  <2>6. ASSUME w, NEW c \in ok' PROVE os'[c] = "connected" \/ (c \in ok /\ os'[c] = os[c])
    <3>1. CASE c = fd[o]
      BY <1>1, <2>2, <2>3, <2>6, <3>1
    <3>2. CASE c # fd[o]
      BY <1>2, <1>3, <2>3, <2>6, <3>2
    <3> QED
      BY <3>1, <3>2
  <2> QED
    BY <1>2, <1>3, <2>4, <2>5, <2>6, OlderStays
<1>4. CASE v \notin success
  <2>1. \A c \in Descs : os'[c] = IF c = fd[o] THEN "free" ELSE os[c]
    BY <1>1, <1>2, <1>4 DEF OlderOn!Closed
  <2>2. os' \in [Descs -> SocketStates]
    BY <1>1, <1>2, <1>4 DEF OlderOn!Closed, SocketStates
  <2>3. DescTypeOK'
    BY <1>1, <1>2, <1>4, <2>2 DEF DescTypeOK
  <2>4. "fresh" \in SocketStates \ {"free"}
    BY DEF SocketStates
  <2> QED
    BY <1>2, <1>4, <2>1, <2>3, <2>4, OlderRenews
<1> QED
  BY <1>3, <1>4

\* The steps that change the state or the mode of one socket.
LEMMA OlderChanges ==
    ASSUME NEW w \in BOOLEAN, OlderInv(w),
           \/ \E o \in Objs :
                 \/ OlderOn(w)!Listen(o) \/ OlderOn(w)!Connect(o)
                 \/ \E b \in BOOLEAN : OlderOn(w)!SetMode(o, b)
           \/ \E d \in Descs : OlderOn(w)!Resolve(d)
    PROVE  OlderInv(w)'
<1>0. DescTypeOK
  BY DEF OlderInv
<1> USE <1>0, OlderFrame, OlderKnows
<1>1. ASSUME NEW o \in Objs, NEW b \in BOOLEAN, OlderOn(w)!SetMode(o, b) PROVE OlderInv(w)'
  <2>1. DescTypeOK' /\ UNCHANGED <<os, fd, ok>>
    BY <1>1 DEF OlderOn!SetMode, OlderOn!IsOpen, DescTypeOK
  <2> QED
    BY <2>1, OlderStays
<1>2. ASSUME NEW d \in Descs, os[d] \in {"fresh", "connecting"},
             NEW st \in {"listening", "connecting", "connected", "refused"},
             os' = [os EXCEPT ![d] = st], UNCHANGED <<mode, fd, asked, ok>>
      PROVE  OlderInv(w)'
  <2>1. DescTypeOK'
    BY <1>2 DEF DescTypeOK, SocketStates
  <2>2. \A c \in Descs : os'[c] = "free" <=> os[c] = "free"
    BY <1>2
  <2>3. w => \A c \in ok' : os[c] # "free" => os'[c] = "connected" \/ (c \in ok /\ os'[c] = os[c])
    BY <1>2
  <2> QED
    BY <1>2, <2>1, <2>2, <2>3, OlderStays
<1>3. ASSUME NEW o \in Objs, OlderOn(w)!Listen(o) PROVE OlderInv(w)'
  BY <1>2, <1>3 DEF OlderOn!Listen, OlderOn!IsOpen
<1>4. ASSUME NEW o \in Objs, OlderOn(w)!Connect(o) PROVE OlderInv(w)'
  BY ZenonT(40), <1>2, <1>4 DEF OlderOn!Connect, OlderOn!IsOpen
<1>5. ASSUME NEW d \in Descs, OlderOn(w)!Resolve(d) PROVE OlderInv(w)'
  BY <1>2, <1>5 DEF OlderOn!Resolve
<1> QED
  BY <1>1, <1>3, <1>4, <1>5

LEMMA OlderSteps ==
    ASSUME NEW w \in BOOLEAN, OlderInv(w), OlderOn(w)!Next
    PROVE  OlderInv(w)'
<1>0. DescTypeOK
  BY DEF OlderInv
<1>1. ASSUME NEW o \in Objs, NEW l \in Objs, OlderOn(w)!Accept(l, o) PROVE OlderInv(w)'
  <2>1. PICK nb \in BOOLEAN : nb = (w /\ mode[fd[l]])
    OBVIOUS
  <2> QED
    BY <1>0, <1>1, <2>1, OlderFrame, OlderTakes
    DEF OlderOn!Accept, OlderOn!IsOpen, OlderOn!Alive
<1>2. ASSUME NEW o \in Objs, NEW l \in Objs, OlderOn(w)!AcceptN(l, o) PROVE OlderInv(w)'
  <2>1. PICK m \in [Descs -> BOOLEAN] : m = [mode EXCEPT ![fd[l]] = FALSE]
    BY <1>0, OlderFrame
  <2>2. fd[o] = Gone /\ fd[l] \in Descs /\ OlderOn(w)!TakeConnection(l, o, m, w)
    BY <1>2, <2>1 DEF OlderOn!AcceptN, OlderOn!IsOpen, OlderOn!Alive
  <2> QED
    BY <2>2, OlderTakes
<1>3. ASSUME NEW o \in Objs, OlderOn(w)!ConnectN(o) \/ OlderOn(w)!ConnectNI(o) PROVE OlderInv(w)'
  <2>1. OlderOn(w)!WritableWithoutError \subseteq OlderOn(w)!Writable
    BY DEF OlderOn!WritableWithoutError
  <2> QED
    BY <1>3, <2>1, OlderConnects DEF OlderOn!ConnectN, OlderOn!ConnectNI
<1> QED
  BY <1>1, <1>2, <1>3, OlderMembers, OlderChanges DEF OlderOn!Next
LEMMA OlderKept == ASSUME NEW w, UNCHANGED handleVars PROVE OlderInv(w) => OlderInv(w)'
  BY DEF handleVars, OlderInv, DescTypeOK, OlderOn!HeldAndOpen, OlderOn!Held,
     OlderOn!SuccessIsConnected

LEMMA OlderInitial == ASSUME NEW w, DescInit PROVE OlderInv(w)
<1>1. DescTypeOK
  BY DEF DescInit, DescTypeOK, SocketStates
<1> QED
  BY <1>1, DescriptorAssumption
  DEF OlderInv, DescInit, OlderOn!HeldAndOpen, OlderOn!Held, OlderOn!SuccessIsConnected

-----------------------------------------------------------------------------
(* Both classes, in the library *)

\* What HandleProofs shows of xxsocket, of its POSIX build.
Posix == INSTANCE HandleProofs WITH Windows <- FALSE

\* The invariant of whichever class, on whichever system, is being run.
SocketsInv ==
    /\ subject = "winsock" => IInv
    /\ subject = "posix sockets" => Posix!IInv
    /\ subject = "older winsock" => OlderInv(TRUE)
    /\ subject = "older posix sockets" => OlderInv(FALSE)

LEMMA SocketsInitial == LibInit => SocketsInv
<1> SUFFICES ASSUME LibInit PROVE SocketsInv
  OBVIOUS
<1>1. HandleInit /\ DescInit
  BY DEF LibInit, HandleInit
<1>2. IInv
  BY <1>1, InitHolds
<1>3. Posix!IInv
  <2>1. Posix!HandleInit
    BY <1>1 DEF HandleInit, DescInit, Posix!HandleInit, Posix!DescInit
  <2> QED
    BY <2>1, DescriptorAssumption, Posix!InitHolds
<1>4. OlderInv(TRUE) /\ OlderInv(FALSE)
  BY <1>1, OlderInitial
<1> QED
  BY <1>2, <1>3, <1>4 DEF SocketsInv

\* The two instances are the same steps, each definition of one that of the other.
LEMMA PosixSteps == PosixSocket!HandleNext => Posix!HandleNext
  BY DEF PosixSocket!Alive, PosixSocket!IsOpen, PosixSocket!Held, PosixSocket!SetFd,
     PosixSocket!Closed, PosixSocket!MayGive, PosixSocket!Given, PosixSocket!Reset,
     PosixSocket!Verdicts, PosixSocket!Outcome, PosixSocket!Resolve, PosixSocket!Swapped,
     PosixSocket!Construct, PosixSocket!ConstructFrom, PosixSocket!MoveConstruct,
     PosixSocket!AssignHandle, PosixSocket!MoveAssign, PosixSocket!Open, PosixSocket!ReopenOs,
     PosixSocket!Reopen, PosixSocket!Close, PosixSocket!Destroy, PosixSocket!Release,
     PosixSocket!CallerCloses, PosixSocket!SetNonblocking, PosixSocket!Pserv,
     PosixSocket!TakeConnection, PosixSocket!Listening, PosixSocket!Accept, PosixSocket!AcceptN,
     PosixSocket!ConnectStates, PosixSocket!Connect, PosixSocket!Succeeds, PosixSocket!ToldOf, PosixSocket!Closes,
     PosixSocket!MadeNonblocking, PosixSocket!ConnectN, PosixSocket!ConnectHandle,
     PosixSocket!Pconnect, PosixSocket!PconnectN, PosixSocket!ObjectStep,
     PosixSocket!HandleStep, PosixSocket!HandleNext, Posix!Alive, Posix!IsOpen, Posix!Held,
     Posix!SetFd, Posix!Closed, Posix!MayGive, Posix!Given, Posix!Reset, Posix!Verdicts,
     Posix!Outcome, Posix!Resolve, Posix!Swapped, Posix!Construct, Posix!ConstructFrom,
     Posix!MoveConstruct, Posix!AssignHandle, Posix!MoveAssign, Posix!Open, Posix!ReopenOs,
     Posix!Reopen, Posix!Close, Posix!Destroy, Posix!Release, Posix!CallerCloses,
     Posix!SetNonblocking, Posix!Pserv, Posix!TakeConnection, Posix!Listening, Posix!Accept,
     Posix!AcceptN, Posix!ConnectStates, Posix!Connect, Posix!Succeeds, Posix!ToldOf, Posix!Closes,
     Posix!MadeNonblocking, Posix!ConnectN, Posix!ConnectHandle, Posix!Pconnect,
     Posix!PconnectN, Posix!ObjectStep, Posix!HandleStep, Posix!HandleNext

LEMMA SocketsStep == SocketsInv /\ [LibNext]_libVars => SocketsInv'
<1> SUFFICES ASSUME SocketsInv, [LibNext]_libVars PROVE SocketsInv'
  OBVIOUS
<1>1. UNCHANGED subject
  BY DEF LibNext, Still, libVars
<1>2. CASE UNCHANGED handleVars
  <2>1. UNCHANGED Posix!handleVars
    BY <1>2 DEF handleVars, Posix!handleVars
  <2>2. Posix!IInv => Posix!IInv'
    BY <2>1, DescriptorAssumption, Posix!Stutter
  <2> QED
    BY <1>1, <1>2, <2>2, Stutter, OlderKept DEF SocketsInv
<1>3. CASE subject = "winsock" /\ HandleNext
  BY <1>1, <1>3, NextKeeps DEF SocketsInv
<1>4. CASE subject = "posix sockets" /\ PosixSocket!HandleNext
  <2>1. Posix!IInv'
    BY <1>4, PosixSteps, DescriptorAssumption, Posix!NextKeeps DEF SocketsInv
  <2> QED
    BY <1>1, <1>4, <2>1 DEF SocketsInv
<1>5. CASE subject = "older winsock" /\ OlderOn(TRUE)!Next
  BY <1>1, <1>5, OlderSteps DEF SocketsInv
<1>6. CASE subject = "older posix sockets" /\ OlderOn(FALSE)!Next
  BY <1>1, <1>6, OlderSteps DEF SocketsInv
<1> QED
  BY <1>2, <1>3, <1>4, <1>5, <1>6 DEF LibNext, Still, libVars

\* An object of the older class holds an open descriptor of its own and no open
\* descriptor is without its object, whatever its connects and accepts came to,
\* although the destructor does not close (common/xsocket.cpp:16).
THEOREM OlderLosesNone == LibSpec => []HeldAndOpen
<1>1. SocketsInv => HeldAndOpen
  BY DEF SocketsInv, OlderInv, HeldAndOpen
<1> QED
  BY <1>1, SocketsInitial, SocketsStep, PTL DEF LibSpec

\* Both classes report a connection only where there is one: connect_n of xxsocket
\* on the word of its select (xxsocket.cpp:850-876), on either system, and on Windows
\* either connect of the older class (common/xsocket.cpp:176-207).
THEOREM ToldIsConnected == LibSpec => []ConnectedWhenTold
<1>1. Posix!IInv => PosixSocket!SuccessIsConnected
  BY DEF Posix!IInv, Posix!SuccessIsConnected, Posix!Held,
     PosixSocket!SuccessIsConnected, PosixSocket!Held
<1>2. SocketsInv => ConnectedWhenTold
  BY <1>1 DEF SocketsInv, OlderInv, IInv, ConnectedWhenTold, OlderOn!SuccessIsConnected
<1> QED
  BY <1>2, SocketsInitial, SocketsStep, PTL DEF LibSpec

\* On either system a socket of xxsocket that somebody holds is nonblocking only
\* where its user asked for it (xxsocket.cpp:757-768, 807-880).
THEOREM ModeOnEither == LibSpec => []ModeByRequest
<1>1. Posix!IInv => PosixSocket!NonblockingByRequest
  BY DEF Posix!IInv, Posix!NonblockingByRequest, Posix!Held,
     PosixSocket!NonblockingByRequest, PosixSocket!Held
<1>2. SocketsInv => ModeByRequest
  BY <1>1 DEF SocketsInv, IInv, ModeByRequest
<1> QED
  BY <1>2, SocketsInitial, SocketsStep, PTL DEF LibSpec

-----------------------------------------------------------------------------
(* Reading from and writing to a stream *)

\* Where a call that is under way has got to.  The loops that have no slices
\* count from the start of the buffer, and have not met their end.
Whole == call.op \notin StreamCalls!Sliced => base = 0 /\ count = Len(moved)

Wanting ==
    /\ call.op \in StreamCalls!Plain \cup StreamCalls!Timed => part = call.len /\ count < part
    /\ call.op = "read_until" =>
          part = StreamCalls!BufLen /\ Len(moved) \notin call.delims
    /\ retry > 0
    /\ pc = "wait" =>
          call.nonblocking /\ call.op \in StreamCalls!Timed \cup {"read_until"}

\* A slice that failed moves the pointer too far, but then the connection has
\* nothing more that could be put there.
Slicing ==
    call.op \in StreamCalls!Sliced =>
        /\ leavings > 0 /\ count \in 0 .. part - 1
        /\ part = IF leavings > call.slice THEN call.slice ELSE leavings
        /\ ~call.nonblocking =>
              peer.left = 0 \/ (base + count = Len(moved) /\ base + leavings = call.len)

\* What a call that is over has told, by operation.
Told ==
    /\ call.op \in StreamCalls!Plain =>
          result = Len(moved)
             \/ (result = Len(moved) - 1 /\ (StreamCalls!Over \/ ~StreamCalls!Blocking))
    /\ call.op \in StreamCalls!Timed =>
          IF result > 0 THEN result = call.len /\ Len(moved) = call.len
                        ELSE Len(moved) < call.len
    /\ call.op \in StreamCalls!Sliced /\ StreamCalls!Blocking =>
          result = call.len /\ Len(moved) = call.len
    /\ call.op = "read_until" =>
          /\ result = 1 <=> Len(moved) \in call.delims
          /\ result = 0 => StreamCalls!Over \/ ~StreamCalls!Blocking

StreamInv ==
    /\ StreamCalls!StreamTypeOK
    /\ pc = "idle" => base = 0 /\ count = 0 /\ moved = <<>> /\ retry = StreamCalls!Retries
    /\ pc \in {"io", "wait"} => Whole /\ Wanting /\ Slicing
    /\ peer.link = "reset" => peer.left = 0
    /\ InOrder
    /\ pc = "returned" => Told

\* The next n bytes in order.
Following(k, n) == [i \in 1 .. n |-> k + i]

LEMMA Extends ==
    ASSUME NEW s \in Seq(Nat), NEW k \in Nat, NEW n \in Nat
    PROVE  LET t == s \o Following(k, n)
           IN  /\ t \in Seq(Nat)
               /\ Len(t) = Len(s) + n
               /\ k = Len(s) /\ s = [i \in 1 .. Len(s) |-> i] => t = [i \in 1 .. Len(t) |-> i]
<1> DEFINE u == Following(k, n)
           t == s \o u
<1>1. u \in Seq(Nat) /\ Len(u) = n /\ \A i \in 1 .. n : u[i] = k + i
  BY DEF Following
<1>2. Len(s) \in Nat
  OBVIOUS
<1> HIDE DEF u
<1>4. /\ t \in Seq(Nat) /\ Len(t) = Len(s) + n
      /\ \A i \in 1 .. Len(s) + n : t[i] = IF i <= Len(s) THEN s[i] ELSE u[i - Len(s)]
  BY <1>1, ConcatProperties
<1> HIDE DEF t
<1>5. ASSUME k = Len(s), s = [i \in 1 .. Len(s) |-> i] PROVE t = [i \in 1 .. Len(t) |-> i]
  <2>1. \A i \in 1 .. Len(s) : s[i] = i
    BY <1>2, <1>5
  <2>2. \A i \in 1 .. Len(s) + n : t[i] = i
    <3>1. ASSUME NEW i \in 1 .. Len(s) PROVE t[i] = i
      BY <1>2, <1>4, <2>1, i \in 1 .. Len(s) + n, i <= Len(s)
    <3>2. ASSUME NEW i \in 1 .. Len(s) + n, ~(i <= Len(s)) PROVE t[i] = i
      <4>1. i - Len(s) \in 1 .. n
        BY <1>2, <3>2
      <4>2. u[i - Len(s)] = k + (i - Len(s))
        BY <1>1, <4>1
      <4> QED
        BY <1>2, <1>4, <1>5, <3>2, <4>2
    <3> QED
      BY <1>2, <3>1, <3>2
  <2>3. t = [i \in 1 .. Len(t) |-> t[i]]
    BY <1>4, LenProperties
  <2> QED
    BY <1>2, <1>4, <2>2, <2>3
<1> QED
  BY <1>4, <1>5 DEF t, u

\* What an answer n of the system says of the connection.
Answer(n) ==
    /\ n \in Int /\ n >= -1 /\ n <= peer.left
    /\ n <= 0 => call.nonblocking \/ (StreamCalls!Over /\ peer.left = 0)

LEMMA GivenAnswers ==
    ASSUME StreamInv, NEW k \in Nat, NEW n,
           n \in StreamCalls!Given(k) \/ (StreamCalls!WouldBlock /\ n = -1)
    PROVE  Answer(n) /\ (n > 0 => n <= k)
<1>1. peer.left \in Nat /\ (peer.link = "reset" => peer.left = 0)
  BY StreamAssumption DEF StreamInv, StreamCalls!StreamTypeOK
<1>2. CASE StreamCalls!WouldBlock /\ n = -1
  BY <1>1, <1>2, StreamAssumption DEF StreamCalls!WouldBlock, Answer, StreamInv, StreamCalls!StreamTypeOK
<1>3. CASE n \in StreamCalls!Given(k)
  BY <1>1, <1>3, StreamAssumption
  DEF StreamCalls!Given, Answer, StreamCalls!Over, StreamInv, StreamCalls!StreamTypeOK
<1> QED
  BY <1>2, <1>3

LEMMA Moves ==
    ASSUME StreamInv, NEW n, Answer(n), StreamCalls!Move(n), base + count \in Nat
    PROVE  /\ moved' \in Seq(Nat)
           /\ Len(moved') = IF n > 0 THEN Len(moved) + n ELSE Len(moved)
           /\ peer' \in [left : 0 .. Stream, link : {"open", "fin", "reset"}]
           /\ peer'.link = peer.link
           /\ peer'.left = IF n > 0 THEN peer.left - n ELSE peer.left
           /\ base + count = Len(moved) /\ moved = [i \in 1 .. Len(moved) |-> i]
                 => moved' = [i \in 1 .. Len(moved') |-> i]
           /\ n <= 0 => moved' = moved
<1>1. /\ moved \in Seq(Nat) /\ n \in Int /\ n <= peer.left
      /\ peer \in [left : 0 .. Stream, link : {"open", "fin", "reset"}]
  BY DEF StreamInv, StreamCalls!StreamTypeOK, Answer
<1>2. CASE n > 0
  <2>1. n \in Nat
    BY <1>1, <1>2
  <2>2. moved' = moved \o Following(base + count, n) /\ peer' = [peer EXCEPT !.left = @ - n]
    BY <1>2 DEF StreamCalls!Move, Following
  <2>3. /\ moved' \in Seq(Nat) /\ Len(moved') = Len(moved) + n
        /\ base + count = Len(moved) /\ moved = [i \in 1 .. Len(moved) |-> i]
              => moved' = [i \in 1 .. Len(moved') |-> i]
    <3>1. PICK k \in Nat : k = base + count
      OBVIOUS
    <3>2. moved' = moved \o Following(k, n)
      BY <2>2, <3>1
    <3>3. LET t == moved \o Following(k, n)
          IN  /\ t \in Seq(Nat) /\ Len(t) = Len(moved) + n
              /\ k = Len(moved) /\ moved = [i \in 1 .. Len(moved) |-> i]
                    => t = [i \in 1 .. Len(t) |-> i]
      BY <1>1, <2>1, Extends
    <3>4. /\ moved' \in Seq(Nat) /\ Len(moved') = Len(moved) + n
          /\ k = Len(moved) /\ moved = [i \in 1 .. Len(moved) |-> i]
                => moved' = [i \in 1 .. Len(moved') |-> i]
      BY <3>2, <3>3
    <3> QED
      BY <3>1, <3>4
  <2>4. /\ peer' \in [left : 0 .. Stream, link : {"open", "fin", "reset"}]
        /\ peer'.link = peer.link /\ peer'.left = peer.left - n
    BY <1>1, <1>2, <2>2, StreamAssumption
  <2> QED
    BY <1>1, <1>2, <2>3, <2>4
<1>3. CASE ~(n > 0)
  BY <1>1, <1>3 DEF StreamCalls!Move
<1> QED
  BY <1>2, <1>3


\* The arguments of a call and the members it works with.
LEMMA Arguments ==
    ASSUME StreamCalls!StreamTypeOK
    PROVE  /\ call.op \in {"send", "recv", "send_n", "recv_n", "sliced send", "sliced recv", "read_until"}
           /\ call.len \in Nat \ {0} /\ call.slice \in Nat \ {0} /\ call.nonblocking \in BOOLEAN
           /\ base \in Nat /\ part \in Nat /\ count \in Int /\ leavings \in Int
           /\ moved \in Seq(Nat) /\ Len(moved) \in Nat /\ retry \in 0 .. 3
           /\ peer.left \in Nat
<1>1. call \in [op : StreamCalls!Ops, len : 1 .. MaxLen, slice : 1 .. MaxLen,
                nonblocking : BOOLEAN, delims : SUBSET (1 .. Stream)]
  BY DEF StreamCalls!StreamTypeOK, StreamCalls!Calls
<1>2. call.op \in StreamCalls!Ops /\ call.len \in 1 .. MaxLen /\ call.slice \in 1 .. MaxLen
      /\ call.nonblocking \in BOOLEAN
  BY <1>1
<1>3. call.op \in {"send", "recv", "send_n", "recv_n", "sliced send", "sliced recv", "read_until"}
  BY <1>2 DEF StreamCalls!Ops, StreamCalls!Plain, StreamCalls!Timed, StreamCalls!Sliced
<1>4. call.len \in Nat \ {0} /\ call.slice \in Nat \ {0}
  BY <1>2, StreamAssumption
<1>5. base \in Nat /\ part \in Nat /\ count \in Int /\ leavings \in Int /\ retry \in 0 .. 3
  BY DEF StreamCalls!StreamTypeOK, StreamCalls!Retries
<1>6. moved \in Seq(Nat) /\ Len(moved) \in Nat
  BY DEF StreamCalls!StreamTypeOK
<1>7. peer.left \in Nat
  <2>1. peer \in [left : 0 .. Stream, link : {"open", "fin", "reset"}]
    BY DEF StreamCalls!StreamTypeOK
  <2> QED
    BY <2>1, StreamAssumption
<1> QED
  BY <1>2, <1>3, <1>4, <1>5, <1>6, <1>7

\* A turn of a loop without slices, up to what it does with the count.
LEMMA WholeTurn ==
    ASSUME StreamInv, pc = "io", NEW n, Answer(n), StreamCalls!Move(n),
           call.op \notin StreamCalls!Sliced, UNCHANGED <<call, base, part, leavings, late>>
    PROVE  /\ base = 0 /\ count = Len(moved) /\ count \in Nat /\ n \in Int /\ n >= -1
           /\ Len(moved') = IF n > 0 THEN count + n ELSE count
           /\ peer'.link = peer.link
           /\ moved' \in Seq(Nat) /\ peer' \in [left : 0 .. Stream, link : {"open", "fin", "reset"}]
           /\ InOrder' /\ (peer.link = "reset" => peer.left = 0)'
<1>1. StreamCalls!StreamTypeOK /\ base = 0 /\ count = Len(moved)
  BY DEF StreamInv, Whole
<1>2. peer.left \in Nat /\ Len(moved) \in Nat
  BY <1>1, Arguments
<1>3. n \in Int /\ n >= -1 /\ (n > 0 => peer.left > 0)
  BY <1>2 DEF Answer
<1>4. moved = [i \in 1 .. Len(moved) |-> i]
  BY DEF StreamInv, InOrder, StreamCalls!InOrder
<1>5. base + count = Len(moved) /\ base + count \in Nat
  BY <1>1, <1>2
<1>6. /\ moved' \in Seq(Nat) /\ Len(moved') = (IF n > 0 THEN Len(moved) + n ELSE Len(moved))
      /\ peer' \in [left : 0 .. Stream, link : {"open", "fin", "reset"}]
      /\ peer'.link = peer.link
      /\ peer'.left = (IF n > 0 THEN peer.left - n ELSE peer.left)
      /\ moved' = [i \in 1 .. Len(moved') |-> i]
  BY <1>4, <1>5, Moves
<1>7. InOrder'
  BY <1>6 DEF InOrder, StreamCalls!InOrder
<1>8. peer.link = "reset" => peer.left = 0
  BY DEF StreamInv
<1>9. peer'.link = "reset" => peer'.left = 0
  BY <1>2, <1>3, <1>6, <1>8
<1> QED
  BY <1>1, <1>2, <1>3, <1>6, <1>7, <1>9

\* A loop without slices that goes on, having counted what it moved.
LEMMA WholeGoesOn ==
    ASSUME StreamInv, pc = "io", call.op \notin StreamCalls!Sliced,
           UNCHANGED <<call, base, part, leavings, late, result>>,
           pc' = "io", count' = Len(moved'), count' \in Int, retry' \in 1 .. 3,
           moved' \in Seq(Nat), peer' \in [left : 0 .. Stream, link : {"open", "fin", "reset"}],
           InOrder', (peer.link = "reset" => peer.left = 0)',
           call.op # "read_until" => count' < part,
           call.op = "read_until" => Len(moved') \notin call.delims
    PROVE  StreamInv'
<1>1. StreamCalls!StreamTypeOK'
  BY DEF StreamInv, StreamCalls!StreamTypeOK, StreamCalls!Steps, StreamCalls!Retries
<1>2. Whole /\ Wanting
  BY DEF StreamInv
<1>3. Whole'
  BY <1>2 DEF Whole
<1>4. Wanting'
  <2>1. retry' > 0
    OBVIOUS
  <2>2. call.op \in StreamCalls!Plain \cup StreamCalls!Timed => call.op # "read_until"
    BY DEF StreamCalls!Plain, StreamCalls!Timed
  <2> QED
    BY <1>2, <2>1, <2>2 DEF Wanting
<1>5. Slicing'
  BY DEF Slicing
<1> QED
  BY <1>1, <1>3, <1>4, <1>5 DEF StreamInv

\* A call that returns, with the right answer.
LEMMA Returns ==
    ASSUME StreamInv, UNCHANGED <<call, base, part>>, late' \in BOOLEAN,
           pc' = "returned", count' \in Int, leavings' \in Int, retry' \in 0 .. 3, result' \in Int,
           moved' \in Seq(Nat), peer' \in [left : 0 .. Stream, link : {"open", "fin", "reset"}],
           InOrder', (peer.link = "reset" => peer.left = 0)', Told'
    PROVE  StreamInv'
<1>1. StreamCalls!StreamTypeOK'
  BY DEF StreamInv, StreamCalls!StreamTypeOK, StreamCalls!Steps, StreamCalls!Retries
<1> QED
  BY <1>1 DEF StreamInv

\* Why a turn moved nothing.
LEMMA OverOrNonblocking ==
    ASSUME NEW n \in Int, n <= 0, Answer(n), UNCHANGED call, peer'.link = peer.link
    PROVE  StreamCalls!Over' \/ ~StreamCalls!Blocking'
  BY DEF Answer, StreamCalls!Over, StreamCalls!Blocking, StreamCalls!Receives

LEMMA PlainKeeps ==
    ASSUME StreamInv, pc = "io", NEW n, Answer(n), n > 0 => n <= part - count,
           StreamCalls!PlainTurn(n)
    PROVE  StreamInv'
<1>0. StreamCalls!StreamTypeOK /\ retry \in 1 .. 3 /\ leavings \in Int /\ late \in BOOLEAN
      /\ part \in Nat
  BY DEF StreamInv, StreamCalls!StreamTypeOK, StreamCalls!Retries, Wanting
<1>1. /\ call.op \in {"send", "recv"} /\ StreamCalls!Move(n) /\ count' = count + n
      /\ UNCHANGED <<call, base, part, leavings, retry, late>>
      /\ call.op \notin StreamCalls!Sliced
  BY DEF StreamCalls!PlainTurn, StreamCalls!Plain, StreamCalls!Sliced
<1>2. part = call.len /\ count < part
  BY <1>1 DEF StreamInv, Wanting, StreamCalls!Plain
<1>3. /\ base = 0 /\ count = Len(moved) /\ count \in Nat /\ n \in Int /\ n >= -1
      /\ Len(moved') = IF n > 0 THEN count + n ELSE count
      /\ peer'.link = peer.link
      /\ moved' \in Seq(Nat) /\ peer' \in [left : 0 .. Stream, link : {"open", "fin", "reset"}]
      /\ InOrder' /\ (peer.link = "reset" => peer.left = 0)'
  BY <1>1, WholeTurn
<1>4. CASE StreamCalls!LoopsOn(n)
  <2>1. pc' = "io" /\ UNCHANGED result /\ n > 0 /\ count + n < part
    BY <1>4 DEF StreamCalls!PlainTurn, StreamCalls!LoopsOn
  <2>2. count' = Len(moved') /\ count' \in Int /\ count' < part /\ retry' \in 1 .. 3
        /\ call.op # "read_until"
    BY <1>0, <1>1, <1>3, <2>1
  <2> QED
    BY <1>1, <1>3, <2>1, <2>2, WholeGoesOn
<1>5. CASE ~StreamCalls!LoopsOn(n)
  <2>1. pc' = "returned" /\ result' = count + n
    BY <1>5 DEF StreamCalls!PlainTurn, StreamCalls!Return
  <2>2. result' = Len(moved') \/ (result' = Len(moved') - 1 /\ n = -1)
    BY <1>3, <2>1
  <2>3. n = -1 => StreamCalls!Over' \/ ~StreamCalls!Blocking'
    BY <1>1, <1>3, OverOrNonblocking
  <2>4. Told'
    BY <1>1, <2>2, <2>3 DEF Told, StreamCalls!Timed, StreamCalls!Sliced
  <2>5. count' \in Int /\ result' \in Int /\ retry' \in 0 .. 3 /\ leavings' \in Int /\ late' \in BOOLEAN
    BY <1>0, <1>1, <1>3, <2>1
  <2> QED
    BY <1>1, <1>3, <2>1, <2>4, <2>5, Returns
<1> QED
  BY <1>4, <1>5

LEMMA TimedKeeps ==
    ASSUME StreamInv, pc = "io", NEW n, Answer(n), n > 0 => n <= part - count,
           StreamCalls!TimedTurn(n)
    PROVE  StreamInv'
<1>0. StreamCalls!StreamTypeOK /\ retry \in 1 .. 3 /\ leavings \in Int /\ late \in BOOLEAN
      /\ part \in Nat
  BY DEF StreamInv, StreamCalls!StreamTypeOK, StreamCalls!Retries, Wanting
<1>1. /\ call.op \in {"send_n", "recv_n"} /\ StreamCalls!Move(n)
      /\ UNCHANGED <<call, base, part, leavings, retry, late>>
      /\ call.op \notin StreamCalls!Sliced
  BY DEF StreamCalls!TimedTurn, StreamCalls!Timed, StreamCalls!Sliced
<1>2. part = call.len /\ count < part
  BY <1>1 DEF StreamInv, Wanting, StreamCalls!Timed
<1>3. /\ base = 0 /\ count = Len(moved) /\ count \in Nat /\ n \in Int /\ n >= -1
      /\ Len(moved') = IF n > 0 THEN count + n ELSE count
      /\ peer'.link = peer.link
      /\ moved' \in Seq(Nat) /\ peer' \in [left : 0 .. Stream, link : {"open", "fin", "reset"}]
      /\ InOrder' /\ (peer.link = "reset" => peer.left = 0)'
  BY <1>1, WholeTurn
<1>4. CASE n > 0 /\ count + n < part
  <2>1. pc' = "io" /\ UNCHANGED result /\ count' = count + n
    BY <1>4 DEF StreamCalls!TimedTurn
  <2>2. count' = Len(moved') /\ count' \in Int /\ count' < part /\ retry' \in 1 .. 3
        /\ call.op # "read_until"
    BY <1>0, <1>1, <1>3, <1>4, <2>1
  <2> QED
    BY <1>1, <1>3, <2>1, <2>2, WholeGoesOn
<1>5. CASE ~(n > 0 /\ count + n < part)
  <2>1. pc' = "returned" /\ result' = (IF n > 0 THEN count + n ELSE n) /\ UNCHANGED count
    BY <1>5 DEF StreamCalls!TimedTurn, StreamCalls!Return
  <2>2. IF result' > 0 THEN result' = call'.len /\ Len(moved') = call'.len ELSE Len(moved') < call'.len
    BY SMTT(30), <1>0, <1>1, <1>2, <1>3, <1>5, <2>1
  <2>3. Told'
    BY <1>1, <2>2 DEF Told, StreamCalls!Plain, StreamCalls!Sliced
  <2>4. count' \in Int /\ result' \in Int /\ retry' \in 0 .. 3 /\ leavings' \in Int /\ late' \in BOOLEAN
    BY <1>0, <1>1, <1>3, <2>1
  <2> QED
    BY <1>1, <1>3, <2>1, <2>3, <2>4, Returns
<1> QED
  BY <1>4, <1>5

LEMMA ReadTold ==
    ASSUME call'.op = "read_until",
           (result' = 1) <=> (Len(moved') \in call'.delims),
           result' = 0 => StreamCalls!Over' \/ ~StreamCalls!Blocking'
    PROVE  Told'
<1>1. /\ call'.op \notin StreamCalls!Plain /\ call'.op \notin StreamCalls!Timed
      /\ call'.op \notin StreamCalls!Sliced
  BY DEF StreamCalls!Plain, StreamCalls!Timed, StreamCalls!Sliced
<1> QED
  BY <1>1 DEF Told

\* A try that is used up, in the loop or after a failed wait.
LEMMA RetryKeeps ==
    ASSUME StreamInv, pc \in {"io", "wait"}, call.op = "read_until", StreamCalls!Retry,
           late' \in BOOLEAN, UNCHANGED <<call, base, part, count, leavings, moved, peer>>,
           StreamCalls!Over' \/ ~StreamCalls!Blocking'
    PROVE  StreamInv'
<1>0. /\ retry \in 1 .. 3 /\ leavings \in Int /\ result \in Int /\ count \in Int
      /\ moved \in Seq(Nat) /\ peer \in [left : 0 .. Stream, link : {"open", "fin", "reset"}]
  BY DEF StreamInv, StreamCalls!StreamTypeOK, StreamCalls!Retries, Wanting
<1>1. retry' = retry - 1 /\ IF retry = 1 THEN pc' = "returned" /\ result' = 0 ELSE pc' = "io" /\ UNCHANGED result
  BY DEF StreamCalls!Retry, StreamCalls!Return
<1>2. InOrder' /\ (peer'.link = "reset" => peer'.left = 0)
  BY DEF StreamInv, InOrder, StreamCalls!InOrder, StreamCalls!Blocking
<1>3. Whole /\ Wanting
  BY DEF StreamInv
<1>4. CASE retry = 1
  <2>1. Told'
    <3>1. Len(moved) \notin call.delims
      BY <1>3 DEF Wanting
    <3>2. result' = 0 /\ Len(moved') \notin call'.delims /\ call'.op = "read_until"
      BY <1>1, <1>4, <3>1
    <3> QED
      BY <3>2, ReadTold
  <2> QED
    BY <1>0, <1>1, <1>2, <1>4, <2>1, Returns
<1>5. CASE retry # 1
  <2>1. StreamCalls!StreamTypeOK'
    BY <1>0, <1>1, <1>5 DEF StreamInv, StreamCalls!StreamTypeOK, StreamCalls!Steps, StreamCalls!Retries
  <2>2. Whole' /\ Slicing'
    BY <1>3 DEF Whole, Slicing, StreamCalls!Sliced
  <2>3. retry' > 0
    BY <1>0, <1>1, <1>5
  <2>4. Wanting'
    BY <1>1, <1>3, <1>5, <2>3 DEF Wanting, StreamCalls!Plain, StreamCalls!Timed
  <2> QED
    BY <1>1, <1>2, <1>5, <2>1, <2>2, <2>4 DEF StreamInv
<1> QED
  BY <1>4, <1>5

LEMMA ReadKeeps ==
    ASSUME StreamInv, pc = "io", NEW n, Answer(n), StreamCalls!ReadTurn(n)
    PROVE  StreamInv'
<1>0. StreamCalls!StreamTypeOK /\ retry \in 1 .. 3 /\ leavings \in Int /\ late \in BOOLEAN
  BY DEF StreamInv, StreamCalls!StreamTypeOK, StreamCalls!Retries, Wanting
<1>1. /\ call.op = "read_until" /\ StreamCalls!Move(n)
      /\ UNCHANGED <<call, base, part, leavings, late>>
      /\ call.op \notin StreamCalls!Sliced
  BY DEF StreamCalls!ReadTurn, StreamCalls!Sliced
<1>3. /\ base = 0 /\ count = Len(moved) /\ count \in Nat /\ n \in Int /\ n >= -1
      /\ Len(moved') = IF n > 0 THEN count + n ELSE count
      /\ peer'.link = peer.link
      /\ moved' \in Seq(Nat) /\ peer' \in [left : 0 .. Stream, link : {"open", "fin", "reset"}]
      /\ InOrder' /\ (peer.link = "reset" => peer.left = 0)'
  BY <1>1, WholeTurn
<1>4. CASE n > 0 /\ StreamCalls!EndsWithDelim(count + n)
  <2>1. pc' = "returned" /\ result' = 1 /\ count' = count + n /\ UNCHANGED retry
    BY <1>4 DEF StreamCalls!ReadTurn, StreamCalls!Return
  <2>2. Len(moved') \in call'.delims
    BY <1>1, <1>3, <1>4 DEF StreamCalls!EndsWithDelim
  <2>3. Told'
    BY <1>1, <2>1, <2>2, ReadTold
  <2>4. count' \in Int /\ result' \in Int /\ retry' \in 0 .. 3 /\ leavings' \in Int /\ late' \in BOOLEAN
    BY <1>0, <1>1, <1>3, <2>1
  <2> QED
    BY <1>1, <1>3, <2>1, <2>3, <2>4, Returns
<1>5. CASE n > 0 /\ ~StreamCalls!EndsWithDelim(count + n)
  <2>1. pc' = "io" /\ UNCHANGED <<retry, result>> /\ count' = count + n
    BY <1>5 DEF StreamCalls!ReadTurn
  <2>2. Len(moved') \notin call.delims
    BY <1>3, <1>5 DEF StreamCalls!EndsWithDelim
  <2>3. count' = Len(moved') /\ count' \in Int /\ retry' \in 1 .. 3
    BY <1>0, <1>3, <1>5, <2>1
  <2> QED
    BY <1>1, <1>3, <2>1, <2>2, <2>3, WholeGoesOn
<1>6. CASE ~(n > 0)
  <2>1. StreamCalls!Retry /\ UNCHANGED count
    BY <1>6 DEF StreamCalls!ReadTurn
  <2>2. UNCHANGED <<moved, peer>>
    BY <1>1, <1>6 DEF StreamCalls!Move
  <2>3. StreamCalls!Over' \/ ~StreamCalls!Blocking'
    BY <1>1, <1>3, <1>6, OverOrNonblocking
  <2> QED
    BY <1>0, <1>1, <2>1, <2>2, <2>3, RetryKeeps
<1> QED
  BY <1>4, <1>5, <1>6

\* The turn of a sliced call: while the connection is good, pointer and rest add
\* up to the whole buffer, and a slice is over only when all of it is moved.
LEMMA SlicedKeeps ==
    ASSUME StreamInv, pc = "io", NEW n, Answer(n), n > 0 => n <= part - count,
           StreamCalls!SlicedTurn(n)
    PROVE  StreamInv'
<1> DEFINE most == call.len + Drift
           rest == leavings - (count + n)
           l == StreamCalls!Clip(rest, most)
<1>0. StreamCalls!StreamTypeOK /\ retry \in 1 .. 3 /\ late \in BOOLEAN
  BY DEF StreamInv, StreamCalls!StreamTypeOK, StreamCalls!Retries, Wanting
<1>1. /\ call.op \in StreamCalls!Sliced /\ StreamCalls!Move(n) /\ UNCHANGED <<call, retry, late>>
      /\ call.op \notin StreamCalls!Plain /\ call.op \notin StreamCalls!Timed /\ call.op # "read_until"
  BY DEF StreamCalls!SlicedTurn, StreamCalls!Plain, StreamCalls!Timed, StreamCalls!Sliced
<1>2. /\ leavings > 0 /\ count \in 0 .. part - 1
      /\ part = (IF leavings > call.slice THEN call.slice ELSE leavings)
      /\ ~call.nonblocking =>
            peer.left = 0 \/ (base + count = Len(moved) /\ base + leavings = call.len)
  BY <1>1 DEF StreamInv, Slicing
<1>3. /\ call.len \in Nat \ {0} /\ call.slice \in Nat \ {0} /\ call.nonblocking \in BOOLEAN
      /\ base \in Nat /\ part \in Nat /\ leavings \in Int /\ Len(moved) \in Nat /\ peer.left \in Nat
      /\ count \in Nat /\ base + count \in Nat
  <2>1. /\ call.len \in Nat \ {0} /\ call.slice \in Nat \ {0} /\ call.nonblocking \in BOOLEAN
        /\ base \in Nat /\ part \in Nat /\ leavings \in Int /\ Len(moved) \in Nat /\ peer.left \in Nat
    BY <1>0, Arguments
  <2>2. count \in Nat /\ base + count \in Nat
    BY <1>2, <2>1
  <2> QED
    BY <2>1, <2>2
<1>4. n \in Int /\ n >= -1 /\ (n > 0 => peer.left > 0) /\ (n <= 0 /\ ~call.nonblocking => peer.left = 0)
  BY <1>3 DEF Answer
<1>5. /\ moved' \in Seq(Nat) /\ Len(moved') = (IF n > 0 THEN Len(moved) + n ELSE Len(moved))
      /\ peer' \in [left : 0 .. Stream, link : {"open", "fin", "reset"}]
      /\ peer'.link = peer.link
      /\ peer'.left = (IF n > 0 THEN peer.left - n ELSE peer.left)
      /\ base + count = Len(moved) /\ moved = [i \in 1 .. Len(moved) |-> i]
            => moved' = [i \in 1 .. Len(moved') |-> i]
      /\ n <= 0 => moved' = moved
  BY <1>1, <1>3, Moves
<1>6. ASSUME n > 0, ~call.nonblocking
       PROVE  /\ base + count = Len(moved) /\ base + leavings = call.len
              /\ Len(moved') = base + count + n
  <2>1. peer.left # 0
    BY <1>3, <1>4, <1>6
  <2>2. base + count = Len(moved) /\ base + leavings = call.len
    BY <1>2, <1>6, <2>1
  <2>3. Len(moved') = Len(moved) + n
    BY <1>5, <1>6
  <2> QED
    BY <2>2, <2>3
<1>7. InOrder'
  <2>1. CASE call.nonblocking
    BY <1>1, <2>1 DEF InOrder, StreamCalls!InOrder, StreamCalls!Blocking
  <2>2. CASE ~call.nonblocking
    <3>1. moved = [i \in 1 .. Len(moved) |-> i]
      BY <2>2 DEF StreamInv, InOrder, StreamCalls!InOrder, StreamCalls!Blocking
    <3>2. moved' = [i \in 1 .. Len(moved') |-> i]
      <4>1. CASE n > 0
        BY <1>5, <1>6, <2>2, <3>1, <4>1
      <4>2. CASE ~(n > 0)
        <5>1. moved' = moved
          BY <1>4, <1>5, <4>2
        <5> QED
          BY <3>1, <5>1
      <4> QED
        BY <4>1, <4>2
    <3> QED
      BY <3>2 DEF InOrder, StreamCalls!InOrder
  <2> QED
    BY <1>3, <2>1, <2>2
<1>8. peer'.link = "reset" => peer'.left = 0
  <2>1. peer.link = "reset" => peer.left = 0
    BY DEF StreamInv
  <2> QED
    BY <1>3, <1>4, <1>5, <2>1
<1>9. CASE StreamCalls!LoopsOn(n)
  <2>1. /\ count' = count + n /\ UNCHANGED <<pc, base, part, leavings, result>>
        /\ n > 0 /\ count + n < part
    BY <1>9 DEF StreamCalls!SlicedTurn, StreamCalls!LoopsOn
  <2>2. StreamCalls!StreamTypeOK'
    BY <1>0, <1>1, <1>3, <1>4, <1>5, <2>1 DEF StreamCalls!StreamTypeOK
  <2>3. Whole' /\ Wanting'
    BY <1>0, <1>1, <2>1 DEF Whole, Wanting, StreamInv
  <2>4. Slicing'
    <3>1. count' \in 0 .. part - 1
      BY <1>2, <1>3, <1>4, <2>1
    <3>2. ~call.nonblocking => base + count' = Len(moved') /\ base + leavings = call.len
      BY <1>3, <1>4, <1>6, <2>1
    <3> QED
      BY <1>1, <1>2, <2>1, <3>1, <3>2 DEF Slicing
  <2> QED
    BY <1>7, <1>8, <2>1, <2>2, <2>3, <2>4 DEF StreamInv
<1>10. CASE ~StreamCalls!LoopsOn(n)
  <2>1. /\ leavings' = l
        /\ base' = (IF leavings > call.slice THEN StreamCalls!Clip(base + call.slice, most) ELSE base)
        /\ count' = 0
        /\ part' = (IF l > call.slice THEN call.slice ELSE IF l > 0 THEN l ELSE 0)
        /\ IF l > 0 THEN UNCHANGED <<pc, result>> ELSE pc' = "returned" /\ result' = call.len - l
    BY <1>10 DEF StreamCalls!SlicedTurn, StreamCalls!Return
  <2>2. most \in Nat \ {0} /\ most >= call.len /\ rest \in Int
    BY <1>3, <1>4, StreamAssumption
  <2>3. l = (IF rest > most THEN most ELSE rest)
    BY DEF StreamCalls!Clip
  <2> HIDE DEF most, rest, l
  <2>4. l \in Int /\ (l <= 0 => l = rest /\ rest <= 0) /\ (rest <= 0 => l <= 0) /\ (rest <= call.len => l = rest)
    BY <1>3, <2>2, <2>3
  <2>5. base' \in Nat /\ part' \in Nat /\ leavings' \in Int
    <3>1. StreamCalls!Clip(base + call.slice, most) \in Nat
      BY <1>3, <2>2 DEF StreamCalls!Clip
    <3> QED
      BY <1>3, <2>1, <2>4, <3>1
  <2>6. ~(count + n < part /\ n > 0)
    BY <1>10 DEF StreamCalls!LoopsOn
  <2>7. rest = leavings - (count + n)
    BY DEF rest
  <2>8. n > 0 => count + n = part
    BY <1>3, <1>4, <2>6
  <2>9. n <= 0 => rest > 0
    BY <1>2, <1>3, <1>4, <2>7
  <2>10. CASE l > 0
    <3>1. StreamCalls!StreamTypeOK'
      BY <1>0, <1>1, <1>5, <2>1, <2>5, <2>10 DEF StreamCalls!StreamTypeOK
    <3>2. Whole' /\ Wanting'
      BY <1>0, <1>1, <2>1, <2>10 DEF Whole, Wanting, StreamInv
    <3>3. leavings' > 0 /\ count' \in 0 .. part' - 1
          /\ part' = (IF leavings' > call.slice THEN call.slice ELSE leavings')
      BY <1>3, <2>1, <2>4, <2>10
    <3>4. ASSUME ~call.nonblocking
          PROVE  peer'.left = 0 \/ (base' + count' = Len(moved') /\ base' + leavings' = call.len)
      <4>1. CASE n <= 0
        BY <1>4, <1>5, <3>4, <4>1
      <4>2. CASE ~(n <= 0)
        <5>1. /\ n > 0 /\ count + n = part /\ base + leavings = call.len
              /\ Len(moved') = base + count + n
          BY <1>4, <1>6, <2>8, <3>4, <4>2
        <5>2. leavings > call.slice /\ part = call.slice
          BY <1>2, <1>3, <1>4, <2>4, <2>7, <2>10, <5>1
        <5>3. l = leavings - call.slice
          <6>1. rest = leavings - call.slice
            BY <2>7, <5>1, <5>2
          <6>2. rest <= call.len
            BY <1>3, <5>1, <6>1
          <6> QED
            BY <2>4, <6>1, <6>2
        <5>4. StreamCalls!Clip(base + call.slice, most) = base + call.slice
          BY <1>3, <2>2, <5>1, <5>2 DEF StreamCalls!Clip
        <5>5. base' = base + call.slice /\ count' = 0 /\ leavings' = leavings - call.slice
          BY <2>1, <5>2, <5>3, <5>4
        <5>6. Len(moved') = base + call.slice
          BY <1>3, <1>4, <5>1, <5>2
        <5>7. base' + count' = Len(moved')
          BY <1>3, <5>5, <5>6
        <5>8. base' + leavings' = call.len
          <6>1. (base + call.slice) + (leavings - call.slice) = base + leavings
            BY <1>3
          <6> QED
            BY <5>1, <5>5, <6>1
        <5> QED
          BY <5>7, <5>8
      <4> QED
        BY <4>1, <4>2
    <3>5. Slicing'
      BY <1>1, <3>3, <3>4 DEF Slicing
    <3> QED
      BY <1>7, <1>8, <2>1, <2>10, <3>1, <3>2, <3>5 DEF StreamInv
  <2>11. CASE ~(l > 0)
    <3>1. pc' = "returned" /\ result' = call.len - l
      BY <2>1, <2>11
    <3>2. n > 0 /\ count + n = part /\ leavings = part /\ l = 0
      BY <1>2, <1>3, <1>4, <2>4, <2>7, <2>8, <2>9, <2>11
    <3>3. ~call.nonblocking => result' = call.len /\ Len(moved') = call.len
      BY <1>3, <1>4, <1>6, <3>1, <3>2
    <3>4. Told'
      BY <1>1, <3>3 DEF Told, StreamCalls!Blocking
    <3>5. StreamCalls!StreamTypeOK'
      BY <1>0, <1>1, <1>3, <1>5, <2>1, <2>4, <2>5, <3>1
      DEF StreamCalls!StreamTypeOK, StreamCalls!Steps
    <3> QED
      BY <1>7, <1>8, <3>1, <3>4, <3>5 DEF StreamInv
  <2> QED
    BY <2>10, <2>11
<1> QED
  BY <1>9, <1>10

\* A call goes to wait, or comes back from it, with what it had.
LEMMA WaitKeeps ==
    ASSUME StreamInv, pc \in {"io", "wait"}, call.op \in StreamCalls!Timed \cup {"read_until"},
           pc' \in {"io", "wait"}, pc' = "wait" => call.nonblocking, late' \in BOOLEAN,
           UNCHANGED <<call, base, part, count, leavings, retry, moved, peer, result>>
    PROVE  StreamInv'
<1>1. StreamCalls!StreamTypeOK'
  BY DEF StreamInv, StreamCalls!StreamTypeOK, StreamCalls!Steps
<1>2. Whole' /\ Wanting' /\ Slicing'
  BY DEF StreamInv, Whole, Wanting, Slicing
<1>3. InOrder' /\ (peer'.link = "reset" => peer'.left = 0)
  BY DEF StreamInv, InOrder, StreamCalls!InOrder, StreamCalls!Blocking
<1> QED
  BY <1>1, <1>2, <1>3 DEF StreamInv

LEMMA TurnKeeps == ASSUME StreamInv, StreamCalls!Turn PROVE StreamInv'
<1>0. pc = "io" /\ part \in Nat /\ late \in BOOLEAN
  BY DEF StreamCalls!Turn, StreamInv, StreamCalls!StreamTypeOK
<1>1. ASSUME NEW n \in StreamCalls!Given(part - count),
             StreamCalls!PlainTurn(n) \/ StreamCalls!SlicedTurn(n) \/ StreamCalls!TimedTurn(n)
      PROVE  StreamInv'
  <2>1. part - count \in Nat
    <3>1. call.op \in StreamCalls!Plain \cup StreamCalls!Timed \cup StreamCalls!Sliced
      BY <1>1 DEF StreamCalls!PlainTurn, StreamCalls!SlicedTurn, StreamCalls!TimedTurn
    <3>2. count < part
      <4>1. CASE call.op \in StreamCalls!Sliced
        BY <1>0, <4>1 DEF StreamInv, Slicing
      <4>2. CASE call.op \notin StreamCalls!Sliced
        BY <1>0, <3>1, <4>2 DEF StreamInv, Wanting
      <4> QED
        BY <4>1, <4>2
    <3>3. count \in Int
      BY DEF StreamInv, StreamCalls!StreamTypeOK
    <3> QED
      BY <1>0, <3>2, <3>3
  <2>2. Answer(n) /\ (n > 0 => n <= part - count)
    BY <1>1, <2>1, GivenAnswers
  <2> QED
    BY <1>0, <1>1, <2>2, PlainKeeps, SlicedKeeps, TimedKeeps
<1>2. ASSUME NEW n \in StreamCalls!Given(part), StreamCalls!ReadTurn(n) PROVE StreamInv'
  BY <1>0, <1>2, GivenAnswers, ReadKeeps
<1>3. ASSUME StreamCalls!WouldBlock, StreamCalls!PlainTurn(-1) \/ StreamCalls!SlicedTurn(-1)
      PROVE  StreamInv'
  <2>1. Answer(-1)
    BY <1>0, <1>3, GivenAnswers
  <2> QED
    BY <1>0, <1>3, <2>1, PlainKeeps, SlicedKeeps
<1>4. ASSUME StreamCalls!WouldBlock, StreamCalls!TimedBlocks \/ StreamCalls!ReadBlocks
      PROVE  StreamInv'
  BY <1>0, <1>4, WaitKeeps
  DEF StreamCalls!WouldBlock, StreamCalls!TimedBlocks, StreamCalls!ReadBlocks
<1> QED
  BY <1>1, <1>2, <1>3, <1>4 DEF StreamCalls!Turn

LEMMA SelectKeeps == ASSUME StreamInv, StreamCalls!Select PROVE StreamInv'
<1>0. pc = "wait" /\ late \in BOOLEAN /\ call.nonblocking
  BY DEF StreamCalls!Select, StreamInv, StreamCalls!StreamTypeOK, Wanting
<1>1. PICK rtn \in {-1, 0, 1} :
         late' = (late \/ rtn = 0) /\ (StreamCalls!TimedWaits(rtn) \/ StreamCalls!ReadWaits(rtn))
  BY DEF StreamCalls!Select
<1>2. late' \in BOOLEAN
  BY <1>0, <1>1
<1>3. CASE StreamCalls!TimedWaits(rtn) /\ rtn = -1
  <2>1. /\ call.op \in StreamCalls!Timed /\ pc' = "returned" /\ result' = -1
        /\ UNCHANGED <<call, base, part, count, leavings, retry, moved, peer>>
    BY <1>3 DEF StreamCalls!TimedWaits, StreamCalls!SelectEnds, StreamCalls!Return
  <2>2. StreamCalls!StreamTypeOK /\ Whole /\ Wanting
    BY <1>0 DEF StreamInv
  <2>3. call.op \notin StreamCalls!Sliced /\ call.op \notin StreamCalls!Plain /\ call.op # "read_until"
    BY <2>1 DEF StreamCalls!Sliced, StreamCalls!Plain, StreamCalls!Timed
  <2>4. Len(moved) < call.len
    BY <2>1, <2>2, <2>3 DEF Whole, Wanting
  <2>5. Told'
    BY <2>1, <2>3, <2>4 DEF Told
  <2>6. /\ count' \in Int /\ leavings' \in Int /\ retry' \in 0 .. 3 /\ moved' \in Seq(Nat)
        /\ peer' \in [left : 0 .. Stream, link : {"open", "fin", "reset"}] /\ result' \in Int
    BY <2>1, <2>2 DEF StreamCalls!StreamTypeOK, StreamCalls!Retries
  <2>7. InOrder' /\ (peer'.link = "reset" => peer'.left = 0)
    BY <2>1 DEF StreamInv, InOrder, StreamCalls!InOrder, StreamCalls!Blocking
  <2> QED
    BY <1>2, <2>1, <2>5, <2>6, <2>7, Returns
<1>4. CASE StreamCalls!ReadWaits(rtn) /\ rtn = -1
  <2>1. StreamCalls!Over' \/ ~StreamCalls!Blocking'
    BY <1>0, <1>4 DEF StreamCalls!ReadWaits, StreamCalls!Blocking
  <2> QED
    BY <1>0, <1>2, <1>4, <2>1, RetryKeeps DEF StreamCalls!ReadWaits, StreamCalls!SelectEnds
<1>5. CASE rtn # -1
  <2>1. /\ call.op \in StreamCalls!Timed \cup {"read_until"} /\ pc' = "io"
        /\ UNCHANGED <<call, base, part, count, leavings, retry, moved, peer, result>>
    BY <1>1, <1>5
    DEF StreamCalls!TimedWaits, StreamCalls!ReadWaits, StreamCalls!SelectEnds
  <2> QED
    BY <1>0, <1>2, <2>1, WaitKeeps
<1> QED
  BY <1>1, <1>3, <1>4, <1>5

LEMMA BeginKeeps ==
    ASSUME StreamInv, NEW c \in StreamCalls!Calls, StreamCalls!Begin(c) PROVE StreamInv'
<1>1. /\ pc = "idle" /\ call' = c /\ pc' = "io" /\ leavings' = c.len
      /\ UNCHANGED <<base, count, retry, moved, peer, late, result>>
      /\ part' = CASE c.op \in StreamCalls!Sliced -> IF c.len > c.slice THEN c.slice ELSE c.len
                   [] c.op = "read_until" -> StreamCalls!BufLen
                   [] OTHER -> c.len
  BY DEF StreamCalls!Begin
<1>2. base = 0 /\ count = 0 /\ moved = <<>> /\ retry = 3 /\ StreamCalls!StreamTypeOK
  BY <1>1 DEF StreamInv, StreamCalls!Retries
<1>3. /\ c.op \in StreamCalls!Ops /\ c.len \in Nat \ {0} /\ c.slice \in Nat \ {0}
      /\ c.delims \subseteq 1 .. Stream
  BY StreamAssumption DEF StreamCalls!Calls
<1>4. /\ c.op \in StreamCalls!Sliced =>
            part' = (IF c.len > c.slice THEN c.slice ELSE c.len) /\ c.op # "read_until"
      /\ c.op = "read_until" => part' = StreamCalls!BufLen
      /\ c.op \in StreamCalls!Plain \cup StreamCalls!Timed =>
            part' = c.len /\ c.op # "read_until" /\ c.op \notin StreamCalls!Sliced
  BY <1>1 DEF StreamCalls!Sliced, StreamCalls!Plain, StreamCalls!Timed
<1>5. c.op \in StreamCalls!Sliced \cup {"read_until"} \cup StreamCalls!Plain \cup StreamCalls!Timed
  BY <1>3 DEF StreamCalls!Ops
<1>6. part' \in Nat \ {0}
  BY <1>3, <1>4, <1>5 DEF StreamCalls!BufLen
<1>7. StreamCalls!StreamTypeOK'
  BY <1>1, <1>2, <1>3, <1>6 DEF StreamCalls!StreamTypeOK, StreamCalls!Steps
<1>8. Len(moved') = 0 /\ moved' = <<>>
  BY <1>1, <1>2
<1>9. Whole'
  BY <1>1, <1>2, <1>8 DEF Whole
<1>10. Wanting'
  BY <1>1, <1>2, <1>3, <1>4, <1>6, <1>8 DEF Wanting
<1>11. Slicing'
  BY <1>1, <1>2, <1>3, <1>4, <1>6, <1>8 DEF Slicing
<1>12. InOrder'
  BY <1>8 DEF InOrder, StreamCalls!InOrder
<1>13. peer'.link = "reset" => peer'.left = 0
  BY <1>1 DEF StreamInv
<1> QED
  BY <1>1, <1>7, <1>9, <1>10, <1>11, <1>12, <1>13 DEF StreamInv

LEMMA PeerEndsKeeps ==
    ASSUME StreamInv, NEW how \in {"fin", "reset"}, StreamCalls!PeerEnds(how) PROVE StreamInv'
<1>1. /\ UNCHANGED <<call, pc, base, part, count, leavings, retry, moved, late, result>>
      /\ peer.link # "reset" /\ how # peer.link
      /\ peer' = IF how = "reset" THEN [left |-> 0, link |-> how] ELSE [peer EXCEPT !.link = how]
  BY DEF StreamCalls!PeerEnds
<1>2. peer \in [left : 0 .. Stream, link : {"open", "fin", "reset"}]
  BY DEF StreamInv, StreamCalls!StreamTypeOK
<1>3. /\ peer' \in [left : 0 .. Stream, link : {"open", "fin", "reset"}]
      /\ peer'.link = how /\ peer'.left \in {0, peer.left} /\ (how = "reset" => peer'.left = 0)
  BY <1>1, <1>2, StreamAssumption
<1>4. StreamCalls!StreamTypeOK'
  BY <1>1, <1>3 DEF StreamInv, StreamCalls!StreamTypeOK
<1>5. Whole' <=> Whole
  BY <1>1 DEF Whole
<1>6. Wanting' <=> Wanting
  BY <1>1 DEF Wanting
<1>7. Slicing => Slicing'
  BY <1>1, <1>3 DEF Slicing
<1>8. InOrder'
  BY <1>1 DEF StreamInv, InOrder, StreamCalls!InOrder, StreamCalls!Blocking
<1>9. Told => Told'
  <2>1. StreamCalls!Over => StreamCalls!Over'
    BY <1>1, <1>3 DEF StreamCalls!Over, StreamCalls!Receives
  <2> QED
    BY <1>1, <2>1 DEF Told, StreamCalls!Blocking
<1> QED
  BY <1>1, <1>3, <1>4, <1>5, <1>6, <1>7, <1>8, <1>9 DEF StreamInv

LEMMA StreamInitial == LibInit => StreamInv
<1> SUFFICES ASSUME LibInit PROVE StreamInv
  OBVIOUS
<1>1. StreamCalls!StreamInit
  BY DEF LibInit
<1>2. StreamCalls!NoCall \in StreamCalls!Calls
  BY StreamAssumption
  DEF StreamCalls!NoCall, StreamCalls!Calls, StreamCalls!Ops, StreamCalls!Plain
<1>3. StreamCalls!StreamTypeOK
  <2>1. peer \in [left : 0 .. Stream, link : {"open", "fin", "reset"}]
    <3>1. Stream \in 0 .. Stream
      BY StreamAssumption
    <3> QED
      BY <1>1, <3>1 DEF StreamCalls!StreamInit
  <2>2. /\ call \in StreamCalls!Calls /\ pc = "idle" /\ base = 0 /\ part = 0 /\ count = 0
        /\ leavings = 0 /\ retry = 3 /\ moved = <<>> /\ late = FALSE /\ result = 0
    BY <1>1, <1>2 DEF StreamCalls!StreamInit, StreamCalls!Retries
  <2>3. moved \in Seq(Nat)
    BY <2>2
  <2>4. /\ base \in Nat /\ part \in Nat /\ count \in Int /\ leavings \in Int /\ result \in Int
        /\ retry \in 0 .. StreamCalls!Retries
    BY <2>2 DEF StreamCalls!Retries
  <2>5. pc \in StreamCalls!Steps /\ late \in BOOLEAN
    BY <2>2 DEF StreamCalls!Steps
  <2> QED
    BY <2>1, <2>2, <2>3, <2>4, <2>5, Zenon DEF StreamCalls!StreamTypeOK
<1>4. InOrder
  BY <1>1 DEF StreamCalls!StreamInit, InOrder, StreamCalls!InOrder
<1> QED
  BY <1>1, <1>3, <1>4 DEF StreamCalls!StreamInit, StreamInv

LEMMA StreamStep == StreamInv /\ [LibNext]_libVars => StreamInv'
<1> SUFFICES ASSUME StreamInv, [LibNext]_libVars PROVE StreamInv'
  OBVIOUS
<1>1. StreamCalls!StreamNext \/ UNCHANGED streamVars
  BY DEF LibNext, Still, libVars
<1>2. CASE UNCHANGED streamVars
  <2> USE <1>2 DEF streamVars
  <2>1. StreamCalls!StreamTypeOK'
    BY DEF StreamInv, StreamCalls!StreamTypeOK
  <2>2. (Whole' <=> Whole) /\ (Wanting' <=> Wanting) /\ (Slicing' <=> Slicing)
    BY DEF Whole, Wanting, Slicing
  <2>3. InOrder' /\ (Told' <=> Told)
    BY DEF StreamInv, InOrder, StreamCalls!InOrder, Told, StreamCalls!Over, StreamCalls!Receives,
       StreamCalls!Blocking
  <2> QED
    BY <2>1, <2>2, <2>3 DEF StreamInv
<1> QED
  BY <1>1, <1>2, TurnKeeps, SelectKeeps, BeginKeeps, PeerEndsKeeps
  DEF StreamCalls!StreamNext, StreamCalls!Step

\* However the system splits the stream, and for buffers and slices of any size,
\* every byte is put, or taken from, right behind the one before
\* (xxsocket.cpp:879-1101, common/xsocket.cpp:266-302).
THEOREM BytesInOrder == LibSpec => []InOrder
<1>1. StreamInv => InOrder
  BY DEF StreamInv
<1> QED
  BY <1>1, StreamInitial, StreamStep, PTL DEF LibSpec

\* What a call returns is what it moved, or the failure that kept it from moving
\* more; a sliced call on a blocking socket returns only with everything.
THEOREM AnswersAreCounts == LibSpec => []CountsWhatMoved
<1>1. ASSUME StreamInv, pc = "returned" PROVE CountsWhatMoved
  <2>1. Told
    BY <1>1 DEF StreamInv
  <2>2. CASE call.op \in StreamCalls!Plain
    BY <2>1, <2>2
    DEF Told, CountsWhatMoved, StreamCalls!CountsWhatMoved, StreamCalls!Plain, StreamCalls!Timed,
        StreamCalls!Sliced
  <2>3. CASE call.op \in StreamCalls!Timed
    BY <2>1, <2>3
    DEF Told, CountsWhatMoved, StreamCalls!CountsWhatMoved, StreamCalls!Plain, StreamCalls!Timed,
        StreamCalls!Sliced
  <2>4. CASE call.op \in StreamCalls!Sliced
    BY <2>1, <2>4
    DEF Told, CountsWhatMoved, StreamCalls!CountsWhatMoved, StreamCalls!Plain, StreamCalls!Timed,
        StreamCalls!Sliced
  <2>5. CASE call.op = "read_until"
    BY <2>1, <2>5
    DEF Told, CountsWhatMoved, StreamCalls!CountsWhatMoved, StreamCalls!Plain, StreamCalls!Timed,
        StreamCalls!Sliced
  <2>6. call.op \in StreamCalls!Ops
    BY <1>1 DEF StreamInv, StreamCalls!StreamTypeOK, StreamCalls!Calls
  <2> QED
    BY <2>2, <2>3, <2>4, <2>5, <2>6 DEF StreamCalls!Ops
<1>2. StreamInv => CountsWhatMoved
  BY <1>1 DEF CountsWhatMoved, StreamCalls!CountsWhatMoved
<1> QED
  BY <1>2, StreamInitial, StreamStep, PTL DEF LibSpec

-----------------------------------------------------------------------------
(* Types *)

CodecTypes == (subject = "framing" => CodecInv) /\ TypeOK

LEMMA CodecInitial == LibInit => CodecTypes
<1> SUFFICES ASSUME LibInit PROVE CodecTypes
  OBVIOUS
<1>1. CASE subject = "framing"
  <2>1. Init
    BY <1>1 DEF LibInit
  <2> QED
    BY <2>1, CodecStarts DEF CodecTypes, CodecInv
<1>2. CASE subject # "framing"
  <2>1. NoWord(4) \in Word(4) /\ NoWord(8) \in Word(8) /\ NoWord(HdrSize) \in Word(HdrSize)
    BY ByteAssumption DEF NoWord, Word
  <2>2. /\ namesize = NoWord(4) /\ datasize = NoWord(8) /\ buffer = NoWord(HdrSize)
        /\ decoded = [namesize |-> NoWord(4), datasize |-> NoWord(8)]
        /\ step = "encode namesize"
    BY <1>2 DEF LibInit
  <2>3. TypeOK
    BY <2>1, <2>2 DEF TypeOK, EncodeSteps
  <2> QED
    BY <1>2, <2>3 DEF CodecTypes
<1> QED
  BY <1>1, <1>2

LEMMA CodecStep == CodecTypes /\ [LibNext]_libVars => CodecTypes'
<1> SUFFICES ASSUME CodecTypes, [LibNext]_libVars PROVE CodecTypes'
  OBVIOUS
<1>1. UNCHANGED subject /\ ((subject = "framing" /\ Next) \/ UNCHANGED vars)
  BY DEF LibNext, Still, libVars
<1>2. ASSUME subject = "framing", CodecInv' PROVE CodecTypes'
  BY <1>2 DEF CodecTypes, CodecInv
<1>3. CASE subject = "framing" /\ Next
  <2>1. CodecInv'
    BY <1>3, CodecKeeps DEF CodecTypes
  <2> QED
    BY <1>2, <1>3, <2>1
<1>4. CASE UNCHANGED vars
  <2>1. TypeOK'
    BY <1>4 DEF vars, CodecTypes, TypeOK
  <2>2. CodecInv => CodecInv'
    BY <1>4, CodecKeeps
  <2> QED
    BY <1>1, <2>1, <2>2 DEF CodecTypes
<1> QED
  BY <1>1, <1>3, <1>4

LEMMA HandlesTyped == SocketsInv /\ HandleTypeOK /\ [LibNext]_libVars => HandleTypeOK'
<1> SUFFICES ASSUME SocketsInv, HandleTypeOK, [LibNext]_libVars PROVE HandleTypeOK'
  OBVIOUS
<1>1. SocketsInv' /\ UNCHANGED subject
  BY SocketsStep DEF LibNext, Still, libVars
<1>2. CASE UNCHANGED handleVars
  BY <1>2 DEF handleVars, HandleTypeOK, DescTypeOK
<1>3. CASE subject = "winsock"
  BY <1>1, <1>3 DEF SocketsInv, IInv
<1>4. CASE subject = "posix sockets"
  BY <1>1, <1>4 DEF SocketsInv, Posix!IInv, Posix!HandleTypeOK, Posix!DescTypeOK,
     Posix!SocketStates, HandleTypeOK, DescTypeOK, SocketStates
<1>5. CASE subject \in {"older winsock", "older posix sockets"} /\ UNCHANGED hand
  BY <1>1, <1>5 DEF SocketsInv, OlderInv, HandleTypeOK
<1> QED
  BY <1>2, <1>3, <1>4, <1>5 DEF LibNext, Still, libVars

\* Every part but the address conversion, which reads and writes texts of any
\* length, keeps its types, for any values of the constants.
THEOREM PartsTyped == LibSpec => []PartsTypeOK
<1> DEFINE All == /\ CodecTypes /\ SocketsInv /\ HandleTypeOK /\ StreamInv /\ SubjectLocks
                  /\ KernelInv /\ SubjectThreads /\ PointersInv
<1>1. LibInit => All
  <2>1. HandleInit => HandleTypeOK
    BY InitHolds DEF IInv
  <2> QED
    BY <2>1, CodecInitial, SocketsInitial, StreamInitial, LocksInitial, KernelInitial,
       ThreadsInitial, PointersInitial DEF LibInit
<1>2. All /\ [LibNext]_libVars => All'
  BY CodecStep, SocketsStep, HandlesTyped, StreamStep, SubjectLocksStep, KernelStep,
     SubjectThreadsStep, PointersStep
<1>3. All => PartsTypeOK
  <2>1. SubjectLocks => LocksOn(TRUE)!LocksTypeOK
    BY LocksTypes DEF SubjectLocks, LocksInv
  <2>2. SubjectThreads => ThreadsOn(TRUE)!ObjectTypeOK
    BY DEF SubjectThreads, ThreadsInv, ThreadsTyped, ThreadsOn!ObjectTypeOK
  <2> QED
    BY <2>1, <2>2 DEF CodecTypes, StreamInv, KernelInv, PointersInv, PartsTypeOK
<1> QED
  BY <1>1, <1>2, <1>3, PTL DEF LibSpec

=============================================================================
