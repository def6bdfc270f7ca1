---------------------------- MODULE HandleProofs ----------------------------
(***************************************************************************)
(* What SocketHandle keeps true of descriptors and their owners, for any   *)
(* number of objects and descriptors and on either system.                 *)
(***************************************************************************)
EXTENDS SocketHandle, TLAPS

\* The inductive invariant.  OneOwner is what all of it rests on: only because
\* a held descriptor has one holder does dropping, closing or passing it on
\* leave the other holders with theirs.
IInv ==
    /\ HandleTypeOK
    /\ OneOwner
    /\ OnlyConnectLoses
    /\ NonblockingByRequest
    /\ SuccessIsConnected

LEMMA InitHolds == HandleInit => IInv
  BY DescriptorAssumption DEF HandleInit, DescInit, IInv, HandleTypeOK, DescTypeOK, SocketStates,
     OneOwner, OnlyConnectLoses, NonblockingByRequest, SuccessIsConnected, IsOpen, Held

\* The descriptor c is held by an object or by the caller.
Has(c) == Held(c) \/ c \in hand

\* What a step leaves of the descriptors other than d; it closes at most e of them.
Elsewhere(d, e) ==
    /\ \A c \in Descs \ {d} :
          /\ os'[c] = IF c = e THEN "free" ELSE os[c]
          /\ mode'[c] = mode[c] \/ (~mode'[c] /\ Has(c)')
          /\ asked'[c] = asked[c]
          /\ c \in ok' <=> c \in ok
    /\ \A c \in Descs \ {d, e} : Has(c)' <=> Has(c)

\* What it must make of d itself.
Here(d) ==
    IF Has(d)'
      THEN /\ mode'[d] => asked'[d] \/ (Windows /\ os'[d] = "accepted")
           /\ d \in ok' => os'[d] = "connected"
      ELSE os'[d] # "free" => mode'[d] /\ d \notin ok'

LEMMA LocalStep ==
  ASSUME IInv, HandleTypeOK', OneOwner', NEW d, NEW e, Elsewhere(d, e), d \in Descs => Here(d)
  PROVE  IInv'
<1> USE DEF Elsewhere, Here
<1>1. \A c \in Descs \ {d} : c = e => ~Has(c)'
  BY DEF Has, OneOwner, IsOpen, Held
<1>2. OnlyConnectLoses'
  <2> SUFFICES ASSUME NEW c \in Descs, os'[c] # "free", ~Has(c)'
               PROVE  mode'[c] /\ c \notin ok'
    BY DEF OnlyConnectLoses, Has
  <2>1. CASE c = d
    BY <2>1
  <2>2. CASE c # d
    <3>1. c # e /\ os'[c] = os[c] /\ ~Has(c)
      BY <2>2
    <3>2. mode[c] /\ c \notin ok
      BY <3>1 DEF IInv, OnlyConnectLoses, Has
    <3> QED BY <2>2, <3>2
  <2> QED BY <2>1, <2>2
<1>3. NonblockingByRequest'
  <2> SUFFICES ASSUME NEW c \in Descs, Has(c)', mode'[c]
               PROVE  asked'[c] \/ (Windows /\ os'[c] = "accepted")
    BY DEF NonblockingByRequest, Has
  <2>1. CASE c = d
    BY <2>1
  <2>2. CASE c # d
    <3>1. c # e /\ os'[c] = os[c] /\ mode[c] /\ asked'[c] = asked[c] /\ Has(c)
      BY <2>2, <1>1
    <3> QED BY <3>1 DEF IInv, NonblockingByRequest, Has
  <2> QED BY <2>1, <2>2
<1>4. SuccessIsConnected'
  <2> SUFFICES ASSUME NEW c \in ok', Has(c)'
               PROVE  os'[c] = "connected"
    BY DEF SuccessIsConnected, Has
  <2>0. c \in Descs
    BY DEF HandleTypeOK, DescTypeOK
  <2>1. CASE c = d
    BY <2>0, <2>1
  <2>2. CASE c # d
    <3>1. c # e /\ os'[c] = os[c] /\ c \in ok /\ Has(c)
      BY <2>0, <2>2, <1>1
    <3> QED BY <3>1 DEF IInv, SuccessIsConnected, Has
  <2> QED BY <2>1, <2>2
<1> QED BY <1>2, <1>3, <1>4 DEF IInv

\* A step that concerns one descriptor d and closes at most one other, e.
LEMMA Local ==
  ASSUME IInv, HandleTypeOK', OneOwner', NEW d, NEW e,
         \A c \in Descs \ {d} :
            /\ os'[c] = IF c = e THEN "free" ELSE os[c]
            /\ mode'[c] = mode[c] \/ (~mode'[c] /\ Has(c)')
            /\ asked'[c] = asked[c]
            /\ c \in ok' <=> c \in ok,
         \A c \in Descs \ {d, e} : Has(c)' <=> Has(c),
         d \in Descs =>
            IF Has(d)'
              THEN /\ mode'[d] => asked'[d] \/ (Windows /\ os'[d] = "accepted")
                   /\ d \in ok' => os'[d] = "connected"
              ELSE os'[d] # "free" => mode'[d] /\ d \notin ok'
  PROVE  IInv'
<1>1. Elsewhere(d, e)
  BY DEF Elsewhere
<1>2. d \in Descs => Here(d)
  BY DEF Here
<1> QED BY <1>1, <1>2, LocalStep

\* The same for a step that closes nothing.
LEMMA LocalAlone ==
  ASSUME IInv, HandleTypeOK', OneOwner', NEW d,
         \A c \in Descs \ {d} :
            /\ os'[c] = os[c]
            /\ mode'[c] = mode[c] \/ (~mode'[c] /\ Has(c)')
            /\ asked'[c] = asked[c]
            /\ c \in ok' <=> c \in ok,
         \A c \in Descs \ {d} : Has(c)' <=> Has(c),
         d \in Descs =>
            IF Has(d)'
              THEN /\ mode'[d] => asked'[d] \/ (Windows /\ os'[d] = "accepted")
                   /\ d \in ok' => os'[d] = "connected"
              ELSE os'[d] # "free" => mode'[d] /\ d \notin ok'
  PROVE  IInv'
<1> DEFINE none == Bad
<1>1. none \notin Descs
  BY DescriptorAssumption
<1> HIDE DEF none
<1>2. \A c \in Descs \ {d} :
         /\ os'[c] = IF c = none THEN "free" ELSE os[c]
         /\ mode'[c] = mode[c] \/ (~mode'[c] /\ Has(c)')
         /\ asked'[c] = asked[c]
         /\ c \in ok' <=> c \in ok
  BY <1>1
<1>3. \A c \in Descs \ {d, none} : Has(c)' <=> Has(c)
  OBVIOUS
<1> QED BY Local, <1>2, <1>3

\* A step after which o holds d, a free descriptor or none, and what o held
\* before is closed: open, reopen, pserv, pconnect, close and the destructor.
LEMMA Renewal ==
  ASSUME IInv, NEW o \in Objs, NEW d \in Descs \cup {Bad, Gone},
         NEW st \in SocketStates \ {"free"},
         d \in Descs => Closed(os, fd[o])[d] = "free",
         os' = Given(Closed(os, fd[o]), d, st),
         SetFd(o, d), Reset(d, FALSE), UNCHANGED hand
  PROVE  IInv'
<1> DEFINE e == fd[o]
<1>1. HandleTypeOK'
  BY DescriptorAssumption DEF IInv, HandleTypeOK, DescTypeOK, SocketStates, SetFd, Reset, Given, Closed
<1>2. \A c \in Descs : os'[c] = IF c = d THEN st ELSE IF c = e THEN "free" ELSE os[c]
  BY DescriptorAssumption DEF IInv, HandleTypeOK, DescTypeOK, Given, Closed
<1>3. \A p \in Objs : fd'[p] = IF p = o THEN d ELSE fd[p]
  BY DEF IInv, HandleTypeOK, DescTypeOK, SetFd
<1>4. /\ \A c \in Descs : mode'[c] = IF c = d THEN FALSE ELSE mode[c]
      /\ \A c \in Descs : asked'[c] = IF c = d THEN FALSE ELSE asked[c]
      /\ ok' = ok \ {d}
  BY DEF IInv, HandleTypeOK, DescTypeOK, Reset
<1>5. d \in Descs => os[d] = "free" \/ d = e
  BY DEF IInv, HandleTypeOK, DescTypeOK, Closed
<1>6. d \in Descs => d \notin hand /\ \A p \in Objs \ {o} : fd[p] # d
  BY <1>5 DEF IInv, OneOwner, IsOpen
<1>7. e \in Descs => e \notin hand /\ \A p \in Objs \ {o} : fd[p] # e
  BY DEF IInv, OneOwner, IsOpen
<1>8. OneOwner'
  BY <1>1, <1>2, <1>3, <1>6, <1>7 DEF IInv, OneOwner, IsOpen, HandleTypeOK
<1>9. \A c \in Descs \ {d, e} : Held(c)' <=> Held(c)
  BY <1>3 DEF Held
<1>10. d \in Descs => Has(d)'
  BY <1>3 DEF Has, Held
<1>11. \A c \in Descs \ {d} :
         /\ os'[c] = IF c = e THEN "free" ELSE os[c]
         /\ mode'[c] = mode[c] \/ (~mode'[c] /\ Has(c)')
         /\ asked'[c] = asked[c]
         /\ c \in ok' <=> c \in ok
  BY <1>2, <1>4
<1>12. \A c \in Descs \ {d, e} : Has(c)' <=> Has(c)
  BY <1>9 DEF Has
<1>13. d \in Descs => ~mode'[d] /\ d \notin ok'
  BY <1>4
<1>14. d \in Descs =>
         IF Has(d)'
           THEN /\ mode'[d] => asked'[d] \/ (Windows /\ os'[d] = "accepted")
                /\ d \in ok' => os'[d] = "connected"
           ELSE os'[d] # "free" => mode'[d] /\ d \notin ok'
  BY <1>10, <1>13
<1> HIDE DEF e
<1> QED
  BY ZenonT(40), Local, <1>1, <1>8, <1>11, <1>12, <1>14

\* A step that only passes descriptors on: what was held still is.
LEMMA Passing ==
  ASSUME IInv, HandleTypeOK', OneOwner', UNCHANGED <<os, mode, asked, ok>>,
         \A c \in Descs : Has(c)' <=> Has(c)
  PROVE  IInv'
<1>1. \A c \in Descs \ {Bad} : os[c] = "free" => ~Has(c)
  BY DEF IInv, OneOwner, Has, Held, IsOpen
<1> QED
  BY Local, DescriptorAssumption

LEMMA Stutter == IInv /\ UNCHANGED handleVars => IInv'
  BY DEF handleVars, IInv, HandleTypeOK, DescTypeOK, OneOwner, OnlyConnectLoses,
     NonblockingByRequest, SuccessIsConnected, IsOpen, Held

-----------------------------------------------------------------------------
(* One lemma for the actions of a kind *)

LEMMA OpenKeeps ==
  ASSUME IInv, NEW o \in Objs, Open(o) PROVE IInv'
<1>1. CASE IsOpen(o)
  BY <1>1, Stutter DEF Open, handleVars
<1>2. CASE ~IsOpen(o)
  <2>1. PICK d \in Descs \cup {Bad} :
           MayGive(os, d) /\ os' = Given(os, d, "fresh") /\ SetFd(o, d) /\ Reset(d, FALSE)
    BY <1>2 DEF Open
  <2>2. Closed(os, fd[o]) = os
    BY <1>2 DEF Closed, IsOpen
  <2>3. d \in Descs => os[d] = "free"
    BY <2>1, DescriptorAssumption DEF MayGive
  <2>4. UNCHANGED hand
    BY DEF Open
  <2> QED BY <2>1, <2>2, <2>3, <2>4, Renewal DEF SocketStates
<1> QED BY <1>1, <1>2

LEMMA ReopenKeeps ==
  ASSUME IInv, NEW o \in Objs, Reopen(o) \/ Pserv(o) \/ Pconnect(o) PROVE IInv'
<1>1. PICK d \in Descs \cup {Bad}, st \in SocketStates \ {"free"} :
         /\ MayGive(Closed(os, fd[o]), d)
         /\ os' = Given(ReopenOs(o, d), d, st)
         /\ SetFd(o, d)
         /\ Reset(d, FALSE)
  <2>1. \A d : Given(ReopenOs(o, d), d, "fresh") = ReopenOs(o, d)
    BY DEF ReopenOs, Given, Closed, IInv, HandleTypeOK, DescTypeOK
  <2>2. CASE Reopen(o)
    BY <2>1, <2>2 DEF Reopen, SocketStates
  <2>3. CASE Pserv(o)
    BY <2>3 DEF Pserv, SocketStates
  <2>4. CASE Pconnect(o)
    BY <2>4 DEF Pconnect, ConnectStates, SocketStates
  <2> QED BY <2>2, <2>3, <2>4
<1>2. d \in Descs => Closed(os, fd[o])[d] = "free"
  BY <1>1, DescriptorAssumption DEF MayGive
<1>3. os' = Given(Closed(os, fd[o]), d, st)
  BY <1>1 DEF ReopenOs, Given, Closed, IInv, HandleTypeOK, DescTypeOK
<1>4. UNCHANGED hand
  BY DEF Reopen, Pserv, Pconnect
<1> QED BY <1>1, <1>2, <1>3, <1>4, Renewal

LEMMA CloseKeeps ==
  ASSUME IInv, NEW o \in Objs, Close(o) \/ Destroy(o) PROVE IInv'
<1>1. PICK d \in {Bad, Gone} : SetFd(o, d)
  BY DEF Close, Destroy
<1>2. d \notin Descs
  BY DescriptorAssumption
<1>3. os' = Given(Closed(os, fd[o]), d, "fresh") /\ Reset(d, FALSE) /\ UNCHANGED hand
  BY <1>2 DEF Close, Destroy, Given, Reset
<1> QED BY <1>1, <1>2, <1>3, Renewal DEF SocketStates

\* Constructors, assignments and release, which change fd and hand alone.
LEMMA PassingKeeps ==
  ASSUME IInv, NEW o \in Objs,
         \/ Construct(o) \/ Release(o)
         \/ \E p \in Objs : MoveConstruct(o, p) \/ MoveAssign(o, p)
         \/ \E d \in Descs : ConstructFrom(o, d) \/ AssignHandle(o, d)
  PROVE  IInv'
<1> USE DescriptorAssumption
<1>1. CASE Construct(o)
  BY <1>1, Passing DEF Construct, Alive, SetFd, Has, Held, IInv, HandleTypeOK, DescTypeOK, OneOwner, IsOpen
<1>2. CASE Release(o)
  BY <1>2, Passing DEF Release, SetFd, Has, Held, IInv, HandleTypeOK, DescTypeOK, OneOwner, IsOpen
<1>3. ASSUME NEW p \in Objs, MoveConstruct(o, p) PROVE IInv'
  BY <1>3, Passing DEF MoveConstruct, Alive, SetFd, Has, Held, IInv, HandleTypeOK, DescTypeOK, OneOwner, IsOpen
<1>4. ASSUME NEW p \in Objs, MoveAssign(o, p) PROVE IInv'
  BY <1>4, Passing DEF MoveAssign, Swapped, Alive, SetFd, Has, Held, IInv, HandleTypeOK, DescTypeOK, OneOwner, IsOpen
<1>5. ASSUME NEW d \in Descs, ConstructFrom(o, d) PROVE IInv'
  BY <1>5, Passing DEF ConstructFrom, Alive, SetFd, Has, Held, IInv, HandleTypeOK, DescTypeOK, OneOwner, IsOpen
<1>6. ASSUME NEW d \in Descs, AssignHandle(o, d) PROVE IInv'
  BY <1>6, Passing DEF AssignHandle, Alive, SetFd, Has, Held, IInv, HandleTypeOK, DescTypeOK, OneOwner, IsOpen
<1> QED BY <1>1, <1>2, <1>3, <1>4, <1>5, <1>6

\* What a step on one descriptor needs of the typing and of its owners.
LEMMA Frame ==
  ASSUME IInv
  PROVE  /\ os \in [Descs -> SocketStates] /\ mode \in [Descs -> BOOLEAN]
         /\ asked \in [Descs -> BOOLEAN] /\ ok \subseteq Descs /\ hand \subseteq Descs
         /\ fd \in [Objs -> Descs \cup {Bad, Gone}]
         /\ Bad \notin Descs /\ Gone \notin Descs /\ Windows \in BOOLEAN
         /\ \A c \in Descs : os[c] = "free" => ~Has(c)
  BY DescriptorAssumption DEF IInv, HandleTypeOK, DescTypeOK, OneOwner, Has, Held, IsOpen

LEMMA SetNonblockingKeeps ==
  ASSUME IInv, NEW o \in Objs, NEW b \in BOOLEAN, SetNonblocking(o, b) PROVE IInv'
<1>0. PICK d \in Descs : d = fd[o]
  BY DEF SetNonblocking, IsOpen
<1>1. d \in Descs /\ Has(d)' /\ Has(d)
  BY <1>0 DEF SetNonblocking, Has, Held
<1>2. UNCHANGED <<os, fd, ok, hand>>
  BY DEF SetNonblocking
<1>3. /\ \A c \in Descs : mode'[c] = IF c = d THEN b ELSE mode[c]
      /\ \A c \in Descs : asked'[c] = IF c = d THEN b ELSE asked[c]
  BY <1>0, Frame DEF SetNonblocking
<1>4. HandleTypeOK'
  BY <1>2, Frame DEF SetNonblocking, HandleTypeOK, DescTypeOK, IInv
<1>5. OneOwner'
  BY <1>2 DEF OneOwner, IsOpen, IInv
<1>6. \A c \in Descs : Has(c)' <=> Has(c)
  BY <1>2 DEF Has, Held
<1>7. \A c \in Descs \ {d} :
         /\ os'[c] = os[c]
         /\ mode'[c] = mode[c] \/ (~mode'[c] /\ Has(c)')
         /\ asked'[c] = asked[c]
         /\ c \in ok' <=> c \in ok
  BY <1>2, <1>3, Frame
<1>8. d \in ok' => os'[d] = "connected"
  BY <1>1, <1>2 DEF IInv, SuccessIsConnected, Has
<1>9. mode'[d] => asked'[d]
  BY <1>1, <1>3
<1>10. d \in Descs =>
         IF Has(d)'
           THEN /\ mode'[d] => asked'[d] \/ (Windows /\ os'[d] = "accepted")
                /\ d \in ok' => os'[d] = "connected"
           ELSE os'[d] # "free" => mode'[d] /\ d \notin ok'
  BY <1>1, <1>8, <1>9
<1>11. \A c \in Descs \ {d} : Has(c)' <=> Has(c)
  BY <1>6
<1> QED
  BY LocalAlone, <1>4, <1>5, <1>7, <1>10, <1>11

\* A step that moves one held, unfinished socket on in the system.
LEMMA Progress ==
  ASSUME IInv, NEW d \in Descs, NEW st \in SocketStates \ {"free"},
         os[d] # "free", os' = [os EXCEPT ![d] = st],
         os[d] = "connected" \/ (os[d] = "accepted" /\ Windows) => st = os[d],
         UNCHANGED <<mode, fd, asked, ok, hand>>
  PROVE  IInv'
<1>1. \A c \in Descs : os'[c] = IF c = d THEN st ELSE os[c]
  BY Frame
<1>2. HandleTypeOK'
  BY Frame DEF HandleTypeOK, DescTypeOK, IInv
<1>3. OneOwner'
  BY <1>1, Frame DEF OneOwner, IsOpen, IInv
<1>4. \A c : Has(c)' <=> Has(c)
  BY DEF Has, Held
<1>5. \A c \in Descs \ {d} :
         /\ os'[c] = os[c]
         /\ mode'[c] = mode[c] \/ (~mode'[c] /\ Has(c)')
         /\ asked'[c] = asked[c]
         /\ c \in ok' <=> c \in ok
  BY <1>1, Frame
<1>6. d \in Descs =>
         IF Has(d)'
           THEN /\ mode'[d] => asked'[d] \/ (Windows /\ os'[d] = "accepted")
                /\ d \in ok' => os'[d] = "connected"
           ELSE os'[d] # "free" => mode'[d] /\ d \notin ok'
  BY <1>1, <1>4 DEF IInv, OnlyConnectLoses, NonblockingByRequest, SuccessIsConnected, Has
<1>7. \A c \in Descs \ {d} : Has(c)' <=> Has(c)
  BY <1>4
<1> QED
  BY LocalAlone, <1>2, <1>3, <1>5, <1>6, <1>7

LEMMA ConnectKeeps ==
  ASSUME IInv, NEW o \in Objs, Connect(o) PROVE IInv'
<1>1. fd[o] \in Descs /\ UNCHANGED <<mode, fd, asked, ok, hand>>
  BY DEF Connect, IsOpen
<1>2. os[fd[o]] # "free"
  BY <1>1 DEF IInv, OneOwner, IsOpen
<1>3. PICK st \in ConnectStates(os[fd[o]], mode[fd[o]]) : os' = [os EXCEPT ![fd[o]] = st]
  BY DEF Connect
<1>4. /\ st \in SocketStates \ {"free"}
      /\ os[fd[o]] # "fresh" => st = os[fd[o]]
  BY <1>1, <1>2, <1>3, Frame DEF ConnectStates, SocketStates
<1> QED BY <1>1, <1>2, <1>3, <1>4, Progress

LEMMA ResolveKeeps ==
  ASSUME IInv, NEW d \in Descs, Resolve(d), UNCHANGED hand PROVE IInv'
<1>1. PICK st \in {"connected", "refused"} : os' = [os EXCEPT ![d] = st]
  BY DEF Resolve
<1> QED BY <1>1, Progress DEF Resolve, SocketStates

LEMMA CallerClosesKeeps ==
  ASSUME IInv, NEW d \in Descs, CallerCloses(d) PROVE IInv'
<1>1. d \in hand /\ hand' = hand \ {d} /\ UNCHANGED <<mode, fd, asked, ok>>
  BY DEF CallerCloses
<1>2. \A c \in Descs : os'[c] = IF c = d THEN "free" ELSE os[c]
  BY Frame DEF CallerCloses, Closed
<1>3. HandleTypeOK'
  BY <1>1, Frame DEF HandleTypeOK, DescTypeOK, IInv, CallerCloses, Closed, SocketStates
<1>4. OneOwner'
  BY <1>1, <1>2, Frame DEF OneOwner, IsOpen, IInv
<1>5. \A c \in Descs \ {d} :
         /\ os'[c] = IF c = d THEN "free" ELSE os[c]
         /\ mode'[c] = mode[c] \/ (~mode'[c] /\ Has(c)')
         /\ asked'[c] = asked[c]
         /\ c \in ok' <=> c \in ok
  BY <1>1, <1>2
<1>6. ~Has(d)' /\ os'[d] = "free"
  BY <1>1, <1>2 DEF Has, Held, IInv, OneOwner, IsOpen
<1>7. d \in Descs =>
         IF Has(d)'
           THEN /\ mode'[d] => asked'[d] \/ (Windows /\ os'[d] = "accepted")
                /\ d \in ok' => os'[d] = "connected"
           ELSE os'[d] # "free" => mode'[d] /\ d \notin ok'
  BY <1>6
<1>8. \A c \in Descs \ {d, d} : Has(c)' <=> Has(c)
  BY <1>1 DEF Has, Held
<1> QED
  BY Local, <1>3, <1>4, <1>5, <1>7, <1>8

\* An attempt on the socket d, held afterwards exactly if it succeeded, by a
\* step that closes e; k and m are the tables the attempt starts from.
LEMMA Attempt ==
  ASSUME IInv, HandleTypeOK', OneOwner', NEW d \in Descs, NEW e,
         NEW k \in [Descs -> SocketStates], NEW m \in [Descs -> BOOLEAN],
         NEW v \in Verdicts(k[d]), MadeNonblocking(k, m, d, v),
         \A c \in Descs \ {d} : k[c] = (IF c = e THEN "free" ELSE os[c]) /\ m[c] = mode[c],
         \A c \in Descs \ {d} : asked'[c] = asked[c],
         ~Windows /\ m[d] => asked'[d],
         Has(d)' <=> Succeeds(v),
         \A c \in Descs \ {d, e} : Has(c)' <=> Has(c)
  PROVE  IInv'
<1>1. Elsewhere(d, e)
  BY DEF MadeNonblocking, Closed, Elsewhere
<1>2. CASE Succeeds(v)
  <2>1. /\ ~Closes(v)
        /\ ToldOf(v) => v \in {"at once", "ready"}
    BY <1>2 DEF Succeeds, ToldOf, Closes
  <2>2. mode'[d] => asked'[d]
    BY <1>2 DEF MadeNonblocking
  <2>3. d \in ok' => os'[d] = "connected"
    BY <2>1 DEF MadeNonblocking, Outcome
  <2>4. Here(d)
    BY <1>2, <2>2, <2>3 DEF Here
  <2> QED
    BY <1>1, <2>4, LocalStep
<1>3. CASE ~Succeeds(v)
  <2>1. mode'[d] /\ d \notin ok'
    BY <1>3 DEF MadeNonblocking, ToldOf
  <2>2. Here(d)
    BY <1>3, <2>1 DEF Here
  <2> QED
    BY <1>1, <2>2, LocalStep
<1> QED BY <1>2, <1>3

\* What an attempt makes of the tables, typed.
LEMMA AttemptTables ==
  ASSUME NEW d \in Descs, NEW k \in [Descs -> SocketStates], NEW m \in [Descs -> BOOLEAN],
         NEW v \in Verdicts(k[d]), MadeNonblocking(k, m, d, v), IInv, k[d] # "free"
  PROVE  /\ os' \in [Descs -> SocketStates] /\ mode' \in [Descs -> BOOLEAN] /\ ok' \subseteq Descs
         /\ \A c \in Descs \ {d} : os'[c] = k[c]
         /\ Succeeds(v) => os'[d] # "free"
<1>1. v \in {"fails", "at once", "timeout", "ready", "error", "select fails", "unread"}
  BY DEF Verdicts
<1>2. Outcome(k[d], v) \in SocketStates \ {"free"}
  BY <1>1 DEF Outcome, SocketStates
<1>3. CASE Closes(v)
  BY <1>3, Frame DEF MadeNonblocking, Closed, Closes, Succeeds, SocketStates
<1>4. CASE ~Closes(v)
  <2>1. os' = [k EXCEPT ![d] = Outcome(k[d], v)]
    BY <1>4 DEF MadeNonblocking
  <2>2. mode' \in [Descs -> BOOLEAN] /\ ok' \subseteq Descs
    BY Frame DEF MadeNonblocking
  <2> QED BY <1>2, <2>1, <2>2
<1> QED BY <1>3, <1>4

LEMMA ConnectNKeeps ==
  ASSUME IInv, NEW o \in Objs, ConnectN(o) PROVE IInv'
<1> DEFINE none == Bad
<1>1. PICK d \in Descs : d = fd[o]
  BY DEF ConnectN, IsOpen
<1>2. PICK v \in Verdicts(os[d]) :
         /\ MadeNonblocking(os, mode, d, v)
         /\ IF Succeeds(v) THEN UNCHANGED fd ELSE SetFd(o, Bad)
  BY <1>1 DEF ConnectN
<1>3. UNCHANGED <<asked, hand>>
  BY DEF ConnectN
<1>4. os[d] # "free" /\ d \notin hand /\ \A p \in Objs \ {o} : fd[p] # d
  BY <1>1 DEF IInv, OneOwner, IsOpen
<1>5. /\ os' \in [Descs -> SocketStates] /\ mode' \in [Descs -> BOOLEAN] /\ ok' \subseteq Descs
      /\ \A c \in Descs \ {d} : os'[c] = os[c]
      /\ Succeeds(v) => os'[d] # "free"
  BY <1>2, <1>4, Frame, AttemptTables
<1>6. /\ fd' \in [Objs -> Descs \cup {Bad, Gone}]
      /\ \A p \in Objs : fd'[p] = IF p = o /\ ~Succeeds(v) THEN Bad ELSE fd[p]
  BY <1>2, Frame DEF SetFd
<1>7. HandleTypeOK'
  BY <1>3, <1>5, <1>6, Frame DEF HandleTypeOK, DescTypeOK
<1>8. OneOwner'
  BY <1>1, <1>3, <1>4, <1>5, <1>6, Frame DEF OneOwner, IsOpen, IInv
<1>9. Has(d)' <=> Succeeds(v)
  BY <1>1, <1>3, <1>4, <1>6, Frame DEF Has, Held
<1> HIDE DEF none
<1>10. \A c \in Descs \ {d, none} : Has(c)' <=> Has(c)
  BY <1>1, <1>3, <1>6, Frame DEF Has, Held
<1>11. ~Windows /\ mode[d] => asked'[d]
  BY <1>1, <1>3 DEF IInv, NonblockingByRequest, Held
<1>12. \A c \in Descs \ {d} : os[c] = (IF c = none THEN "free" ELSE os[c]) /\ mode[c] = mode[c]
  BY Frame DEF none
<1>13. \A c \in Descs \ {d} : asked'[c] = asked[c]
  BY <1>3
<1> QED
  BY <1>2, <1>7, <1>8, <1>9, <1>10, <1>11, <1>12, <1>13, Frame, Attempt

LEMMA ConnectHandleKeeps ==
  ASSUME IInv, NEW d \in Descs, ConnectHandle(d) PROVE IInv'
<1> DEFINE none == Bad
<1>1. d \in hand /\ UNCHANGED <<fd, asked>>
  BY DEF ConnectHandle
<1>2. PICK v \in Verdicts(os[d]) :
         /\ MadeNonblocking(os, mode, d, v)
         /\ hand' = IF Succeeds(v) THEN hand ELSE hand \ {d}
  BY DEF ConnectHandle
<1>4. os[d] # "free" /\ ~Held(d)
  BY <1>1 DEF IInv, OneOwner, IsOpen, Held
<1>5. /\ os' \in [Descs -> SocketStates] /\ mode' \in [Descs -> BOOLEAN] /\ ok' \subseteq Descs
      /\ \A c \in Descs \ {d} : os'[c] = os[c]
      /\ Succeeds(v) => os'[d] # "free"
  BY <1>2, <1>4, Frame, AttemptTables
<1>7. HandleTypeOK'
  BY <1>1, <1>2, <1>5, Frame DEF HandleTypeOK, DescTypeOK
<1>8. OneOwner'
  BY <1>1, <1>2, <1>4, <1>5, Frame DEF OneOwner, IsOpen, IInv, Held
<1>9. Has(d)' <=> Succeeds(v)
  BY <1>1, <1>2, <1>4 DEF Has, Held
<1> HIDE DEF none
<1>10. \A c \in Descs \ {d, none} : Has(c)' <=> Has(c)
  BY <1>1, <1>2 DEF Has, Held
<1>11. ~Windows /\ mode[d] => asked'[d]
  BY <1>1 DEF IInv, NonblockingByRequest
<1>12. \A c \in Descs \ {d} : os[c] = (IF c = none THEN "free" ELSE os[c]) /\ mode[c] = mode[c]
  BY Frame DEF none
<1>13. \A c \in Descs \ {d} : asked'[c] = asked[c]
  BY <1>1
<1> QED
  BY <1>2, <1>7, <1>8, <1>9, <1>10, <1>11, <1>12, <1>13, Frame, Attempt

LEMMA PconnectNKeeps ==
  ASSUME IInv, NEW o \in Objs, PconnectN(o) PROVE IInv'
<1>1. PICK d \in Descs, v \in Verdicts("fresh") :
         /\ MayGive(Closed(os, fd[o]), d)
         /\ MadeNonblocking(ReopenOs(o, d), Given(mode, d, FALSE), d, v)
         /\ SetFd(o, IF Succeeds(v) THEN d ELSE Bad)
         /\ asked' = [asked EXCEPT ![d] = FALSE]
  BY DEF PconnectN
<1>2. PICK e \in Descs \cup {Bad, Gone} : e = fd[o]
  BY Frame
<1> DEFINE k == ReopenOs(o, d)
           m == Given(mode, d, FALSE)
<1>3. UNCHANGED hand
  BY DEF PconnectN
<1>4. /\ k \in [Descs -> SocketStates] /\ k[d] = "fresh"
      /\ \A c \in Descs \ {d} : k[c] = IF c = e THEN "free" ELSE os[c]
  BY <1>2, Frame DEF ReopenOs, Given, Closed, SocketStates
<1>5. m \in [Descs -> BOOLEAN] /\ ~m[d] /\ \A c \in Descs \ {d} : m[c] = mode[c]
  BY Frame DEF Given
<1>6. MadeNonblocking(k, m, d, v)
  BY <1>1
<1> HIDE DEF k, m
<1>7. os[d] = "free" \/ d = e
  BY <1>1, <1>2, Frame DEF MayGive, Closed
<1>8. d \notin hand /\ \A p \in Objs \ {o} : fd[p] # d
  BY <1>2, <1>7 DEF IInv, OneOwner, IsOpen
<1>9. e \in Descs => e \notin hand /\ \A p \in Objs \ {o} : fd[p] # e
  BY <1>2 DEF IInv, OneOwner, IsOpen
<1>10. /\ os' \in [Descs -> SocketStates] /\ mode' \in [Descs -> BOOLEAN] /\ ok' \subseteq Descs
       /\ \A c \in Descs \ {d} : os'[c] = k[c]
       /\ Succeeds(v) => os'[d] # "free"
  BY <1>4, <1>5, <1>6, AttemptTables
<1>11. /\ fd' \in [Objs -> Descs \cup {Bad, Gone}]
       /\ \A p \in Objs : fd'[p] = IF p # o THEN fd[p] ELSE IF Succeeds(v) THEN d ELSE Bad
  BY <1>1, Frame DEF SetFd
<1>12. asked' \in [Descs -> BOOLEAN] /\ \A c \in Descs \ {d} : asked'[c] = asked[c]
  BY <1>1, Frame
<1>13. HandleTypeOK'
  BY <1>3, <1>10, <1>11, <1>12, Frame DEF HandleTypeOK, DescTypeOK
<1>14. OneOwner'
  BY <1>3, <1>4, <1>8, <1>9, <1>10, <1>11, Frame DEF OneOwner, IsOpen, IInv
<1>15. Has(d)' <=> Succeeds(v)
  BY <1>3, <1>8, <1>11, Frame DEF Has, Held
<1>16. \A c \in Descs \ {d, e} : Has(c)' <=> Has(c)
  BY <1>2, <1>3, <1>11, Frame DEF Has, Held
<1>17. v \in Verdicts(k[d])
  BY <1>4
<1>18. ~Windows /\ m[d] => asked'[d]
  BY <1>5
<1>19. \A c \in Descs \ {d} : k[c] = (IF c = e THEN "free" ELSE os[c]) /\ m[c] = mode[c]
  BY <1>4, <1>5
<1> QED
  BY <1>4, <1>5, <1>6, <1>12, <1>13, <1>14, <1>15, <1>16, <1>17, <1>18, <1>19, Attempt

\* accept_n makes the listening socket blocking again, whoever asked for what.
LEMMA ModeCleared ==
  ASSUME IInv, NEW m \in [Descs -> BOOLEAN], mode' = m, UNCHANGED <<os, fd, asked, ok, hand>>,
         \A c \in Descs : m[c] = mode[c] \/ (~m[c] /\ Has(c))
  PROVE  IInv'
<1>1. SuccessIsConnected' /\ OneOwner' /\ HandleTypeOK'
  BY DEF IInv, SuccessIsConnected, OneOwner, HandleTypeOK, DescTypeOK, Held, IsOpen
<1>2. NonblockingByRequest'
  BY DEF IInv, NonblockingByRequest, Held
<1>3. OnlyConnectLoses'
  BY DEF IInv, OnlyConnectLoses, Held, Has
<1> QED BY <1>1, <1>2, <1>3 DEF IInv

LEMMA TakeKeeps ==
  ASSUME IInv, NEW l \in Objs, NEW o \in Objs, IsOpen(l),
         NEW m \in [Descs -> BOOLEAN], \A c \in Descs \ {fd[l]} : m[c] = mode[c],
         m[fd[l]] => mode[fd[l]], NEW nb \in BOOLEAN, nb => Windows,
         ~IsOpen(o), TakeConnection(l, o, m, nb), UNCHANGED hand
  PROVE  IInv'
<1>1. PICK d \in Descs \cup {Bad} :
         /\ MayGive(os, d)
         /\ os' = Given(os, d, "accepted")
         /\ SetFd(o, d)
         /\ mode' = Given(m, d, nb)
         /\ asked' = Given(asked, d, Windows /\ asked[fd[l]])
         /\ ok' = ok \ {d}
  BY DEF TakeConnection
<1>2. o # l /\ fd[l] \in Descs /\ fd[o] \notin Descs
  BY DEF IsOpen
<1>3. d \in Descs => os[d] = "free" /\ ~Has(d)
  BY <1>1, Frame DEF MayGive
<1>4. \A c \in Descs : os'[c] = IF c = d THEN "accepted" ELSE os[c]
  BY <1>1, Frame DEF Given
<1>5. \A p \in Objs : fd'[p] = IF p = o THEN d ELSE fd[p]
  BY <1>1, Frame DEF SetFd
<1>6. /\ \A c \in Descs : mode'[c] = IF c = d THEN nb ELSE m[c]
      /\ \A c \in Descs \ {d} : asked'[c] = asked[c]
      /\ ok' = ok \ {d}
  BY <1>1, Frame DEF Given
<1>7. HandleTypeOK'
  <2>1. os' \in [Descs -> SocketStates] /\ mode' \in [Descs -> BOOLEAN]
    BY <1>1, Frame DEF Given, SocketStates
  <2>2. asked' \in [Descs -> BOOLEAN]
    BY <1>1, <1>2, Frame DEF Given
  <2>3. fd' \in [Objs -> Descs \cup {Bad, Gone}]
    BY <1>1, Frame DEF SetFd
  <2> QED BY <2>1, <2>2, <2>3, <1>6, Frame DEF HandleTypeOK, DescTypeOK
<1>8. OneOwner'
  BY <1>3, <1>4, <1>5, Frame DEF OneOwner, IsOpen, IInv, Has, Held
<1>9. \A c \in Descs \ {d} : Has(c)' <=> Has(c)
  BY <1>2, <1>5 DEF Has, Held
<1>10. Has(fd[l])
  BY DEF Has, Held
<1>11. \A c \in Descs \ {d} :
         /\ os'[c] = os[c]
         /\ mode'[c] = mode[c] \/ (~mode'[c] /\ Has(c)')
         /\ asked'[c] = asked[c]
         /\ c \in ok' <=> c \in ok
  <2> SUFFICES ASSUME NEW c \in Descs \ {d} PROVE mode'[c] = mode[c] \/ (~mode'[c] /\ Has(c)')
    BY <1>4, <1>6, Frame
  <2>1. CASE c = fd[l]
    BY <2>1, <1>6, <1>9, <1>10, Frame
  <2>2. CASE c # fd[l]
    BY <2>2, <1>6
  <2> QED BY <2>1, <2>2
<1>12. d \in Descs => Has(d)' /\ os'[d] = "accepted" /\ (mode'[d] => Windows) /\ d \notin ok'
  BY <1>4, <1>5, <1>6 DEF Has, Held
<1>14. d \in Descs =>
         IF Has(d)'
           THEN /\ mode'[d] => asked'[d] \/ (Windows /\ os'[d] = "accepted")
                /\ d \in ok' => os'[d] = "connected"
           ELSE os'[d] # "free" => mode'[d] /\ d \notin ok'
  BY <1>12
<1> QED
  BY LocalAlone, <1>7, <1>8, <1>9, <1>11, <1>14

LEMMA AcceptKeeps ==
  ASSUME IInv, NEW l \in Objs, NEW o \in Objs, Accept(l, o) PROVE IInv'
<1>1. IsOpen(l) /\ UNCHANGED hand /\ TakeConnection(l, o, mode, Windows /\ mode[fd[l]])
  BY DEF Accept, Listening
<1>2. CASE IsOpen(o)
  BY <1>1, <1>2, Stutter DEF TakeConnection, handleVars
<1>3. CASE ~IsOpen(o)
  <2>1. PICK nb \in BOOLEAN : nb = (Windows /\ mode[fd[l]])
    OBVIOUS
  <2>2. TakeConnection(l, o, mode, nb)
    BY <1>1, <2>1
  <2>3. nb => Windows
    BY <2>1
  <2> QED BY <1>1, <1>3, <2>2, <2>3, Frame, TakeKeeps
<1> QED BY <1>2, <1>3

LEMMA AcceptNKeeps ==
  ASSUME IInv, NEW l \in Objs, NEW o \in Objs, AcceptN(l, o) PROVE IInv'
<1>1. PICK m \in [Descs -> BOOLEAN] :
         /\ m = [mode EXCEPT ![fd[l]] = FALSE]
         /\ \/ Windows /\ TakeConnection(l, o, m, TRUE)
            \/ mode' = m /\ UNCHANGED <<os, fd, asked, ok>>
  BY Frame DEF AcceptN
<1>2. IsOpen(l) /\ UNCHANGED hand
  BY DEF AcceptN, Listening
<1>3. /\ \A c \in Descs \ {fd[l]} : m[c] = mode[c]
      /\ ~m[fd[l]]
      /\ \A c \in Descs : m[c] = mode[c] \/ (~m[c] /\ Has(c))
  BY <1>1, <1>2, Frame DEF IsOpen, Has, Held
<1>4. CASE mode' = m /\ UNCHANGED <<os, fd, asked, ok>>
  BY <1>2, <1>3, <1>4, ModeCleared
<1>5. CASE Windows /\ TakeConnection(l, o, m, TRUE)
  <2>1. CASE IsOpen(o)
    BY <1>2, <1>3, <1>5, <2>1, ModeCleared DEF TakeConnection
  <2>2. CASE ~IsOpen(o)
    BY <1>2, <1>3, <1>5, <2>2, TakeKeeps
  <2> QED BY <2>1, <2>2
<1> QED BY <1>1, <1>4, <1>5

LEMMA NextKeeps == IInv /\ [HandleNext]_handleVars => IInv'
<1> SUFFICES ASSUME IInv, [HandleNext]_handleVars PROVE IInv'
  OBVIOUS
<1>1. ASSUME NEW o \in Objs, ObjectStep(o) PROVE IInv'
  <2>1. CASE Construct(o) \/ Release(o)
    BY <2>1, PassingKeeps
  <2>2. CASE Open(o)
    BY <2>2, OpenKeeps
  <2>3. CASE Reopen(o) \/ Pserv(o) \/ Pconnect(o)
    BY <2>3, ReopenKeeps
  <2>4. CASE Close(o) \/ Destroy(o)
    BY <2>4, CloseKeeps
  <2>5. ASSUME NEW b \in BOOLEAN, SetNonblocking(o, b) PROVE IInv'
    BY <2>5, SetNonblockingKeeps
  <2>6. CASE Connect(o)
    BY <2>6, ConnectKeeps
  <2>7. CASE ConnectN(o)
    BY <2>7, ConnectNKeeps
  <2>8. CASE PconnectN(o)
    BY <2>8, PconnectNKeeps
  <2>9. ASSUME NEW p \in Objs, MoveConstruct(o, p) \/ MoveAssign(o, p) PROVE IInv'
    BY <2>9, PassingKeeps
  <2>10. ASSUME NEW p \in Objs, Accept(p, o) PROVE IInv'
    BY <2>10, AcceptKeeps
  <2>11. ASSUME NEW p \in Objs, AcceptN(p, o) PROVE IInv'
    BY <2>11, AcceptNKeeps
  <2>12. ASSUME NEW d \in Descs, ConstructFrom(o, d) \/ AssignHandle(o, d) PROVE IInv'
    BY <2>12, PassingKeeps
  <2> QED
    BY <1>1, <2>1, <2>2, <2>3, <2>4, <2>5, <2>6, <2>7, <2>8, <2>9, <2>10, <2>11, <2>12
    DEF ObjectStep
<1>2. ASSUME NEW d \in Descs, HandleStep(d) PROVE IInv'
  BY <1>2, CallerClosesKeeps, ConnectHandleKeeps, ResolveKeeps DEF HandleStep
<1>3. CASE UNCHANGED handleVars
  BY <1>3, Stutter
<1> QED BY <1>1, <1>2, <1>3 DEF HandleNext

\* The strengthening holds in every state the class can reach.
THEOREM InductiveHolds == HandleSpec => []IInv
  BY InitHolds, NextKeeps, PTL DEF HandleSpec

\* Members and tables keep their types (xxsocket's fd, xxsocket.cpp:560-620).
THEOREM HandleTypes == HandleSpec => []HandleTypeOK
<1>1. IInv => HandleTypeOK
  BY DEF IInv
<1> QED BY <1>1, InductiveHolds, PTL

\* Through every constructor, assignment, open, accept, connect, release and
\* close, a descriptor somebody holds is open and has one owner, so that no
\* close hits a socket opened since under the same number (xxsocket.cpp:592).
THEOREM DescriptorsHaveOneOwner == HandleSpec => []OneOwner
<1>1. IInv => OneOwner
  BY DEF IInv
<1> QED BY <1>1, InductiveHolds, PTL

\* No operation but connect_n loses an open descriptor, and connect_n only where it
\* returns -1 without closing it, after ::connect failed at once, getsockopt failed
\* or neither set had it (xxsocket.cpp:815, 839, 859, 862): what is lost is in the
\* nonblocking mode this leaves behind and was never reported connected.
THEOREM NothingElseLoses == HandleSpec => []OnlyConnectLoses
<1>1. IInv => OnlyConnectLoses
  BY DEF IInv
<1> QED BY <1>1, InductiveHolds, PTL

\* Outside accept_n on Windows, a held socket is nonblocking only if its user
\* asked for it (xxsocket.cpp:757-768, 807-880).
THEOREM ModeIsAskedFor == HandleSpec => []NonblockingByRequest
<1>1. IInv => NonblockingByRequest
  BY DEF IInv
<1> QED BY <1>1, InductiveHolds, PTL

\* On either system a socket of which connect_n last reported a success on its
\* select's word, and which somebody still holds, is connected (xxsocket.cpp:850-876).
THEOREM ReportedIsConnected == HandleSpec => []SuccessIsConnected
<1>1. IInv => SuccessIsConnected
  BY DEF IInv
<1> QED BY <1>1, InductiveHolds, PTL

=============================================================================
