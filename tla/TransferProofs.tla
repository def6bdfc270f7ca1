--------------------------- MODULE TransferProofs ---------------------------
(***************************************************************************)
(* What holds of Transfer for every number of workers, sessions, sizes and *)
(* names and all faults: type correctness, mutual exclusion in accept(),   *)
(* one reader per connection; where each worker is in its client's byte    *)
(* stream at every step of run(), and what follows for the files the       *)
(* server opens and reports; why a client sees success and why a worker is *)
(* lost; what the files hold; and that with one worker the directory is    *)
(* what module Directory says.                                             *)
(***************************************************************************)
EXTENDS Transfer, TLAPS

(* Type correctness.  TypeOK is not inductive: a worker's locals make sense   *)
(* only at the steps where they have been set.                                *)

LocalsOK ==
    \A w \in Workers :
        /\ wpc[w] \in Serving => csock[w] \in Sessions
        /\ wpc[w] \in {"prompt", "remove", "overwrite", "data"} => name[w] \in Names

TypeInv == TypeOK /\ LocalsOK

\* Writing a chunk of a session's bytes leaves a sequence of bytes.
LEMMA WriteBytesType ==
    ASSUME NEW bytes \in Seq(Sessions \cup {Hole}), NEW off \in Int, NEW n \in Nat,
           NEW s \in Sessions
    PROVE  WriteBytes(bytes, off, n, s) \in Seq(Sessions \cup {Hole})
<1> DEFINE m == IF off + n > Len(bytes) THEN off + n ELSE Len(bytes)
<1>1. Len(bytes) \in Nat /\ \A i \in 1 .. Len(bytes) : bytes[i] \in Sessions \cup {Hole}
  OBVIOUS
<1>2. m \in Nat
  BY <1>1
<1>3. WriteBytes(bytes, off, n, s) \in [1 .. m -> Sessions \cup {Hole}]
  BY <1>1, <1>2 DEF WriteBytes
<1> QED
  BY <1>2, <1>3

LEMMA FilesTyped == Absent \in FileType /\ Foreign \in FileType
<1>1. <<>> \in Seq(Sessions \cup {Hole})
  OBVIOUS
<1> QED
  BY <1>1 DEF Absent, Foreign, FileType

LEMMA TypeInit == Init => TypeInv
<1> SUFFICES ASSUME Init PROVE TypeInv
  OBVIOUS
<1> USE SessionsAssumption, FrameAssumption, ServerAssumption DEF Init
<1>1. WireTypeOK
  BY DEF WireInit, WireTypeOK, LinkStates, SrvStates
<1>2. ServerTypeOK
  BY FilesTyped DEF ServerInit, ServerTypeOK, ServerStates, Steps
<1>3. ClientTypeOK
  BY DEF ClientInit, ClientTypeOK, ClientSteps
<1>4. LocalsOK
  BY DEF ServerInit, LocalsOK, Serving
<1> QED
  BY <1>1, <1>2, <1>3, <1>4 DEF TypeInv, TypeOK

LEMMA RecvTurnType ==
    ASSUME WireTypeOK, NEW s \in Sessions, NEW want \in Nat, NEW g \in Nat,
           NEW k \in 0 .. want, NEW r \in -2 .. want, RecvTurn(s, want, g, k, r)
    PROVE  /\ sent' \in [Sessions -> Nat]
           /\ rcvd' \in [Sessions -> Nat]
           /\ r \in Int /\ k \in Nat
           /\ r # Again => r <= want /\ r >= -1
<1>1. sent[s] \in Nat /\ rcvd[s] \in Nat
  BY DEF WireTypeOK
<1>2. CASE /\ k \in g + 1 .. want
           /\ rcvd' = [rcvd EXCEPT ![s] = @ + (k - g)]
           /\ r = (IF LoopsOn(k, want) THEN Again ELSE k)
           /\ UNCHANGED sent
  <2>1. rcvd[s] + (k - g) \in Nat
    BY <1>1, <1>2
  <2>2. r = Again \/ r = k
    BY <1>2
  <2> QED
    BY <1>2, <2>1, <2>2 DEF WireTypeOK, Again
<1>3. CASE k = g /\ r = k /\ UNCHANGED <<sent, rcvd>>
  BY <1>3 DEF WireTypeOK
<1>4. CASE k = g /\ r = k - 1 /\ sent' = [sent EXCEPT ![s] = rcvd[s]] /\ UNCHANGED rcvd
  BY <1>1, <1>4 DEF WireTypeOK
<1> QED
  BY <1>2, <1>3, <1>4 DEF RecvTurn

LEMMA TypeStep == TypeInv /\ [Next]_vars => TypeInv'
<1> SUFFICES ASSUME TypeInv, [Next]_vars PROVE TypeInv'
  OBVIOUS
<1> USE DEF TypeInv, TypeOK, WireTypeOK, ServerTypeOK, ClientTypeOK, LocalsOK,
            wireVars, serverVars, clientVars, locals, disk, Goto, ClientGoto
<1> DEFINE Typed ==
      /\ {"lock", "accept", "unlock", "header", "name", "access", "prompt", "remove",
          "overwrite", "open", "data", "ack", "shutdown", "check", "exited"} \subseteq Steps
      /\ {"listening", "failed", "exited", "killed"} \subseteq ServerStates
      /\ {"named", "sending", "waitack", "done", "failed"} \subseteq ClientSteps
      /\ {"open", "fin", "reset", "cut"} \subseteq LinkStates
      /\ {"none", "queued", "served", "closed", "leaked"} \subseteq SrvStates
<1>0. Typed
  BY DEF Steps, ServerStates, ClientSteps, LinkStates, SrvStates
<1>1. ASSUME Listen, UNCHANGED clientVars PROVE TypeInv'
  BY <1>0, <1>1 DEF Serving, Listen
<1>2. ASSUME ListenFails, UNCHANGED clientVars PROVE TypeInv'
  BY <1>0, <1>2 DEF Serving, ListenFails
<1>3. ASSUME JoinAll, UNCHANGED clientVars PROVE TypeInv'
  BY <1>0, <1>3 DEF Serving, JoinAll, CloseServerEnds
<1>4. ASSUME Break, UNCHANGED clientVars PROVE TypeInv'
  <2>1. CASE ~brk
    BY <1>0, <1>4, <2>1 DEF Serving, Break
  <2>2. CASE brk
    <3>1. /\ server' = "killed" /\ backlog' = <<>> /\ CloseServerEnds
          /\ UNCHANGED <<brk, mtx, wpc, locals, disk, sent, rcvd, link, ackd>>
      BY <1>4, <2>2 DEF Break
    <3> QED
      BY <1>0, <1>4, <3>1 DEF Serving, CloseServerEnds
  <2> QED
    BY <2>1, <2>2
<1>5. ASSUME NEW w \in Workers, Spawn(w), UNCHANGED clientVars PROVE TypeInv'
  BY <1>0, <1>5 DEF Serving, Spawn
<1>6. ASSUME NEW w \in Workers, Lock(w), UNCHANGED clientVars PROVE TypeInv'
  BY <1>0, <1>6 DEF Serving, Lock
<1>7. ASSUME NEW w \in Workers, Accept(w), UNCHANGED clientVars PROVE TypeInv'
  <2>1. Head(backlog) \in Sessions /\ Tail(backlog) \in Seq(Sessions)
    BY <1>7 DEF Accept
  <2> QED
    BY <1>0, <1>7, <2>1 DEF Accept, Serving
<1>8. ASSUME NEW w \in Workers, Unlock(w), UNCHANGED clientVars PROVE TypeInv'
  BY <1>0, <1>8 DEF Serving, Unlock
<1>9. ASSUME NEW w \in Workers, RecvHeader(w), UNCHANGED clientVars PROVE TypeInv'
  <2>1. csock[w] \in Sessions /\ got[w] \in Nat /\ HdrLen \in Nat
    BY <1>9, FrameAssumption DEF RecvHeader, Serving
  <2>2. PICK k \in 0 .. HdrLen, r \in -2 .. HdrLen : HeaderTurn(w, k, r)
    BY <1>9 DEF RecvHeader
  <2>3. sent' \in [Sessions -> Nat] /\ rcvd' \in [Sessions -> Nat] /\ k \in Nat
    BY <2>1, <2>2, RecvTurnType DEF HeaderTurn
  <2>4. CASE r = Again /\ got' = [got EXCEPT ![w] = k]
             /\ UNCHANGED <<wpc, csock, whole, left, srvEnd>>
    BY <1>0, <1>9, <2>3, <2>4 DEF RecvHeader
  <2>5. CASE /\ Goto(w, "check")
             /\ srvEnd' = [srvEnd EXCEPT ![csock[w]] = "leaked"]
             /\ csock' = [csock EXCEPT ![w] = NoSession]
             /\ UNCHANGED <<got, whole, left>>
    BY <1>0, <1>9, <2>1, <2>3, <2>5 DEF RecvHeader, Serving
  <2>6. CASE /\ Goto(w, "name")
             /\ got' = [got EXCEPT ![w] = 0]
             /\ whole' = [whole EXCEPT ![w] = (k = HdrLen)]
             /\ left' = [left EXCEPT ![w] = DataLen[csock[w]]]
             /\ UNCHANGED <<csock, srvEnd>>
    <3>1. DataLen[csock[w]] \in Nat
      BY <2>1, FrameAssumption
    <3> QED
      BY <1>0, <1>9, <2>1, <2>3, <2>6, <3>1 DEF RecvHeader, Serving
  <2> QED
    BY <2>4, <2>5, <2>6, <2>2 DEF HeaderTurn
<1>10. ASSUME NEW w \in Workers, RecvName(w), UNCHANGED clientVars PROVE TypeInv'
  <2>1. csock[w] \in Sessions /\ got[w] \in Nat /\ NameLen[csock[w]] \in Nat
    BY <1>10, FrameAssumption DEF RecvName, Serving
  <2>2. PICK k \in 0 .. NameLen[csock[w]], r \in -2 .. NameLen[csock[w]]  :
             NameTurn(w, k, r)
    BY <1>10 DEF RecvName
  <2>3. sent' \in [Sessions -> Nat] /\ rcvd' \in [Sessions -> Nat] /\ k \in Nat
    BY <2>1, <2>2, RecvTurnType DEF NameTurn
  <2>4. ShortName[csock[w]][k] \in Names \cup {NoName}
    BY <2>1, NameAssumption
  <2>5. CASE got' = [got EXCEPT ![w] = k] /\ UNCHANGED <<wpc, name>>
    BY <1>0, <1>10, <2>3, <2>5 DEF RecvName
  <2>6. CASE /\ Goto(w, "access")
             /\ got' = [got EXCEPT ![w] = 0]
             /\ name' = [name EXCEPT ![w] = ShortName[csock[w]][k]]
    BY <1>0, <1>10, <2>1, <2>3, <2>4, <2>6 DEF RecvName, Serving
  <2> QED
    BY <2>2, <2>5, <2>6 DEF NameTurn
<1>11. ASSUME NEW w \in Workers, Access(w), UNCHANGED clientVars PROVE TypeInv'
  <2>1. CASE name[w] \in Names /\ Goto(w, "prompt")
    BY <1>0, <1>11, <2>1 DEF Serving, Access
  <2>2. CASE Goto(w, "open")
    BY <1>0, <1>11, <2>2 DEF Serving, Access
  <2> QED
    BY <1>11, <2>1, <2>2 DEF Access
<1>12. ASSUME NEW w \in Workers, Prompt(w), UNCHANGED clientVars PROVE TypeInv'
  <2>1. CASE Goto(w, "remove") /\ UNCHANGED <<server, brk, mtx, locals, disk, wireVars>>
    BY <1>0, <1>12, <2>1 DEF Serving, Prompt
  <2>2. CASE Leave(w)
    BY <1>0, <1>12, <2>2 DEF Serving, Leave
  <2> QED
    BY <1>12, <2>1, <2>2 DEF Prompt
<1>13. ASSUME NEW w \in Workers, Remove(w), UNCHANGED clientVars PROVE TypeInv'
  <2>1. file' \in [Names -> FileType]
    BY <1>13, FilesTyped DEF Remove
  <2>2. csock[w] \in Sessions
    BY <1>13 DEF Remove, Serving
  <2> QED
    BY <1>0, <1>13, <2>1, <2>2 DEF Serving, Remove
<1>14. ASSUME NEW w \in Workers, Open(w), UNCHANGED clientVars PROVE TypeInv'
  <2>1. name[w] \in Names /\ csock[w] \in Sessions
    BY <1>14 DEF Open, Serving
  <2>2. <<>> \in Seq(Sessions \cup {Hole})
    OBVIOUS
  <2>3. file' \in [Names -> FileType]
    BY <1>0, <1>14, <2>1, <2>2 DEF Open, FileType
  <2> QED
    BY <1>0, <1>14, <2>1, <2>3 DEF Open
<1>15. ASSUME NEW w \in Workers, OpenFails(w), UNCHANGED clientVars PROVE TypeInv'
  BY <1>0, <1>15 DEF Serving, OpenFails, Leave
<1>16. ASSUME NEW w \in Workers, RecvData(w), UNCHANGED clientVars PROVE TypeInv'
  <2>1. /\ csock[w] \in Sessions /\ name[w] \in Names
        /\ got[w] \in Nat /\ left[w] \in Nat /\ DataLen[csock[w]] \in Nat
        /\ ChunkOf(left[w]) \in Nat /\ ChunkOf(left[w]) <= left[w]
    BY <1>16, FrameAssumption, ServerAssumption DEF RecvData, ChunkOf, Serving
  <2>2. PICK k \in 0 .. ChunkOf(left[w]), r \in -2 .. ChunkOf(left[w]) : DataTurn(w, k, r)
    BY <1>16 DEF RecvData
  <2>3. /\ sent' \in [Sessions -> Nat] /\ rcvd' \in [Sessions -> Nat]
        /\ k \in Nat /\ r \in Int
        /\ r # Again => r <= left[w] /\ r >= -1
    <3>1. RecvTurn(csock[w], ChunkOf(left[w]), got[w], k, r)
      BY <2>2 DEF DataTurn
    <3>2. /\ sent' \in [Sessions -> Nat] /\ rcvd' \in [Sessions -> Nat]
          /\ k \in Nat /\ r \in Int
          /\ r # Again => r <= ChunkOf(left[w]) /\ r >= -1
      BY <2>1, <3>1, RecvTurnType
    <3>3. left[w] \in Nat /\ ChunkOf(left[w]) \in Nat /\ ChunkOf(left[w]) <= left[w]
      BY <2>1
    <3> HIDE DEF TypeInv
    <3> QED
      BY <3>2, <3>3
  <2>4. r # Again => BytesLeft(csock[w], left[w], r) \in Nat
    BY <2>1, <2>3 DEF BytesLeft
  <2>5. left' \in [Workers -> Nat] /\ got' \in [Workers -> Nat]
    <3>1. CASE r = Again
      BY <2>2, <2>3, <3>1 DEF DataTurn
    <3>2. CASE r # Again
      <4>1. /\ got' = [got EXCEPT ![w] = 0]
            /\ left' = [left EXCEPT ![w] = BytesLeft(csock[w], @, r)]
        BY <2>2, <3>2 DEF DataTurn
      <4> QED
        BY <2>4, <3>2, <4>1
    <3> QED
      BY <3>1, <3>2
  <2>6. file' \in [Names -> FileType]
    <3>1. file[name[w]].bytes \in Seq(Sessions \cup {Hole})
      BY <2>1 DEF FileType
    <3>2. r > 0 => WriteBytes(file[name[w]].bytes, DataLen[csock[w]] - left[w], r, csock[w])
                      \in Seq(Sessions \cup {Hole})
      <4>1. DataLen[csock[w]] - left[w] \in Int /\ (r > 0 => r \in Nat)
        BY <2>1, <2>3
      <4> QED
        BY <2>1, <3>1, <4>1, WriteBytesType
    <3> DEFINE F == [file EXCEPT ![name[w]].bytes =
                       WriteBytes(@, DataLen[csock[w]] - left[w], r, csock[w])]
    <3>3. r > 0 => F \in [Names -> FileType]
      <4> DEFINE bytes == WriteBytes(file[name[w]].bytes, DataLen[csock[w]] - left[w], r,
                                     csock[w])
      <4>1. F = [file EXCEPT ![name[w]] = [@ EXCEPT !.bytes = bytes]]
        BY <2>1
      <4>2. r > 0 => [file[name[w]] EXCEPT !.bytes = bytes] \in FileType
        <5>1. file[name[w]] \in FileType
          BY <2>1
        <5>2. r > 0 => bytes \in Seq(Sessions \cup {Hole})
          BY <3>2
        <5> HIDE DEF bytes
        <5> QED
          BY <5>1, <5>2 DEF FileType
      <4> HIDE DEF bytes, F
      <4> QED
        BY <2>1, <4>1, <4>2
    <3>4. file' = file \/ (r > 0 /\ file' = F)
      BY <2>2 DEF DataTurn
    <3> QED
      BY <3>3, <3>4
  <2> QED
    BY <1>0, <1>16, <2>3, <2>5, <2>6 DEF RecvData
<1>17. ASSUME NEW w \in Workers, SaveComplete(w), UNCHANGED clientVars PROVE TypeInv'
  BY <1>0, <1>17 DEF Serving, SaveComplete
<1>18. ASSUME NEW w \in Workers, SendAck(w), UNCHANGED clientVars PROVE TypeInv'
  <2>1. ackd' \in [Sessions -> Nat]
    BY <1>18 DEF SendAck, SendBytes
  <2> QED
    BY <1>0, <1>18, <2>1 DEF Serving, SendAck
<1>19. ASSUME NEW w \in Workers, Shutdown(w), UNCHANGED clientVars PROVE TypeInv'
  BY <1>0, <1>19 DEF Serving, Shutdown
<1>20. ASSUME NEW w \in Workers, LoopCheck(w), UNCHANGED clientVars PROVE TypeInv'
  BY <1>0, <1>20 DEF Serving, LoopCheck
<1>21. ASSUME NEW s \in Sessions, Connect(s) PROVE TypeInv'
  <2>1. CASE server = "listening"
    <3>1. /\ ClientGoto(s, "named")
          /\ link' = [link EXCEPT ![s] = "open"]
          /\ srvEnd' = [srvEnd EXCEPT ![s] = "queued"]
          /\ backlog' = Append(backlog, s)
          /\ UNCHANGED <<readable, sent, rcvd, ackd, serverVars>>
      BY <1>21, <2>1 DEF Connect
    <3>2. backlog' \in Seq(Sessions)
      BY <3>1
    <3> QED
      BY <1>0, <3>1, <3>2
  <2>2. CASE server # "listening"
    BY <1>0, <1>21, <2>2 DEF Connect
  <2> QED
    BY <2>1, <2>2
<1>22. ASSUME NEW s \in Sessions, OpenFile(s) PROVE TypeInv'
  BY <1>0, <1>22 DEF Serving, OpenFile
<1>23. ASSUME NEW s \in Sessions, OpenFileFails(s) PROVE TypeInv'
  BY <1>0, <1>23 DEF Serving, OpenFileFails, Hangup
<1>24. ASSUME NEW s \in Sessions, Send(s) PROVE TypeInv'
  <2>1. PICK n \in 1 .. SendLimit(s) - sent[s] : sent' = [sent EXCEPT ![s] = @ + n]
    BY <1>24 DEF Send
  <2>2. sent' \in [Sessions -> Nat]
    BY <2>1
  <2> QED
    BY <1>24, <2>2 DEF Send
<1>25. ASSUME NEW s \in Sessions, SendOver(s) PROVE TypeInv'
  BY <1>0, <1>25 DEF Serving, SendOver
<1>26. ASSUME NEW s \in Sessions, RecvAck(s) PROVE TypeInv'
  BY <1>0, <1>26 DEF Serving, RecvAck
<1>27. ASSUME NEW s \in Sessions, Quit(s) PROVE TypeInv'
  BY <1>0, <1>27 DEF Serving, Quit, Hangup
<1>28. ASSUME NEW s \in Sessions, Disconnect(s) PROVE TypeInv'
  <2>1. link' \in [Sessions -> LinkStates]
    BY <1>0, <1>28 DEF Disconnect
  <2>2. cpc' \in [Sessions -> ClientSteps]
    BY <1>0, <1>28 DEF Disconnect
  <2> QED
    BY <1>28, <2>1, <2>2 DEF Disconnect, Serving
<1>29. ASSUME NEW s \in Sessions, GiveUp(s) PROVE TypeInv'
  BY <1>0, <1>29 DEF Serving, GiveUp
<1>30. CASE UNCHANGED vars
  BY <1>30 DEF vars
<1> QED
  BY <1>1, <1>2, <1>3, <1>4, <1>5, <1>6, <1>7, <1>8, <1>9, <1>10, <1>11, <1>12, <1>13,
     <1>14, <1>15, <1>16, <1>17, <1>18, <1>19, <1>20, <1>21, <1>22, <1>23, <1>24, <1>25,
     <1>26, <1>27, <1>28, <1>29, <1>30
     DEF Next, ServerNext, Worker, WorkerStep, ClientNext, ClientStep, ClientProgram

\* The specification's variables always have their types.
THEOREM TypeCorrect == Spec => []TypeOK
<1>1. Init => TypeInv
  BY TypeInit
<1>2. TypeInv /\ [Next]_vars => TypeInv'
  BY TypeStep
<1>3. TypeInv => TypeOK
  BY DEF TypeInv
<1> QED
  BY <1>1, <1>2, <1>3, PTL DEF Spec

-----------------------------------------------------------------------------
(* The mutex around accept(). *)

LEMMA AcceptInit == Init => AcceptExclusion
BY ServerAssumption DEF Init, ServerInit, AcceptExclusion

LEMMA AcceptStep == TypeInv /\ AcceptExclusion /\ [Next]_vars => AcceptExclusion'
<1> SUFFICES ASSUME TypeInv, AcceptExclusion, [Next]_vars PROVE AcceptExclusion'
  OBVIOUS
<1>0. wpc \in [Workers -> Steps] /\ NoWorker \notin Workers
  BY ServerAssumption DEF TypeInv, TypeOK, ServerTypeOK
<1> USE DEF AcceptExclusion, Goto
<1>1. CASE UNCHANGED <<mtx, wpc>>
  BY <1>1
<1>2. ASSUME NEW w \in Workers, Lock(w) PROVE AcceptExclusion'
  BY <1>0, <1>2 DEF Lock
<1>3. ASSUME NEW w \in Workers, Accept(w) PROVE AcceptExclusion'
  BY <1>0, <1>3 DEF Accept
<1>4. ASSUME NEW w \in Workers, Unlock(w) PROVE AcceptExclusion'
  BY <1>0, <1>4 DEF Unlock
<1>5. ASSUME NEW w \in Workers, NEW step \in Steps \ {"accept", "unlock"},
             wpc[w] \notin {"accept", "unlock"}, Goto(w, step), UNCHANGED mtx
      PROVE  AcceptExclusion'
  BY <1>0, <1>5
<1>6. ASSUME NEW w \in Workers, Worker(w)
      PROVE  \/ UNCHANGED <<mtx, wpc>>
             \/ Lock(w) \/ Accept(w) \/ Unlock(w)
             \/ /\ wpc[w] \notin {"accept", "unlock"}
                /\ UNCHANGED mtx
                /\ \E step \in Steps \ {"accept", "unlock"} : Goto(w, step)
  BY <1>6 DEF Worker, WorkerStep, RecvHeader, HeaderTurn, RecvName, NameTurn, Access, Prompt,
     Leave, Remove, Open, OpenFails, RecvData, SaveComplete, SendAck, Shutdown, LoopCheck, Steps
<1>7. ASSUME NEW w \in Workers, Spawn(w) PROVE AcceptExclusion'
  BY <1>0, <1>7 DEF Spawn
<1>8. Listen \/ ListenFails \/ JoinAll \/ Break \/ ClientNext => UNCHANGED <<mtx, wpc>>
  BY DEF Listen, ListenFails, JoinAll, Break, ClientNext, ClientStep, ClientProgram, Connect,
     OpenFile, OpenFileFails, Send, SendOver, RecvAck, Quit, Disconnect, GiveUp, serverVars
<1>9. ASSUME NEW w \in Workers, Worker(w) PROVE AcceptExclusion'
  BY <1>1, <1>2, <1>3, <1>4, <1>5, <1>6, <1>9
<1> QED
  BY <1>1, <1>7, <1>8, <1>9 DEF Next, ServerNext, vars, serverVars

\* No two workers are in accept() at once, and the mutex is never left locked.
THEOREM MutualExclusion == Spec => []AcceptExclusion
<1>1. Init => TypeInv /\ AcceptExclusion
  BY TypeInit, AcceptInit
<1>2. TypeInv /\ AcceptExclusion /\ [Next]_vars => (TypeInv /\ AcceptExclusion)'
  BY TypeStep, AcceptStep
<1> QED
  BY <1>1, <1>2, PTL DEF Spec

-----------------------------------------------------------------------------
(* One reader per connection.  OneReader alone does not survive a connect:   *)
(* a session that has not connected yet must be nowhere at the server.       *)

IdleUnheld   == \A s \in Sessions : cpc[s] = "idle" => srvEnd[s] = "none"
UnbornBefore == server = "down" => \A w \in Workers : wpc[w] = "unborn"

ConnInv == OneReader /\ IdleUnheld /\ UnbornBefore

LEMMA ConnInit == Init => ConnInv
BY DEF Init, WireInit, ServerInit, ClientInit, ConnInv, OneReader, IdleUnheld, UnbornBefore,
   Serving

connVars == <<server, wpc, csock, srvEnd, backlog, cpc>>

\* What a step of a worker does to the connections.
LEMMA WorkerOnConnections ==
    ASSUME TypeInv, NEW w \in Workers, Worker(w)
    PROVE  \/ Accept(w)
           \/ /\ UNCHANGED <<csock, srvEnd, backlog>>
              /\ \E step \in Steps :
                    /\ Goto(w, step) \/ UNCHANGED wpc
                    /\ wpc[w] \in Serving <=> step \in Serving
                    /\ server = "listening"
           \/ /\ wpc[w] \in Serving
              /\ \E step \in {"check", "exited"}, e \in {"closed", "leaked"} :
                    /\ Goto(w, step)
                    /\ srvEnd' = [srvEnd EXCEPT ![csock[w]] = e]
              /\ csock' = csock \/ csock' = [csock EXCEPT ![w] = NoSession]
              /\ server = "listening"
              /\ UNCHANGED backlog
<1> USE DEF Steps, Serving, wireVars, locals
<1>0. wpc[w] \in Steps /\ server = "listening" /\ WorkerStep(w)
  BY DEF Worker, TypeInv, TypeOK, ServerTypeOK
<1>1. ASSUME Lock(w) \/ Unlock(w) \/ RecvName(w) \/ Access(w) \/ Remove(w) \/ Open(w)
             \/ RecvData(w) \/ SaveComplete(w) \/ SendAck(w) \/ LoopCheck(w)
      PROVE  /\ UNCHANGED <<csock, srvEnd, backlog>>
             /\ \E step \in Steps :
                   /\ Goto(w, step) \/ UNCHANGED wpc
                   /\ wpc[w] \in Serving <=> step \in Serving
  BY <1>0, <1>1 DEF Lock, Unlock, RecvName, NameTurn, Access, Remove, Open, RecvData, DataTurn,
     SaveComplete, SendAck, LoopCheck
<1>2. ASSUME Leave(w), wpc[w] \in Serving
      PROVE  /\ \E step \in {"check", "exited"}, e \in {"closed", "leaked"} :
                   /\ Goto(w, step)
                   /\ srvEnd' = [srvEnd EXCEPT ![csock[w]] = e]
             /\ UNCHANGED <<csock, backlog>>
  BY <1>2 DEF Leave
<1>3. CASE Prompt(w)
  BY <1>0, <1>2, <1>3 DEF Prompt
<1>4. CASE OpenFails(w)
  BY <1>0, <1>2, <1>4 DEF OpenFails
<1>5. CASE Shutdown(w)
  BY <1>0, <1>5 DEF Shutdown
<1>6. CASE RecvHeader(w)
  BY <1>0, <1>6 DEF RecvHeader, HeaderTurn
<1> QED
  BY <1>0, <1>1, <1>3, <1>4, <1>5, <1>6 DEF WorkerStep

LEMMA ConnStep == TypeInv /\ ConnInv /\ [Next]_vars => ConnInv'
<1> SUFFICES ASSUME TypeInv, ConnInv, [Next]_vars PROVE ConnInv'
  OBVIOUS
<1>0. /\ wpc \in [Workers -> Steps]
      /\ csock \in [Workers -> Sessions \cup {NoSession}]
      /\ srvEnd \in [Sessions -> SrvStates]
      /\ cpc \in [Sessions -> ClientSteps]
      /\ backlog \in Seq(Sessions)
      /\ \A w \in Workers : wpc[w] \in Serving => csock[w] \in Sessions
  BY DEF TypeInv, TypeOK, WireTypeOK, ServerTypeOK, ClientTypeOK, LocalsOK
<1> USE DEF ConnInv, OneReader, IdleUnheld, UnbornBefore, Goto, ClientGoto, connVars
<1>1. CASE UNCHANGED connVars
  BY <1>1
<1>2. ASSUME NEW w \in Workers, Accept(w), server = "listening", UNCHANGED clientVars
      PROVE  ConnInv'
  <2> DEFINE h == Head(backlog)
  <2>1. /\ Len(backlog) \in Nat /\ Len(backlog) > 0 /\ h = backlog[1] /\ h \in Sessions
        /\ backlog' = Tail(backlog) /\ Len(backlog') = Len(backlog) - 1
        /\ \A i \in 1 .. Len(backlog') : backlog'[i] = backlog[i + 1]
    BY <1>0, <1>2 DEF Accept
  <2>2. /\ srvEnd[h] = "queued"
        /\ \A v \in Workers : wpc[v] \in Serving => csock[v] # h
        /\ \A i \in 1 .. Len(backlog') : backlog'[i] # h /\ srvEnd[backlog'[i]] = "queued"
        /\ \A i, j \in 1 .. Len(backlog') : backlog'[i] = backlog'[j] => i = j
    BY <1>2, <2>1
  <2>3. /\ wpc' = [wpc EXCEPT ![w] = "unlock"]
        /\ csock' = [csock EXCEPT ![w] = h]
        /\ srvEnd' = [srvEnd EXCEPT ![h] = "served"]
        /\ UNCHANGED <<server, cpc>>
        /\ wpc[w] = "accept"
    BY <1>2 DEF Accept, clientVars
  <2>4. \A v \in Workers :
           wpc'[v] \in Serving => v = w \/ (wpc[v] \in Serving /\ csock'[v] = csock[v])
    BY <1>0, <2>3
  <2>5. csock'[w] = h /\ srvEnd'[h] = "served"
    BY <1>0, <2>1, <2>3
  <2>6. IdleUnheld' /\ UnbornBefore'
    BY <1>0, <1>2, <2>1, <2>2, <2>3
  <2>7. \A v \in Workers : wpc'[v] \in Serving => srvEnd'[csock'[v]] = "served"
    BY <1>0, <1>2, <2>1, <2>2, <2>3, <2>4, <2>5
  <2>8. \A u, v \in Workers :
           wpc'[u] \in Serving /\ wpc'[v] \in Serving /\ csock'[u] = csock'[v] => u = v
    BY <2>2, <2>4, <2>5
  <2>9. \A i \in 1 .. Len(backlog') : srvEnd'[backlog'[i]] = "queued"
    BY <1>0, <2>1, <2>2, <2>3
  <2> QED
    BY <2>2, <2>6, <2>7, <2>8, <2>9
<1>3. ASSUME NEW w \in Workers, UNCHANGED <<server, csock, srvEnd, backlog>>,
             server = "listening", UNCHANGED clientVars,
             NEW step \in Steps, Goto(w, step), wpc[w] \in Serving <=> step \in Serving
      PROVE  ConnInv'
  <2>1. \A v \in Workers : wpc'[v] \in Serving <=> wpc[v] \in Serving
    BY <1>0, <1>3
  <2> QED
    BY <1>3, <2>1 DEF clientVars
<1>4. ASSUME NEW w \in Workers, wpc[w] \in Serving, server = "listening",
             NEW step \in {"check", "exited"}, NEW e \in {"closed", "leaked"}, Goto(w, step),
             srvEnd' = [srvEnd EXCEPT ![csock[w]] = e],
             csock' = csock \/ csock' = [csock EXCEPT ![w] = NoSession],
             UNCHANGED <<server, backlog>>, UNCHANGED clientVars
      PROVE  ConnInv'
  <2>1. \A v \in Workers : wpc'[v] \in Serving =>
           v # w /\ wpc[v] \in Serving /\ csock'[v] = csock[v] /\ csock[v] # csock[w]
    BY <1>0, <1>4 DEF Serving
  <2>2. srvEnd[csock[w]] = "served"
    BY <1>4
  <2>3. /\ \A v \in Workers : wpc'[v] \in Serving => srvEnd'[csock'[v]] = "served"
        /\ \A i \in 1 .. Len(backlog) : srvEnd'[backlog[i]] = "queued"
        /\ \A s \in Sessions : cpc[s] = "idle" => srvEnd'[s] = "none"
    BY <1>0, <1>4, <2>1, <2>2
  <2> QED
    BY <1>4, <2>1, <2>3 DEF clientVars
<1>5. ASSUME NEW w \in Workers, Worker(w), UNCHANGED clientVars PROVE ConnInv'
  <2>1. UNCHANGED server
    BY <1>5 DEF Worker, WorkerStep, Lock, Accept, Unlock, RecvHeader, RecvName, Access, Prompt,
       Leave, Remove, Open, OpenFails, RecvData, SaveComplete, SendAck, Shutdown, LoopCheck
  <2>2. server = "listening"
    BY <1>5 DEF Worker
  <2> QED
    BY <1>1, <1>2, <1>3, <1>4, <1>5, <2>1, <2>2, WorkerOnConnections DEF clientVars
<1>6. ASSUME NEW w \in Workers, Spawn(w), UNCHANGED clientVars PROVE ConnInv'
  <2>1. /\ server = "listening" /\ wpc' = [wpc EXCEPT ![w] = "lock"] /\ wpc[w] = "unborn"
        /\ UNCHANGED <<server, csock, srvEnd, backlog, cpc>>
    BY <1>6 DEF Spawn, locals, wireVars, clientVars
  <2>2. \A v \in Workers : wpc'[v] \in Serving <=> wpc[v] \in Serving
    BY <1>0, <2>1 DEF Serving
  <2> QED
    BY <2>1, <2>2
<1>7. ASSUME Listen \/ ListenFails, UNCHANGED clientVars PROVE ConnInv'
  <2>1. /\ \A w \in Workers : wpc[w] \notin Serving
        /\ server' # "down"
        /\ UNCHANGED <<wpc, csock, srvEnd, backlog, cpc>>
    BY <1>7 DEF Listen, ListenFails, Serving, locals, wireVars, clientVars
  <2> QED
    BY <2>1
<1>8. ASSUME server' \in {"exited", "killed"}, backlog' = <<>>, CloseServerEnds,
             UNCHANGED <<wpc, csock, cpc>>
      PROVE  ConnInv'
  <2>1. \A s \in Sessions : srvEnd[s] = "none" => srvEnd'[s] = "none"
    BY <1>8 DEF CloseServerEnds
  <2> QED
    BY <1>8, <2>1
<1>9. ASSUME JoinAll \/ Break, UNCHANGED clientVars PROVE ConnInv'
  BY <1>1, <1>8, <1>9 DEF JoinAll, Break, locals, clientVars
<1>10. ASSUME NEW s \in Sessions, Connect(s) PROVE ConnInv'
  <2>1. UNCHANGED <<server, wpc, csock>>
    BY <1>10 DEF Connect, serverVars
  <2>2. CASE server # "listening"
    <3>1. cpc' = [cpc EXCEPT ![s] = "failed"] /\ UNCHANGED <<srvEnd, backlog>>
      BY <1>10, <2>2 DEF Connect
    <3> QED
      BY <1>0, <2>1, <3>1
  <2>3. CASE server = "listening"
    <3>1. /\ cpc[s] = "idle" /\ cpc' = [cpc EXCEPT ![s] = "named"]
          /\ srvEnd' = [srvEnd EXCEPT ![s] = "queued"]
          /\ backlog' = Append(backlog, s)
      BY <1>10, <2>3 DEF Connect
    <3>2. /\ Len(backlog) \in Nat /\ Len(backlog') = Len(backlog) + 1
          /\ \A i \in 1 .. Len(backlog) : backlog'[i] = backlog[i]
          /\ backlog'[Len(backlog) + 1] = s
      BY <1>0, <3>1
    <3>3. srvEnd[s] = "none"
      BY <3>1
    <3>4. \A i \in 1 .. Len(backlog') : srvEnd'[backlog'[i]] = "queued"
      BY <1>0, <3>1, <3>2
    <3>5. \A i, j \in 1 .. Len(backlog') : backlog'[i] = backlog'[j] => i = j
      BY <3>2, <3>3
    <3>6. \A v \in Workers : wpc[v] \in Serving => srvEnd'[csock[v]] = "served"
      BY <1>0, <2>3, <3>1, <3>3
    <3>7. \A r \in Sessions : cpc'[r] = "idle" => srvEnd'[r] = "none"
      BY <1>0, <3>1
    <3> QED
      BY <2>1, <2>3, <3>4, <3>5, <3>6, <3>7
  <2> QED
    BY <2>2, <2>3
<1>11. ASSUME NEW s \in Sessions, ClientStep(s), ~Connect(s) PROVE ConnInv'
  <2>1. /\ UNCHANGED <<server, wpc, csock, srvEnd, backlog>>
        /\ cpc' = cpc \/ \E step \in ClientSteps \ {"idle"} : cpc' = [cpc EXCEPT ![s] = step]
    BY <1>11 DEF ClientStep, ClientProgram, OpenFile, OpenFileFails, Send, SendOver, RecvAck,
       Quit, Disconnect, GiveUp, serverVars, clientVars, wireVars, ClientSteps
  <2>2. \A r \in Sessions : cpc'[r] = "idle" => cpc[r] = "idle"
    BY <1>0, <2>1
  <2> QED
    BY <2>1, <2>2
<1>12. CASE UNCHANGED vars
  BY <1>1, <1>12 DEF vars, wireVars, serverVars, clientVars
<1> QED
  BY <1>5, <1>6, <1>7, <1>9, <1>10, <1>11, <1>12 DEF Next, ServerNext, ClientNext

\* No connection is ever read by two workers, queued twice, or closed under the
\* worker that serves it.
THEOREM SingleReader == Spec => []OneReader
<1>1. Init => TypeInv /\ ConnInv
  BY TypeInit, ConnInit
<1>2. TypeInv /\ ConnInv /\ [Next]_vars => (TypeInv /\ ConnInv)'
  BY TypeStep, ConnStep
<1>3. ConnInv => OneReader
  BY DEF ConnInv
<1> QED
  BY <1>1, <1>2, <1>3, PTL DEF Spec

-----------------------------------------------------------------------------
(* The byte streams *)

\* Nothing more will ever come: the client's half has ended and the worker has
\* read all there was.
Dead(s) == link[s] \in {"fin", "reset"} /\ sent[s] = rcvd[s]

Unlinked == \A s \in Sessions : cpc[s] = "idle" => link[s] = "none"

Unread == \A s \in Sessions : srvEnd[s] \in {"none", "queued"} => rcvd[s] = 0

HdrName(s) == HdrLen + NameLen[s]

\* The name came whole; or the stream ended before, in the middle of the name
\* or, and then the name is empty, in the middle of the header.
Named(w, s) ==
    \/ /\ whole[w]
       /\ rcvd[s] = HdrName(s)
       /\ name[w] = ShortName[s][NameLen[s]]
    \/ Dead(s) /\ rcvd[s] < HdrName(s) /\ (whole[w] \/ name[w] = NoName)

\* bytes_left and the count of the recv under way agree with the stream; or it
\* is broken, and then the data loop has not ended unless there is no data.
InData(w, s) ==
    /\ whole[w]
    /\ left[w] <= DataLen[s] + SpinCap
    /\ got[w] = 0 \/ got[w] < left[w]
    /\ \/ /\ rcvd[s] + left[w] = FrameLen(s) + got[w]
          /\ name[w] = ShortName[s][NameLen[s]]
       \/ /\ Dead(s)
          /\ got[w] = 0
          /\ left[w] > 0 \/ (DataLen[s] = 0 /\ rcvd[s] < FrameLen(s))

Done(w, s) ==
    /\ whole[w]
    /\ \/ rcvd[s] = FrameLen(s) /\ name[w] = ShortName[s][NameLen[s]]
       \/ Dead(s) /\ DataLen[s] = 0 /\ rcvd[s] < FrameLen(s)

\* One conjunct for each part of run().
StreamAt(w) ==
    LET s == csock[w] IN
    /\ wpc[w] \in {"unborn", "lock", "accept", "unlock", "check", "access", "prompt",
                   "remove", "overwrite", "open", "ack", "shutdown"} => got[w] = 0
    /\ wpc[w] = "unlock" => rcvd[s] = 0
    /\ wpc[w] = "header" => rcvd[s] = got[w] /\ got[w] < HdrLen
    /\ wpc[w] = "name" =>
         /\ left[w] = DataLen[s] /\ got[w] < NameLen[s]
         /\ IF whole[w] THEN rcvd[s] = HdrLen + got[w]
                        ELSE Dead(s) /\ got[w] = 0 /\ rcvd[s] < HdrLen
    /\ wpc[w] \in {"access", "prompt", "remove", "overwrite", "open"} =>
         left[w] = DataLen[s] /\ Named(w, s)
    /\ wpc[w] = "data" => InData(w, s)
    /\ wpc[w] \in {"ack", "shutdown"} => Done(w, s)

Stream == \A w \in Workers : StreamAt(w)

StreamInv == Unlinked /\ Unread /\ Stream

LEMMA StreamInit == Init => StreamInv
BY FrameAssumption DEF Init, WireInit, ServerInit, ClientInit, StreamInv, Unlinked, Unread, Stream,
   StreamAt

-----------------------------------------------------------------------------
(* One ::recv *)

\* It hands over bytes, and the loop goes on exactly as long as they are too
\* few; or the stream has ended behind what was read before.
LEMMA RecvTurnEffect ==
    ASSUME WireTypeOK, NEW s \in Sessions, NEW want \in Nat, NEW g \in Nat,
           NEW k \in 0 .. want, NEW r \in -2 .. want, RecvTurn(s, want, g, k, r),
           UNCHANGED link
    PROVE  /\ \A t \in Sessions \ {s} : sent'[t] = sent[t] /\ rcvd'[t] = rcvd[t]
           /\ \/ /\ ~Dead(s) /\ g < k /\ rcvd'[s] = rcvd[s] + (k - g)
                 /\ \/ r = Again /\ k < want
                    \/ r = k /\ k = want
              \/ /\ Dead(s)' /\ k = g /\ rcvd'[s] = rcvd[s]
                 /\ r = k \/ r = k - 1
<1>1. /\ sent \in [Sessions -> Nat] /\ rcvd \in [Sessions -> Nat]
      /\ sent[s] \in Nat /\ rcvd[s] \in Nat
  BY DEF WireTypeOK
<1>2. CASE /\ k \in g + 1 .. want /\ k - g <= sent[s] - rcvd[s]
           /\ rcvd' = [rcvd EXCEPT ![s] = @ + (k - g)]
           /\ r = (IF LoopsOn(k, want) THEN Again ELSE k)
           /\ UNCHANGED sent
  <2>1. g < k /\ sent[s] # rcvd[s]
    BY <1>1, <1>2
  <2>2. /\ \A t \in Sessions \ {s} : sent'[t] = sent[t] /\ rcvd'[t] = rcvd[t]
        /\ rcvd'[s] = rcvd[s] + (k - g)
    BY <1>1, <1>2
  <2>3. (r = Again /\ k < want) \/ (r = k /\ k = want)
    BY <1>2 DEF LoopsOn
  <2> QED
    BY <2>1, <2>2, <2>3 DEF Dead
<1>3. CASE link[s] = "fin" /\ sent[s] = rcvd[s] /\ k = g /\ r = k /\ UNCHANGED <<sent, rcvd>>
  BY <1>1, <1>3 DEF Dead
<1>4. CASE /\ link[s] = "reset" /\ k = g /\ r = k - 1
           /\ sent' = [sent EXCEPT ![s] = rcvd[s]] /\ UNCHANGED rcvd
  BY <1>1, <1>4 DEF Dead
<1> QED
  BY <1>2, <1>3, <1>4 DEF RecvTurn

-----------------------------------------------------------------------------
(* A step keeps what is true of the workers it does not belong to. *)

LEMMA Untouched ==
    ASSUME NEW v \in Workers, StreamAt(v),
           wpc'[v] = wpc[v], csock'[v] = csock[v], got'[v] = got[v],
           whole'[v] = whole[v], name'[v] = name[v], left'[v] = left[v],
           wpc[v] \in Serving =>
               /\ rcvd'[csock[v]] = rcvd[csock[v]]
               /\ Dead(csock[v]) => Dead(csock[v])'
    PROVE  StreamAt(v)'
<1>1. CASE wpc[v] \notin Serving
  BY <1>1 DEF StreamAt, Serving
<1>2. CASE wpc[v] \in Serving
  <2> DEFINE s == csock[v]
  <2>1. csock'[v] = s /\ rcvd'[s] = rcvd[s]
    BY <1>2
  <2>2. Dead(csock[v]) => Dead(csock[v])'
    BY <1>2
  <2> QED
    BY <1>2, <2>1, <2>2 DEF StreamAt, Named, InData, Done, HdrName
<1> QED
  BY <1>1, <1>2

\* A worker's step changes only its own locals, and the stream of its own
\* connection, which nobody else reads.
LEMMA WorkerLocal ==
    ASSUME TypeInv, ConnInv, NEW w \in Workers, Worker(w), UNCHANGED clientVars
    PROVE  /\ UNCHANGED <<link, cpc>>
           /\ \A v \in Workers \ {w} :
                 /\ wpc'[v] = wpc[v] /\ csock'[v] = csock[v] /\ got'[v] = got[v]
                 /\ whole'[v] = whole[v] /\ name'[v] = name[v] /\ left'[v] = left[v]
           /\ \/ UNCHANGED <<sent, rcvd>>
              \/ /\ wpc[w] \in Serving
                 /\ \A t \in Sessions \ {csock[w]} : sent'[t] = sent[t] /\ rcvd'[t] = rcvd[t]
<1>1. /\ server = "listening" /\ WorkerStep(w)
      /\ wpc \in [Workers -> Steps] /\ got \in [Workers -> Nat] /\ left \in [Workers -> Nat]
      /\ whole \in [Workers -> BOOLEAN] /\ name \in [Workers -> Names \cup {NoName}]
      /\ csock \in [Workers -> Sessions \cup {NoSession}]
      /\ sent \in [Sessions -> Nat] /\ rcvd \in [Sessions -> Nat]
  BY DEF Worker, TypeInv, TypeOK, ServerTypeOK, WireTypeOK
<1>2. UNCHANGED cpc
  BY DEF clientVars
<1> USE DEF Goto, wireVars, locals
<1>3. CASE Lock(w) \/ Accept(w) \/ Unlock(w) \/ Access(w) \/ Remove(w) \/ Open(w)
           \/ SaveComplete(w) \/ SendAck(w) \/ Shutdown(w) \/ LoopCheck(w)
  <2>1. /\ UNCHANGED <<sent, rcvd, link, got, whole, name, left>>
        /\ \E step \in Steps : wpc' = [wpc EXCEPT ![w] = step]
    BY <1>3 DEF Lock, Accept, Unlock, Access, Remove, Open, SaveComplete, SendAck, Shutdown,
       LoopCheck, Steps
  <2>2. csock' = csock \/ \E s : csock' = [csock EXCEPT ![w] = s]
    BY <1>3 DEF Lock, Accept, Unlock, Access, Remove, Open, SaveComplete, SendAck, Shutdown,
       LoopCheck
  <2> QED
    BY <1>1, <1>2, <2>1, <2>2
<1>4. CASE Prompt(w) \/ OpenFails(w)
  <2>1. /\ UNCHANGED <<sent, rcvd, link, csock, got, whole, name, left>>
        /\ \E step \in Steps : wpc' = [wpc EXCEPT ![w] = step]
    BY <1>4 DEF Prompt, OpenFails, Leave, Steps
  <2> QED
    BY <1>1, <1>2, <2>1
<1>5. ASSUME NEW want \in Nat, NEW k \in 0 .. want, NEW r \in -2 .. want,
             csock[w] \in Sessions, RecvTurn(csock[w], want, got[w], k, r)
      PROVE  \A t \in Sessions \ {csock[w]} : sent'[t] = sent[t] /\ rcvd'[t] = rcvd[t]
  BY <1>1, <1>5 DEF RecvTurn
<1>6. wpc[w] \in Serving => csock[w] \in Sessions
  BY DEF TypeInv, LocalsOK
<1>7. CASE RecvHeader(w)
  <2>1. PICK k \in 0 .. HdrLen, r \in -2 .. HdrLen : HeaderTurn(w, k, r)
    BY <1>7 DEF RecvHeader
  <2>2. wpc[w] \in Serving /\ UNCHANGED <<link, name>>
    BY <1>7 DEF RecvHeader, Serving
  <2>3. \A t \in Sessions \ {csock[w]} : sent'[t] = sent[t] /\ rcvd'[t] = rcvd[t]
    BY <1>5, <1>6, <2>1, <2>2, FrameAssumption DEF HeaderTurn
  <2>4. \A v \in Workers \ {w} :
           /\ wpc'[v] = wpc[v] /\ csock'[v] = csock[v] /\ got'[v] = got[v]
           /\ whole'[v] = whole[v] /\ left'[v] = left[v]
    BY <1>1, <2>1 DEF HeaderTurn
  <2> QED
    BY <1>2, <2>2, <2>3, <2>4
<1>8. CASE RecvName(w)
  <2>1. PICK k \in 0 .. NameLen[csock[w]], r \in -2 .. NameLen[csock[w]] : NameTurn(w, k, r)
    BY <1>8 DEF RecvName
  <2>2. wpc[w] \in Serving /\ UNCHANGED <<link, csock, whole, left>>
    BY <1>8 DEF RecvName, Serving
  <2>3. \A t \in Sessions \ {csock[w]} : sent'[t] = sent[t] /\ rcvd'[t] = rcvd[t]
    BY <1>5, <1>6, <2>1, <2>2, FrameAssumption DEF NameTurn
  <2>4. \A v \in Workers \ {w} : wpc'[v] = wpc[v] /\ got'[v] = got[v] /\ name'[v] = name[v]
    BY <1>1, <2>1 DEF NameTurn
  <2> QED
    BY <1>2, <2>2, <2>3, <2>4
<1>9. CASE RecvData(w)
  <2>1. PICK k \in 0 .. ChunkOf(left[w]), r \in -2 .. ChunkOf(left[w]) : DataTurn(w, k, r)
    BY <1>9 DEF RecvData
  <2>2. wpc[w] \in Serving /\ UNCHANGED <<wpc, link, csock, whole, name>>
    BY <1>9 DEF RecvData, Serving
  <2>3. ChunkOf(left[w]) \in Nat
    BY <1>1, ServerAssumption DEF ChunkOf
  <2>4. \A t \in Sessions \ {csock[w]} : sent'[t] = sent[t] /\ rcvd'[t] = rcvd[t]
    BY <1>5, <1>6, <2>1, <2>2, <2>3 DEF DataTurn
  <2>5. \A v \in Workers \ {w} : got'[v] = got[v] /\ left'[v] = left[v]
    BY <1>1, <2>1 DEF DataTurn
  <2> QED
    BY <1>2, <2>2, <2>4, <2>5
<1> QED
  BY <1>1, <1>3, <1>4, <1>7, <1>8, <1>9 DEF WorkerStep

LEMMA OtherWorkers ==
    ASSUME TypeInv, ConnInv, StreamInv, NEW w \in Workers, Worker(w), UNCHANGED clientVars,
           NEW v \in Workers \ {w}
    PROVE  StreamAt(v)'
<1>1. wpc[v] \in Serving /\ wpc[w] \in Serving => csock[v] # csock[w]
  BY DEF ConnInv, OneReader
<1>2. wpc[v] \in Serving => csock[v] \in Sessions
  BY DEF TypeInv, LocalsOK
<1>3. /\ wpc'[v] = wpc[v] /\ csock'[v] = csock[v] /\ got'[v] = got[v]
      /\ whole'[v] = whole[v] /\ name'[v] = name[v] /\ left'[v] = left[v]
      /\ UNCHANGED <<link, cpc>>
      /\ wpc[v] \in Serving => sent'[csock[v]] = sent[csock[v]] /\ rcvd'[csock[v]] = rcvd[csock[v]]
  BY <1>1, <1>2, WorkerLocal DEF StreamInv
<1>4. wpc[v] \in Serving => (Dead(csock[v]) => Dead(csock[v])')
  BY <1>3 DEF Dead
<1> QED
  BY <1>3, <1>4, Untouched DEF StreamInv, Stream

\* A step of w that is not a receive.
LEMMA OwnStep ==
    ASSUME TypeInv, ConnInv, StreamInv, NEW w \in Workers, Worker(w), UNCHANGED clientVars,
           ~RecvHeader(w), ~RecvName(w), ~RecvData(w)
    PROVE  StreamAt(w)'
<1>1. /\ wpc \in [Workers -> Steps] /\ got \in [Workers -> Nat] /\ left \in [Workers -> Nat]
      /\ csock \in [Workers -> Sessions \cup {NoSession}]
      /\ backlog \in Seq(Sessions)
      /\ server = "listening" /\ WorkerStep(w) /\ StreamAt(w)
      /\ wpc[w] \in Serving => csock[w] \in Sessions
  BY DEF Worker, TypeInv, TypeOK, ServerTypeOK, WireTypeOK, LocalsOK, StreamInv, Stream
<1>2. UNCHANGED cpc
  BY DEF clientVars
<1>3. HdrLen \in Nat \ {0} /\ \A s \in Sessions : NameLen[s] \in Nat \ {0} /\ DataLen[s] \in Nat
  BY FrameAssumption
<1> USE DEF Goto, wireVars, locals
\* The steps after which only got = 0 is claimed.
<1>4. CASE Lock(w) \/ LoopCheck(w)
  BY <1>1, <1>4 DEF Lock, LoopCheck, StreamAt
<1>5. CASE Accept(w)
  <2>1. /\ Head(backlog) \in Sessions /\ Head(backlog) = backlog[1] /\ 1 \in 1 .. Len(backlog)
        /\ csock'[w] = Head(backlog) /\ wpc'[w] = "unlock" /\ wpc[w] = "accept"
        /\ UNCHANGED <<got, rcvd>>
    BY <1>1, <1>5 DEF Accept
  <2>2. srvEnd[Head(backlog)] = "queued"
    BY <1>1, <2>1 DEF ConnInv, OneReader
  <2>3. rcvd[Head(backlog)] = 0
    BY <2>1, <2>2 DEF StreamInv, Unread
  <2> QED
    BY <1>1, <2>1, <2>3 DEF StreamAt
<1>6. CASE Unlock(w)
  <2>1. /\ wpc[w] = "unlock" /\ wpc'[w] = "header" /\ got[w] = 0 /\ rcvd[csock[w]] = 0
        /\ UNCHANGED <<csock, got, rcvd>>
    BY <1>1, <1>6 DEF Unlock, StreamAt
  <2> QED
    BY <1>3, <2>1 DEF StreamAt
\* From the name to the open of the file nothing moves.
<1>7. ASSUME wpc[w] \in {"access", "prompt", "remove"},
             wpc'[w] \in {"prompt", "remove", "overwrite", "open"},
             UNCHANGED <<locals, sent, rcvd, link>>
      PROVE  StreamAt(w)'
  BY <1>1, <1>2, <1>7 DEF StreamAt, Named, HdrName, Dead
<1>8. CASE Access(w) \/ Remove(w)
  BY <1>1, <1>7, <1>8 DEF Access, Remove
<1>9. ASSUME wpc'[w] = "exited" PROVE StreamAt(w)'
  BY <1>9 DEF StreamAt
<1>10. CASE Prompt(w)
  BY <1>1, <1>7, <1>9, <1>10 DEF Prompt, Leave
<1>11. CASE OpenFails(w)
  BY <1>1, <1>9, <1>11 DEF OpenFails, Leave
\* A name that is not empty came from a header that was whole.
<1>12. CASE Open(w)
  <2> DEFINE s == csock[w]
  <2>1. /\ wpc[w] \in {"overwrite", "open"} /\ name[w] # NoName /\ wpc'[w] = "data"
        /\ UNCHANGED <<csock, got, whole, name, left, sent, rcvd, link>>
        /\ s \in Sessions
    BY <1>1, <1>12 DEF Open, Serving
  <2>2. got[w] = 0 /\ left[w] = DataLen[s] /\ Named(w, s)
    BY <1>1, <2>1 DEF StreamAt
  <2>3. InData(w, s)
    <3>0. left[w] <= DataLen[s] + SpinCap
      BY <1>3, <2>1, <2>2, ServerAssumption
    <3>1. CASE whole[w] /\ rcvd[s] = HdrName(s) /\ name[w] = ShortName[s][NameLen[s]]
      BY <1>3, <2>1, <2>2, <3>0, <3>1 DEF InData, HdrName, FrameLen
    <3>2. CASE Dead(s) /\ rcvd[s] < HdrName(s) /\ whole[w]
      <4>1. rcvd[s] \in Nat
        BY <2>1 DEF TypeInv, TypeOK, WireTypeOK
      <4>2. DataLen[s] = 0 \/ left[w] > 0
        BY <1>3, <2>1, <2>2
      <4>3. rcvd[s] < FrameLen(s)
        BY <1>3, <2>1, <3>2, <4>1 DEF HdrName, FrameLen
      <4> QED
        BY <2>2, <3>0, <3>2, <4>2, <4>3 DEF InData
    <3> QED
      BY <2>1, <2>2, <3>1, <3>2 DEF Named
  <2>4. InData(w, csock[w])'
    BY <1>2, <2>1, <2>3 DEF InData, Dead
  <2> QED
    BY <2>1, <2>4 DEF StreamAt
<1>13. CASE SaveComplete(w)
  <2> DEFINE s == csock[w]
  <2>1. /\ wpc[w] = "data" /\ left[w] <= 0 /\ wpc'[w] = "ack" /\ s \in Sessions
        /\ UNCHANGED <<csock, got, whole, name, left, sent, rcvd, link>>
    BY <1>1, <1>13 DEF SaveComplete, Serving
  <2>2. InData(w, s) /\ left[w] = 0 /\ got[w] \in Nat
    BY <1>1, <2>1 DEF StreamAt
  <2>3. got[w] = 0
    BY <2>2 DEF InData
  <2>4. Done(w, s)
    <3>1. rcvd[s] \in Nat /\ FrameLen(s) \in Nat
      BY <1>3, <2>1 DEF TypeInv, TypeOK, WireTypeOK, FrameLen
    <3>2. rcvd[s] + left[w] = FrameLen(s) + got[w] => rcvd[s] = FrameLen(s)
      BY <2>2, <2>3, <3>1
    <3> QED
      BY <2>2, <3>2 DEF InData, Done
  <2>5. Done(w, csock[w])'
    BY <1>2, <2>1, <2>4 DEF Done, Dead
  <2> QED
    BY <2>1, <2>3, <2>5 DEF StreamAt
<1>14. CASE SendAck(w)
  <2>1. /\ wpc[w] = "ack" /\ wpc'[w] = "shutdown"
        /\ UNCHANGED <<csock, got, whole, name, left, sent, rcvd, link>>
    BY <1>1, <1>14 DEF SendAck
  <2>2. got[w] = 0 /\ Done(w, csock[w])
    BY <1>1, <2>1 DEF StreamAt
  <2>3. Done(w, csock[w])'
    BY <1>2, <2>1, <2>2 DEF Done, Dead
  <2> QED
    BY <2>1, <2>2, <2>3 DEF StreamAt
<1>15. CASE Shutdown(w)
  BY <1>1, <1>15 DEF Shutdown, StreamAt
<1> QED
  BY <1>1, <1>4, <1>5, <1>6, <1>8, <1>10, <1>11, <1>12, <1>13, <1>14, <1>15 DEF WorkerStep

-----------------------------------------------------------------------------
(* The three receives *)

LEMMA HeaderStep ==
    ASSUME TypeInv, StreamInv, NEW w \in Workers, RecvHeader(w), UNCHANGED clientVars
    PROVE  StreamAt(w)'
\* The session itself: when recv fails, csock[w] changes.
<1>0. PICK s \in Sessions : s = csock[w]
  BY DEF TypeInv, LocalsOK, RecvHeader, Serving
<1>1. /\ wpc \in [Workers -> Steps] /\ got \in [Workers -> Nat] /\ left \in [Workers -> Nat]
      /\ whole \in [Workers -> BOOLEAN] /\ csock \in [Workers -> Sessions \cup {NoSession}]
      /\ wpc[w] = "header" /\ s \in Sessions /\ got[w] \in Nat /\ rcvd[s] \in Nat
      /\ WireTypeOK /\ UNCHANGED <<link, cpc>>
      /\ rcvd[s] = got[w] /\ got[w] < HdrLen
  BY <1>0 DEF TypeInv, TypeOK, ServerTypeOK, WireTypeOK, LocalsOK, StreamInv, Stream, StreamAt,
     RecvHeader, Serving, clientVars
<1>2. HdrLen \in Nat \ {0} /\ NameLen[s] \in Nat \ {0} /\ DataLen[s] \in Nat
  BY <1>1, FrameAssumption
<1>3. PICK k \in 0 .. HdrLen, r \in -2 .. HdrLen : HeaderTurn(w, k, r)
  BY DEF RecvHeader
<1>4. \/ /\ ~Dead(s) /\ got[w] < k /\ rcvd'[s] = rcvd[s] + (k - got[w])
         /\ \/ r = Again /\ k < HdrLen
            \/ r = k /\ k = HdrLen
      \/ /\ Dead(s)' /\ k = got[w] /\ rcvd'[s] = rcvd[s]
         /\ r = k \/ r = k - 1
  <2>1. RecvTurn(s, HdrLen, got[w], k, r)
    BY <1>0, <1>3 DEF HeaderTurn
  <2>2. WireTypeOK /\ s \in Sessions /\ HdrLen \in Nat /\ got[w] \in Nat
        /\ UNCHANGED link
    BY <1>1, <1>2
  <2> QED
    BY <2>1, <2>2, RecvTurnEffect
<1> USE DEF Goto
<1>5. CASE r = Again /\ got' = [got EXCEPT ![w] = k] /\ UNCHANGED <<wpc, csock>>
  <2>1. k < HdrLen /\ rcvd'[s] = k
    BY <1>1, <1>4, <1>5 DEF Again
  <2> QED
    BY <1>0, <1>1, <1>5, <2>1 DEF StreamAt
<1>6. CASE r = -1 /\ Goto(w, "check") /\ UNCHANGED got
  <2>1. got[w] = 0
    BY <1>1, <1>2, <1>4, <1>6 DEF Again
  <2> QED
    BY <1>1, <1>6, <2>1 DEF StreamAt
<1>7. CASE /\ r >= 0 /\ Goto(w, "name") /\ got' = [got EXCEPT ![w] = 0]
           /\ whole' = [whole EXCEPT ![w] = (k = HdrLen)]
           /\ left' = [left EXCEPT ![w] = DataLen[s]]
           /\ UNCHANGED csock
  <2>1. IF k = HdrLen THEN rcvd'[s] = HdrLen ELSE Dead(s)' /\ rcvd'[s] < HdrLen
    BY <1>1, <1>2, <1>4, <1>7 DEF Again
  <2>2. /\ wpc'[w] = "name" /\ csock'[w] = s /\ got'[w] = 0 /\ left'[w] = DataLen[s]
        /\ (k = HdrLen => whole'[w]) /\ (k # HdrLen => ~whole'[w])
    BY <1>0, <1>1, <1>7
  <2>3. Dead(s)' => Dead(csock[w])'
    BY <2>2 DEF Dead
  <2>4. CASE k = HdrLen
    <3>1. whole'[w] /\ rcvd'[csock'[w]] = HdrLen + got'[w] /\ got'[w] < NameLen[s]
      BY <1>2, <2>1, <2>2, <2>4
    <3> QED
      BY <2>2, <3>1 DEF StreamAt
  <2>5. CASE k # HdrLen
    <3>1. /\ ~whole'[w] /\ Dead(csock[w])' /\ got'[w] < NameLen[s]
          /\ rcvd'[csock'[w]] < HdrLen
      BY <1>2, <2>1, <2>2, <2>3, <2>5
    <3> QED
      BY <2>2, <3>1 DEF StreamAt
  <2> QED
    BY <2>4, <2>5
<1> QED
  BY <1>0, <1>3, <1>5, <1>6, <1>7 DEF HeaderTurn

LEMMA NameStep ==
    ASSUME TypeInv, StreamInv, NEW w \in Workers, RecvName(w), UNCHANGED clientVars
    PROVE  StreamAt(w)'
<1>0. PICK s \in Sessions : s = csock[w]
  BY DEF TypeInv, LocalsOK, RecvName, Serving
<1>1. /\ wpc \in [Workers -> Steps] /\ got \in [Workers -> Nat]
      /\ name \in [Workers -> Names \cup {NoName}] /\ whole \in [Workers -> BOOLEAN]
      /\ wpc[w] = "name" /\ s \in Sessions /\ got[w] \in Nat /\ rcvd[s] \in Nat
      /\ WireTypeOK /\ UNCHANGED <<link, cpc, csock, whole, left>>
      /\ left[w] = DataLen[s] /\ got[w] < NameLen[s]
      /\ IF whole[w] THEN rcvd[s] = HdrLen + got[w]
                     ELSE Dead(s) /\ got[w] = 0 /\ rcvd[s] < HdrLen
  BY <1>0 DEF TypeInv, TypeOK, ServerTypeOK, WireTypeOK, LocalsOK, StreamInv, Stream, StreamAt,
     RecvName, Serving, clientVars
<1>2. HdrLen \in Nat \ {0} /\ NameLen[s] \in Nat \ {0}
  BY <1>1, FrameAssumption
<1>3. PICK k \in 0 .. NameLen[s], r \in -2 .. NameLen[s] : NameTurn(w, k, r)
  BY <1>0 DEF RecvName
<1>4. \/ /\ ~Dead(s) /\ got[w] < k /\ rcvd'[s] = rcvd[s] + (k - got[w])
         /\ \/ r = Again /\ k < NameLen[s]
            \/ r = k /\ k = NameLen[s]
      \/ /\ Dead(s)' /\ k = got[w] /\ rcvd'[s] = rcvd[s]
         /\ r = k \/ r = k - 1
  <2>1. RecvTurn(s, NameLen[s], got[w], k, r)
    BY <1>0, <1>3 DEF NameTurn
  <2>2. WireTypeOK /\ NameLen[s] \in Nat /\ got[w] \in Nat /\ UNCHANGED link
    BY <1>1, <1>2
  <2> QED
    BY <2>1, <2>2, RecvTurnEffect
<1>5. Dead(s)' => Dead(csock[w])'
  BY <1>0, <1>1 DEF Dead
<1> USE DEF Goto
<1>6. CASE r = Again /\ got' = [got EXCEPT ![w] = k] /\ UNCHANGED <<wpc, name>>
  <2>1. whole[w] /\ k < NameLen[s] /\ rcvd'[s] = HdrLen + k
    BY <1>1, <1>2, <1>4, <1>6 DEF Again
  <2> QED
    BY <1>0, <1>1, <1>6, <2>1 DEF StreamAt
<1>7. CASE r # Again /\ Goto(w, "access") /\ got' = [got EXCEPT ![w] = 0]
           /\ name' = [name EXCEPT ![w] = ShortName[s][k]]
  <2>1. /\ wpc'[w] = "access" /\ csock'[w] = s /\ got'[w] = 0 /\ left'[w] = DataLen[s]
        /\ name'[w] = ShortName[s][k] /\ whole'[w] = whole[w]
    BY <1>0, <1>1, <1>7
  <2>2. CASE k = NameLen[s] /\ whole[w] /\ rcvd'[s] = rcvd[s] + (k - got[w])
    <3>1. rcvd'[s] = HdrName(s)
      BY <1>1, <1>2, <2>2 DEF HdrName
    <3> QED
      BY <2>1, <2>2, <3>1 DEF StreamAt, Named, HdrName
  <2>3. CASE Dead(s)' /\ k = got[w] /\ rcvd'[s] = rcvd[s] /\ whole[w]
    <3>1. rcvd'[s] < HdrName(s)
      BY <1>1, <1>2, <2>3 DEF HdrName
    <3> QED
      BY <1>5, <2>1, <2>3, <3>1 DEF StreamAt, Named, HdrName
  <2>4. CASE Dead(s)' /\ k = 0 /\ rcvd'[s] = rcvd[s] /\ rcvd[s] < HdrLen
    <3>1. name'[w] = NoName
      BY <1>1, <2>1, <2>4, NameAssumption
    <3>2. rcvd'[s] < HdrName(s)
      BY <1>1, <1>2, <2>4 DEF HdrName
    <3>3. Named(w, csock[w])'
      BY <1>5, <2>1, <2>4, <3>1, <3>2 DEF Named, HdrName
    <3> QED
      BY <2>1, <3>3 DEF StreamAt
  <2> QED
    BY <1>1, <1>4, <1>7, <2>2, <2>3, <2>4
<1> QED
  BY <1>0, <1>3, <1>6, <1>7 DEF NameTurn

LEMMA DataStep ==
    ASSUME TypeInv, StreamInv, NEW w \in Workers, RecvData(w), UNCHANGED clientVars
    PROVE  StreamAt(w)'
<1>0. PICK s \in Sessions : s = csock[w]
  BY DEF TypeInv, LocalsOK, RecvData, Serving
<1>1. /\ got \in [Workers -> Nat] /\ left \in [Workers -> Nat]
      /\ wpc[w] = "data" /\ s \in Sessions /\ got[w] \in Nat /\ left[w] \in Nat
      /\ left[w] > 0 /\ rcvd[s] \in Nat
      /\ WireTypeOK /\ UNCHANGED <<wpc, link, cpc, csock, whole, name>>
      /\ InData(w, s)
  BY <1>0 DEF TypeInv, TypeOK, ServerTypeOK, WireTypeOK, LocalsOK, StreamInv, Stream, StreamAt,
     RecvData, Serving, clientVars
<1>a. ChunkOf(left[w]) \in Nat /\ ChunkOf(left[w]) <= left[w]
  BY <1>1, ServerAssumption DEF ChunkOf
<1>b. PICK chunk \in Nat : chunk = ChunkOf(left[w])
  BY <1>a
<1>2. /\ chunk \in Nat /\ chunk <= left[w] /\ FrameLen(s) \in Nat
      /\ DataLen[s] \in Nat /\ SpinCap \in Nat
  BY <1>1, <1>a, <1>b, FrameAssumption, ServerAssumption DEF FrameLen
<1>3. PICK k \in 0 .. chunk, r \in -2 .. chunk : DataTurn(w, k, r)
  BY <1>b DEF RecvData
<1>4. \/ /\ ~Dead(s) /\ got[w] < k /\ rcvd'[s] = rcvd[s] + (k - got[w])
         /\ \/ r = Again /\ k < chunk
            \/ r = k /\ k = chunk
      \/ /\ Dead(s)' /\ k = got[w] /\ rcvd'[s] = rcvd[s]
         /\ r = k \/ r = k - 1
  <2>1. RecvTurn(s, chunk, got[w], k, r)
    BY <1>0, <1>3, <1>b DEF DataTurn
  <2>2. WireTypeOK /\ chunk \in Nat /\ got[w] \in Nat /\ UNCHANGED link
    BY <1>1, <1>2
  <2> QED
    BY <2>1, <2>2, RecvTurnEffect
<1>5. Dead(s)' => Dead(csock[w])'
  BY <1>0, <1>1 DEF Dead
<1>6. CASE r = Again /\ got' = [got EXCEPT ![w] = k] /\ UNCHANGED left
  <2>1. CASE ~Dead(s) /\ k < chunk /\ rcvd'[s] = rcvd[s] + (k - got[w])
    <3>1. rcvd[s] + left[w] = FrameLen(s) + got[w] /\ name[w] = ShortName[s][NameLen[s]]
      BY <1>1, <2>1 DEF InData
    <3>2. rcvd'[s] + left[w] = FrameLen(s) + k /\ k < left[w]
      BY <1>1, <1>2, <2>1, <3>1
    <3>3. got'[w] = k /\ left'[w] = left[w] /\ name'[w] = name[w] /\ whole[w]
      BY <1>1, <1>6 DEF InData
    <3>4. InData(w, csock[w])'
      BY <1>0, <1>1, <3>1, <3>2, <3>3 DEF InData, FrameLen
    <3> QED
      BY <1>0, <1>1, <3>4 DEF StreamAt
  <2> QED
    BY <1>1, <1>2, <1>4, <1>6, <2>1 DEF Again
<1>7. CASE r # Again /\ got' = [got EXCEPT ![w] = 0]
           /\ left' = [left EXCEPT ![w] = BytesLeft(s, @, r)]
  <2>1. got'[w] = 0 /\ left'[w] = BytesLeft(s, left[w], r) /\ whole[w]
    BY <1>1, <1>7 DEF InData
  <2>2. left[w] <= DataLen[s] + SpinCap
    BY <1>1 DEF InData
  \* Bytes came: the loop's count follows the stream.
  <2>3. CASE ~Dead(s) /\ got[w] < k /\ r = k /\ rcvd'[s] = rcvd[s] + (k - got[w])
    <3>1. rcvd[s] + left[w] = FrameLen(s) + got[w] /\ name[w] = ShortName[s][NameLen[s]]
      BY <1>1, <2>3 DEF InData
    <3>2. left'[w] = left[w] - k
      BY <1>1, <1>2, <2>1, <2>2, <2>3 DEF BytesLeft
    <3>3. /\ rcvd'[s] + left'[w] = FrameLen(s) + got'[w]
          /\ left'[w] <= DataLen[s] + SpinCap
      BY <1>1, <1>2, <2>1, <2>2, <2>3, <3>1, <3>2
    <3>4. InData(w, csock[w])'
      BY <1>0, <1>1, <2>1, <3>1, <3>3 DEF InData, FrameLen
    <3> QED
      BY <1>0, <1>1, <3>4 DEF StreamAt
  \* The stream is at its end: what is left is not taken for received.
  <2>4. CASE Dead(s)' /\ k = got[w] /\ rcvd'[s] = rcvd[s] /\ r \in {k, k - 1}
    <3>1. /\ left'[w] <= DataLen[s] + SpinCap /\ left'[w] > 0
          /\ left'[w] = left[w] - r \/ got[w] = 0
      <4>1. r \in Int /\ r < left[w] /\ r >= -1 /\ (got[w] = 0 \/ r >= 0)
        BY <1>1, <1>2, <2>4 DEF InData
      <4> QED
        BY <1>1, <1>2, <2>1, <2>2, <2>4, <4>1 DEF BytesLeft
    <3>2. InData(w, csock[w])'
      BY <1>0, <1>1, <1>5, <2>1, <2>4, <3>1 DEF InData
    <3> QED
      BY <1>0, <1>1, <3>2 DEF StreamAt
  <2> QED
    BY <1>1, <1>2, <1>4, <1>7, <2>3, <2>4
<1> QED
  BY <1>0, <1>3, <1>6, <1>7 DEF DataTurn

-----------------------------------------------------------------------------
(* All steps *)

\* What a step of a worker leaves of Unread and Unlinked.
LEMMA WorkerKeeps ==
    ASSUME TypeInv, ConnInv, StreamInv, NEW w \in Workers, Worker(w), UNCHANGED clientVars
    PROVE  Unlinked' /\ Unread'
<1>1. /\ wpc \in [Workers -> Steps] /\ srvEnd \in [Sessions -> SrvStates]
      /\ backlog \in Seq(Sessions) /\ server = "listening"
      /\ wpc[w] \in Serving => csock[w] \in Sessions /\ srvEnd[csock[w]] = "served"
  BY DEF TypeInv, TypeOK, WireTypeOK, ServerTypeOK, LocalsOK, ConnInv, OneReader, Worker
<1>2. Unlinked'
  BY WorkerLocal DEF StreamInv, Unlinked
<1>3. \A t \in Sessions :
         srvEnd'[t] \in {"none", "queued"} => srvEnd'[t] = srvEnd[t] /\ rcvd'[t] = rcvd[t]
  <2>1. CASE Accept(w)
    BY <1>1, <2>1 DEF Accept
  <2>2. CASE UNCHANGED srvEnd
    BY <1>1, <2>2, WorkerLocal DEF StreamInv
  <2>3. CASE /\ wpc[w] \in Serving
             /\ \E e \in {"closed", "leaked"} : srvEnd' = [srvEnd EXCEPT ![csock[w]] = e]
    BY <1>1, <2>3, WorkerLocal DEF StreamInv
  <2> QED
    BY <2>1, <2>2, <2>3, WorkerOnConnections
<1> QED
  BY <1>2, <1>3 DEF StreamInv, Unread

\* A client's step leaves the server alone and ends no more than its own half of
\* its own connection.
LEMMA ClientEffect ==
    ASSUME TypeInv, ConnInv, StreamInv, NEW s \in Sessions, ClientStep(s)
    PROVE  /\ UNCHANGED <<wpc, locals, disk, rcvd>>
           /\ \A t \in Sessions : srvEnd'[t] = srvEnd[t] \/ srvEnd[t] = "none"
           /\ \A t \in Sessions : Dead(t) => Dead(t)'
           /\ Unlinked' /\ Unread'
<1>0. /\ link \in [Sessions -> LinkStates] /\ cpc \in [Sessions -> ClientSteps]
      /\ srvEnd \in [Sessions -> SrvStates] /\ sent \in [Sessions -> Nat]
  BY DEF TypeInv, TypeOK, WireTypeOK, ClientTypeOK
<1> USE DEF ClientGoto
<1>1. UNCHANGED <<wpc, locals, disk, rcvd>>
  BY DEF ClientStep, ClientProgram, Connect, OpenFile, OpenFileFails, Send, SendOver,
     RecvAck, Quit, Disconnect, GiveUp, serverVars, wireVars, locals, disk
<1>2. /\ \A t \in Sessions \ {s} :
           cpc'[t] = cpc[t] /\ link'[t] = link[t] /\ sent'[t] = sent[t] /\ srvEnd'[t] = srvEnd[t]
      /\ srvEnd'[s] = srvEnd[s] \/ srvEnd[s] = "none"
      /\ link[s] \in {"fin", "reset"} => link'[s] = link[s] /\ sent'[s] = sent[s]
      /\ cpc'[s] = "idle" => link'[s] = link[s] /\ cpc[s] = "idle"
  <2>1. CASE Connect(s)
    BY <1>0, <2>1 DEF Connect, ConnInv, IdleUnheld, StreamInv, Unlinked
  <2>2. CASE OpenFile(s) \/ SendOver(s) \/ RecvAck(s) \/ GiveUp(s)
    BY <1>0, <2>2 DEF OpenFile, SendOver, RecvAck, GiveUp, wireVars
  <2>3. CASE OpenFileFails(s) \/ Quit(s)
    BY <1>0, <2>3 DEF OpenFileFails, Quit, Hangup
  <2>4. CASE Send(s)
    BY <1>0, <2>4 DEF Send, clientVars
  <2>5. CASE Disconnect(s)
    BY <1>0, <2>5 DEF Disconnect, Connected
  <2> QED
    BY <2>1, <2>2, <2>3, <2>4, <2>5 DEF ClientStep, ClientProgram
<1>3. Unlinked'
  BY <1>2 DEF StreamInv, Unlinked
<1>4. Unread'
  BY <1>1, <1>2 DEF StreamInv, Unread
<1>5. \A t \in Sessions : Dead(t) => Dead(t)'
  BY <1>1, <1>2 DEF Dead
<1> QED
  BY <1>1, <1>2, <1>3, <1>4, <1>5

LEMMA StreamStep == TypeInv /\ ConnInv /\ StreamInv /\ [Next]_vars => StreamInv'
<1> SUFFICES ASSUME TypeInv, ConnInv, StreamInv, [Next]_vars PROVE StreamInv'
  OBVIOUS
<1>0. /\ wpc \in [Workers -> Steps] /\ link \in [Sessions -> LinkStates]
      /\ cpc \in [Sessions -> ClientSteps] /\ srvEnd \in [Sessions -> SrvStates]
      /\ sent \in [Sessions -> Nat] /\ rcvd \in [Sessions -> Nat]
      /\ \A w \in Workers : wpc[w] \in Serving => csock[w] \in Sessions
  BY DEF TypeInv, TypeOK, WireTypeOK, ServerTypeOK, ClientTypeOK, LocalsOK
<1>1. ASSUME NEW w \in Workers, Worker(w), UNCHANGED clientVars PROVE StreamInv'
  <2>1. StreamAt(w)'
    BY <1>1, OwnStep, HeaderStep, NameStep, DataStep
  <2>2. \A v \in Workers \ {w} : StreamAt(v)'
    BY <1>1, OtherWorkers
  <2>3. Stream'
    BY <2>1, <2>2 DEF Stream
  <2> QED
    BY <1>1, <2>3, WorkerKeeps DEF StreamInv
\* No worker moves, and a session that is dead stays so.
<1>2. ASSUME UNCHANGED <<wpc, locals, rcvd>>, Unlinked', Unread',
             \A s \in Sessions : Dead(s) => Dead(s)'
      PROVE  StreamInv'
  <2>1. ASSUME NEW v \in Workers PROVE StreamAt(v)'
    <3>1. wpc[v] \in Serving => (Dead(csock[v]) => Dead(csock[v])')
      <4>1. csock' = csock
        BY <1>2 DEF locals
      <4> QED
        BY <1>0, <1>2, <4>1 DEF Dead
    <3> QED
      BY <1>2, <3>1, Untouched DEF StreamInv, Stream, locals
  <2> QED
    BY <1>2, <2>1 DEF StreamInv, Stream
<1>3. ASSUME Listen \/ ListenFails \/ JoinAll \/ Break, UNCHANGED clientVars PROVE StreamInv'
  <2>1. UNCHANGED <<wpc, locals, sent, rcvd, link, cpc>>
    BY <1>3 DEF Listen, ListenFails, JoinAll, Break, wireVars, clientVars
  <2>2. \A s \in Sessions : srvEnd'[s] \in {"none", "queued"} => srvEnd'[s] = srvEnd[s]
    BY <1>3 DEF Listen, ListenFails, JoinAll, Break, CloseServerEnds, wireVars
  <2> QED
    BY <1>2, <2>1, <2>2 DEF StreamInv, Unlinked, Unread, Dead
<1>4. ASSUME NEW w \in Workers, Spawn(w), UNCHANGED clientVars PROVE StreamInv'
  <2>1. /\ UNCHANGED <<locals, sent, rcvd, link, srvEnd, cpc>>
        /\ wpc[w] = "unborn" /\ wpc' = [wpc EXCEPT ![w] = "lock"]
    BY <1>4 DEF Spawn, Goto, wireVars, clientVars
  <2>2. StreamAt(w)'
    BY <1>0, <2>1 DEF StreamInv, Stream, StreamAt, locals
  <2>3. ASSUME NEW v \in Workers \ {w} PROVE StreamAt(v)'
    BY <1>0, <2>1, Untouched DEF StreamInv, Stream, locals, Dead
  <2> QED
    BY <2>1, <2>2, <2>3 DEF StreamInv, Stream, Unlinked, Unread
<1>5. ASSUME NEW s \in Sessions, ClientStep(s) PROVE StreamInv'
  BY <1>2, <1>5, ClientEffect
<1>6. CASE UNCHANGED vars
  BY <1>2, <1>6 DEF vars, wireVars, serverVars, clientVars, locals, StreamInv, Unlinked, Unread, Dead
<1> QED
  BY <1>1, <1>3, <1>4, <1>5, <1>6 DEF Next, ServerNext, ClientNext

LEMMA Invariance == Spec => [](TypeInv /\ ConnInv /\ StreamInv)
<1>1. Init => TypeInv /\ ConnInv /\ StreamInv
  BY TypeInit, ConnInit, StreamInit
<1>2. TypeInv /\ ConnInv /\ StreamInv /\ [Next]_vars => (TypeInv /\ ConnInv /\ StreamInv)'
  BY TypeStep, ConnStep, StreamStep
<1> QED
  BY <1>1, <1>2, PTL DEF Spec

\* No file is created or truncated on the word of a header that did not come
\* whole, although the code takes a short header for a header.
THEOREM NoFileForShortHeader == Spec => []WholeHeaderBeforeOpen
<1>1. StreamInv => WholeHeaderBeforeOpen
  BY DEF StreamInv, Stream, StreamAt, InData, Done, WholeHeaderBeforeOpen
<1> QED
  BY <1>1, Invariance, PTL

\* "save file complete" means that the session's frame was read to its end, or
\* that its connection was lost before any data and there is none.
THEOREM SavedToTheEnd == Spec => []SavedMeansAllRead
<1>1. StreamInv => SavedMeansAllRead
  BY DEF StreamInv, Stream, StreamAt, Done, Dead, SavedMeansAllRead
<1> QED
  BY <1>1, Invariance, PTL

-----------------------------------------------------------------------------
(* Why a client sees success and why a worker is lost. *)

\* Between two connections a worker has none.
Unattached ==
    \A w \in Workers : wpc[w] \in {"unborn", "lock", "accept", "check"} => csock[w] = NoSession

\* The ACK is sent on the listening socket: it reaches no client.
Unanswered == \A s \in Sessions : ackd[s] = 0

SavedAtTheEnd == \A w \in Workers : wpc[w] \in {"ack", "shutdown"} => csock[w] \in saved

NobodyYet ==
    server = "down" =>
        \A s \in Sessions : srvEnd[s] = "none" /\ link[s] = "none" /\ cpc[s] # "done"

LostOver(s) == \E w \in Workers : wpc[w] = "exited" /\ csock[w] = s

\* While the server runs, a connection is closed behind a saved file or a lost
\* worker, and every lost worker's is closed.
ClosedHasACause ==
    server = "listening" =>
        /\ \A s \in Sessions : srvEnd[s] = "closed" => s \in saved \/ LostOver(s)
        /\ \A w \in Workers :
              wpc[w] = "exited" /\ csock[w] # NoSession => srvEnd[csock[w]] = "closed"

CauseInv ==
    /\ Unattached /\ Unanswered /\ SavedAtTheEnd /\ NobodyYet
    /\ ClosedHasACause
    /\ SuccessHasACause
    /\ LostWorkerHasACause

LEMMA CauseInit == Init => CauseInv
  BY DEF Init, WireInit, ServerInit, ClientInit, CauseInv, Unattached, Unanswered,
     SavedAtTheEnd, NobodyYet, ClosedHasACause, SuccessHasACause, LostWorkerHasACause

\* A step leaves the workers that are lost with what they were lost over.
SparesTheLost ==
    \A v \in Workers : wpc[v] = "exited" =>
        /\ name'[v] = name[v]
        /\ csock'[v] = csock[v]
        /\ csock[v] \in Sessions /\ NamelessEnd(csock[v]) => NamelessEnd(csock[v])'

\* What the steps below need of the types.
Typed ==
    /\ server \in ServerStates
    /\ wpc \in [Workers -> Steps]
    /\ csock \in [Workers -> Sessions \cup {NoSession}]
    /\ srvEnd \in [Sessions -> SrvStates]
    /\ link \in [Sessions -> LinkStates]
    /\ ackd \in [Sessions -> Nat]
    /\ cpc \in [Sessions -> ClientSteps]
    /\ backlog \in Seq(Sessions)
    /\ \A w \in Workers : wpc[w] \in Serving => csock[w] \in Sessions
    /\ NoSession \notin Sessions

LEMMA TypesTyped == TypeInv => Typed
  BY SessionsAssumption DEF TypeInv, TypeOK, WireTypeOK, ServerTypeOK, ClientTypeOK, LocalsOK,
     Typed

LEMMA WorkerSparesTheLost ==
  ASSUME TypeInv, ConnInv, StreamInv, CauseInv, NEW w \in Workers, Worker(w),
         UNCHANGED clientVars
  PROVE  SparesTheLost
<1> SUFFICES ASSUME NEW v \in Workers, wpc[v] = "exited"
             PROVE  /\ name'[v] = name[v]
                    /\ csock'[v] = csock[v]
                    /\ csock[v] \in Sessions /\ NamelessEnd(csock[v]) => NamelessEnd(csock[v])'
  BY DEF SparesTheLost
<1>1. v # w
  BY DEF Worker, WorkerStep, Lock, Accept, Unlock, RecvHeader, RecvName, Access, Prompt, Remove,
     Open, OpenFails, RecvData, SaveComplete, SendAck, Shutdown, LoopCheck
<1>2. name'[v] = name[v] /\ csock'[v] = csock[v] /\ UNCHANGED link
  BY <1>1, WorkerLocal
<1>3. ASSUME csock[v] \in Sessions
      PROVE  rcvd'[csock[v]] = rcvd[csock[v]]
  <2>1. srvEnd[csock[v]] = "closed"
    BY <1>3, SessionsAssumption DEF Worker, CauseInv, ClosedHasACause
  <2>2. wpc[w] \in Serving => csock[w] # csock[v]
    BY <2>1 DEF Worker, ConnInv, OneReader
  <2> QED BY <1>3, <2>2, WorkerLocal
<1> QED BY <1>2, <1>3 DEF NamelessEnd

-----------------------------------------------------------------------------
(* The steps of a worker *)

\* From one step of run() to the next, with the same connection.
LEMMA Advance ==
  ASSUME Typed, CauseInv, NEW w \in Workers, NEW step,
         wpc[w] # "exited", step # "exited", wpc' = [wpc EXCEPT ![w] = step],
         step \in {"unborn", "lock", "accept", "check"} => csock[w] = NoSession,
         step \in {"ack", "shutdown"} => csock[w] \in saved',
         saved \subseteq saved',
         UNCHANGED <<server, brk, csock, srvEnd, link, ackd, cpc>>, SparesTheLost
  PROVE  CauseInv'
<1>1. \A v \in Workers : (wpc'[v] = "exited" <=> wpc[v] = "exited") /\ (v # w => wpc'[v] = wpc[v])
  BY DEF Typed
<1>2. wpc'[w] = step
  BY DEF Typed
<1>3. Unanswered' /\ NobodyYet'
  BY DEF CauseInv, Unanswered, NobodyYet
<1>4. Unattached' /\ SavedAtTheEnd'
  BY <1>1, <1>2 DEF CauseInv, Unattached, SavedAtTheEnd
<1>5. ClosedHasACause' /\ SuccessHasACause' /\ LostWorkerHasACause'
  BY <1>1 DEF CauseInv, ClosedHasACause, LostOver, SuccessHasACause, LostWorkerHasACause,
     SparesTheLost
<1> QED BY <1>3, <1>4, <1>5 DEF CauseInv

\* A worker is lost over its connection, for one of the causes there are.
LEMMA LeaveCause ==
  ASSUME Typed, CauseInv, ConnInv, NEW w \in Workers, server = "listening",
         wpc[w] \in Serving, Leave(w), UNCHANGED clientVars,
         SparesTheLost,
         IF name[w] = NoName THEN NamelessEnd(csock[w])
                             ELSE Faults \cap {"refuse", "createfail"} # {}
  PROVE  CauseInv'
<1> DEFINE s == csock[w]
<1>1. /\ s \in Sessions /\ srvEnd[s] = "served"
      /\ wpc' = [wpc EXCEPT ![w] = "exited"] /\ srvEnd' = [srvEnd EXCEPT ![s] = "closed"]
      /\ UNCHANGED <<server, brk, csock, name, saved, link, rcvd, ackd, cpc>>
  BY DEF Typed, ConnInv, OneReader, Leave, Goto, locals, disk, clientVars
<1>2. /\ wpc'[w] = "exited" /\ \A v \in Workers \ {w} : wpc'[v] = wpc[v]
      /\ srvEnd'[s] = "closed" /\ \A t \in Sessions \ {s} : srvEnd'[t] = srvEnd[t]
  BY <1>1 DEF Typed
<1>3. \A v \in Workers : wpc[v] = "exited" => csock[v] # s
  BY <1>1 DEF CauseInv, ClosedHasACause, Typed
<1>4. Unanswered' /\ NobodyYet'
  BY <1>1 DEF CauseInv, Unanswered, NobodyYet
<1>5. Unattached' /\ SavedAtTheEnd'
  BY <1>1, <1>2 DEF CauseInv, Unattached, SavedAtTheEnd
<1>6. \A t \in Sessions : LostOver(t) => LostOver(t)'
  BY <1>1, <1>2 DEF LostOver
<1>7. LostOver(s)'
  BY <1>1, <1>2 DEF LostOver
<1>8. ClosedHasACause'
  BY <1>1, <1>2, <1>6, <1>7 DEF CauseInv, ClosedHasACause, Typed
<1>9. SuccessHasACause'
  BY <1>1, <1>6 DEF CauseInv, SuccessHasACause, LostOver
<1>10. LostWorkerHasACause'
  BY <1>1, <1>2, <1>3 DEF CauseInv, LostWorkerHasACause, SparesTheLost, NamelessEnd
<1> QED BY <1>4, <1>5, <1>8, <1>9, <1>10 DEF CauseInv

\* The worker lets its connection go, closed or not, and goes on without one.
LEMMA DropCause ==
  ASSUME Typed, CauseInv, ConnInv, NEW w \in Workers, server = "listening",
         wpc[w] \in Serving, NEW e \in {"closed", "leaked"},
         e = "closed" => csock[w] \in saved,
         wpc' = [wpc EXCEPT ![w] = "check"],
         srvEnd' = [srvEnd EXCEPT ![csock[w]] = e],
         csock' = [csock EXCEPT ![w] = NoSession],
         UNCHANGED <<server, brk, saved, link, ackd, cpc>>, SparesTheLost
  PROVE  CauseInv'
<1> DEFINE s == csock[w]
<1>1. s \in Sessions /\ srvEnd[s] = "served"
  BY DEF Typed, ConnInv, OneReader
<1>2. /\ wpc'[w] = "check" /\ csock'[w] = NoSession
      /\ \A v \in Workers \ {w} : wpc'[v] = wpc[v] /\ csock'[v] = csock[v]
      /\ srvEnd'[s] = e /\ \A t \in Sessions \ {s} : srvEnd'[t] = srvEnd[t]
  BY <1>1 DEF Typed
<1>3. \A v \in Workers : wpc[v] = "exited" => csock[v] # s /\ v # w
  BY <1>1 DEF CauseInv, ClosedHasACause, Typed, Serving
<1>4. Unanswered' /\ NobodyYet'
  BY DEF CauseInv, Unanswered, NobodyYet
<1>5. Unattached' /\ SavedAtTheEnd'
  BY <1>2 DEF CauseInv, Unattached, SavedAtTheEnd
<1>6. \A t \in Sessions : LostOver(t) <=> LostOver(t)'
  BY <1>2, <1>3 DEF LostOver
<1>7. ClosedHasACause'
  BY <1>2, <1>3, <1>6 DEF CauseInv, ClosedHasACause, Typed
<1>8. SuccessHasACause'
  BY <1>6 DEF CauseInv, SuccessHasACause, LostOver
<1>9. LostWorkerHasACause'
  BY <1>2, <1>3 DEF CauseInv, LostWorkerHasACause, SparesTheLost
<1> QED BY <1>4, <1>5, <1>7, <1>8, <1>9 DEF CauseInv

LEMMA AcceptCause ==
  ASSUME Typed, CauseInv, ConnInv, NEW w \in Workers, server = "listening", Accept(w),
         UNCHANGED clientVars, SparesTheLost
  PROVE  CauseInv'
<1> DEFINE s == Head(backlog)
<1>1. /\ s \in Sessions /\ srvEnd[s] = "queued" /\ wpc[w] = "accept"
      /\ wpc' = [wpc EXCEPT ![w] = "unlock"] /\ srvEnd' = [srvEnd EXCEPT ![s] = "served"]
      /\ csock' = [csock EXCEPT ![w] = s]
      /\ UNCHANGED <<server, brk, saved, link, ackd, cpc>>
  <2>1. s = backlog[1] /\ 1 \in 1 .. Len(backlog) /\ s \in Sessions
    BY DEF Typed, Accept
  <2> QED BY <2>1 DEF ConnInv, OneReader, Accept, Goto, disk, clientVars
<1>2. /\ wpc'[w] = "unlock" /\ csock'[w] = s
      /\ \A v \in Workers \ {w} : wpc'[v] = wpc[v] /\ csock'[v] = csock[v]
      /\ srvEnd'[s] = "served" /\ \A t \in Sessions \ {s} : srvEnd'[t] = srvEnd[t]
  BY <1>1 DEF Typed
<1>3. \A v \in Workers : wpc[v] = "exited" => csock[v] # s /\ v # w
  BY <1>1 DEF CauseInv, ClosedHasACause, Typed
<1>4. Unanswered' /\ NobodyYet'
  BY <1>1 DEF CauseInv, Unanswered, NobodyYet
<1>5. Unattached' /\ SavedAtTheEnd'
  BY <1>1, <1>2 DEF CauseInv, Unattached, SavedAtTheEnd
<1>6. \A t \in Sessions : LostOver(t) <=> LostOver(t)'
  BY <1>2, <1>3 DEF LostOver
<1>7. ClosedHasACause'
  BY <1>1, <1>2, <1>3, <1>6 DEF CauseInv, ClosedHasACause, Typed
<1>8. SuccessHasACause'
  BY <1>1, <1>6 DEF CauseInv, SuccessHasACause, LostOver
<1>9. LostWorkerHasACause'
  BY <1>1, <1>2, <1>3 DEF CauseInv, LostWorkerHasACause, SparesTheLost
<1> QED BY <1>4, <1>5, <1>7, <1>8, <1>9 DEF CauseInv

\* The break flag is the only other way out of run().
LEMMA LoopCheckCause ==
  ASSUME Typed, CauseInv, NEW w \in Workers, LoopCheck(w), UNCHANGED clientVars,
         SparesTheLost
  PROVE  CauseInv'
<1>1. /\ wpc[w] = "check" /\ csock[w] = NoSession
      /\ UNCHANGED <<server, brk, csock, saved, srvEnd, link, ackd, cpc>>
  BY DEF CauseInv, Unattached, LoopCheck, locals, disk, wireVars, clientVars
<1>2. CASE ~brk
  BY <1>1, <1>2, Advance DEF LoopCheck, Goto
<1>3. CASE brk
  <2>1. wpc'[w] = "exited" /\ \A v \in Workers \ {w} : wpc'[v] = wpc[v]
    BY <1>3 DEF LoopCheck, Goto, Typed
  <2>2. Unanswered' /\ NobodyYet'
    BY <1>1 DEF CauseInv, Unanswered, NobodyYet
  <2>3. Unattached' /\ SavedAtTheEnd'
    BY <1>1, <2>1 DEF CauseInv, Unattached, SavedAtTheEnd
  <2>4. \A t \in Sessions : LostOver(t) <=> LostOver(t)'
    BY <1>1, <2>1 DEF LostOver, Typed
  <2>5. ClosedHasACause'
    BY <1>1, <2>1, <2>4 DEF CauseInv, ClosedHasACause
  <2>6. SuccessHasACause'
    BY <1>1, <2>4 DEF CauseInv, SuccessHasACause, LostOver
  <2>7. LostWorkerHasACause'
    BY <1>1, <1>3, <2>1 DEF CauseInv, LostWorkerHasACause, SparesTheLost
  <2> QED BY <2>2, <2>3, <2>5, <2>6, <2>7 DEF CauseInv
<1> QED BY <1>2, <1>3

LEMMA HeaderCause ==
  ASSUME Typed, CauseInv, ConnInv, NEW w \in Workers, server = "listening", RecvHeader(w),
         UNCHANGED clientVars, SparesTheLost
  PROVE  CauseInv'
<1>1. /\ wpc[w] = "header" /\ wpc[w] \in Serving
      /\ UNCHANGED <<server, brk, saved, link, ackd, cpc>>
  BY DEF RecvHeader, Serving, disk, clientVars
<1>2. PICK k \in 0 .. HdrLen, r \in -2 .. HdrLen : HeaderTurn(w, k, r)
  BY DEF RecvHeader
<1>3. CASE UNCHANGED <<wpc, csock, srvEnd>>
  <2>1. wpc' = [wpc EXCEPT ![w] = "header"]
    BY <1>1, <1>3 DEF Typed
  <2> QED BY <1>1, <1>3, <2>1, Advance
<1>4. CASE Goto(w, "name") /\ UNCHANGED <<csock, srvEnd>>
  BY <1>1, <1>4, Advance DEF Goto
<1>5. CASE /\ Goto(w, "check")
           /\ srvEnd' = [srvEnd EXCEPT ![csock[w]] = "leaked"]
           /\ csock' = [csock EXCEPT ![w] = NoSession]
  BY <1>1, <1>5, DropCause DEF Goto
<1> QED BY <1>2, <1>3, <1>4, <1>5 DEF HeaderTurn

\* An empty name at the open was cut short.
LEMMA OpenFailsCause ==
  ASSUME TypeInv, CauseInv, ConnInv, StreamInv, NEW w \in Workers, server = "listening",
         OpenFails(w), UNCHANGED clientVars, SparesTheLost
  PROVE  CauseInv'
<1>1. /\ Typed /\ wpc[w] \in {"overwrite", "open"} /\ wpc[w] \in Serving
      /\ Leave(w) /\ csock[w] \in Sessions
  BY TypesTyped DEF OpenFails, Serving, Typed
<1>2. CASE name[w] # NoName
  BY <1>1, <1>2, LeaveCause DEF OpenFails
<1>3. CASE name[w] = NoName
  <2>1. Named(w, csock[w])
    BY <1>1 DEF StreamInv, Stream, StreamAt
  <2>2. Dead(csock[w]) /\ rcvd[csock[w]] < HdrName(csock[w])
    BY <1>1, <1>3, <2>1, NameAssumption DEF Named
  <2>3. NamelessEnd(csock[w])
    BY <2>2 DEF Dead, HdrName, NamelessEnd
  <2> QED BY <1>1, <1>3, <2>3, LeaveCause
<1> QED BY <1>2, <1>3

LEMMA WorkerCause ==
  ASSUME TypeInv, CauseInv, ConnInv, StreamInv, NEW w \in Workers, Worker(w),
         UNCHANGED clientVars
  PROVE  CauseInv'
<1>1. Typed /\ server = "listening" /\ WorkerStep(w) /\ SparesTheLost
  BY TypesTyped, WorkerSparesTheLost DEF Worker
<1>2. UNCHANGED cpc
  BY DEF clientVars
<1> USE DEF Goto, locals, disk, wireVars
<1>3. CASE Lock(w)
  <2>1. csock[w] = NoSession
    BY <1>3 DEF Lock, CauseInv, Unattached
  <2> QED BY <1>1, <1>2, <1>3, <2>1, Advance DEF Lock
<1>4. CASE Unlock(w)
  BY <1>1, <1>2, <1>4, Advance DEF Unlock
<1>5. CASE RecvName(w)
  <2>1. /\ wpc[w] = "name" /\ UNCHANGED <<server, brk, csock, saved, srvEnd, link, ackd, cpc>>
        /\ UNCHANGED wpc \/ wpc' = [wpc EXCEPT ![w] = "access"]
    BY <1>2, <1>5 DEF RecvName, NameTurn
  <2>2. wpc' = [wpc EXCEPT ![w] = "name"] \/ wpc' = [wpc EXCEPT ![w] = "access"]
    BY <1>1, <2>1 DEF Typed
  <2> QED BY <1>1, <2>1, <2>2, Advance
<1>6. CASE Access(w)
  BY <1>1, <1>2, <1>6, Advance DEF Access
<1>7. CASE Prompt(w)
  <2>1. CASE Leave(w) /\ "refuse" \in Faults /\ wpc[w] = "prompt"
    <3>1. name[w] # NoName
      BY <2>1, ServerAssumption DEF TypeInv, LocalsOK
    <3> QED BY <1>1, <2>1, <3>1, LeaveCause DEF Serving
  <2>2. CASE /\ wpc[w] = "prompt" /\ wpc' = [wpc EXCEPT ![w] = "remove"]
             /\ UNCHANGED <<server, brk, mtx, locals, disk, wireVars>>
    BY <1>1, <1>2, <2>2, Advance
  <2> QED BY <1>7, <2>1, <2>2 DEF Prompt
<1>8. CASE Remove(w)
  BY <1>1, <1>2, <1>8, Advance DEF Remove
<1>9. CASE Open(w)
  BY <1>1, <1>2, <1>9, Advance DEF Open
<1>10. CASE RecvData(w)
  <2>1. wpc[w] = "data" /\ UNCHANGED <<server, brk, wpc, csock, saved, srvEnd, link, ackd, cpc>>
    BY <1>2, <1>10 DEF RecvData
  <2>2. wpc' = [wpc EXCEPT ![w] = "data"]
    BY <1>1, <2>1 DEF Typed
  <2> QED BY <1>1, <2>1, <2>2, Advance
<1>11. CASE SaveComplete(w)
  BY <1>1, <1>2, <1>11, Advance DEF SaveComplete
<1>12. CASE SendAck(w)
  <2>1. ackd' = ackd
    BY <1>1, <1>12 DEF SendAck, SendBytes, Typed
  <2>2. csock[w] \in saved
    BY <1>12 DEF SendAck, CauseInv, SavedAtTheEnd
  <2> QED BY <1>1, <1>2, <1>12, <2>1, <2>2, Advance DEF SendAck
<1>13. CASE Shutdown(w)
  <2>1. csock[w] \in saved /\ wpc[w] \in Serving
    BY <1>13 DEF Shutdown, CauseInv, SavedAtTheEnd, Serving
  <2> QED BY <1>1, <1>2, <1>13, <2>1, DropCause DEF Shutdown
<1> QED
  BY <1>1, <1>3, <1>4, <1>5, <1>6, <1>7, <1>8, <1>9, <1>10, <1>11, <1>12, <1>13,
     AcceptCause, HeaderCause, OpenFailsCause, LoopCheckCause DEF WorkerStep

-----------------------------------------------------------------------------
(* The process and the clients *)

LEMMA SpawnCause ==
  ASSUME Typed, CauseInv, NEW w \in Workers, Spawn(w), UNCHANGED clientVars
  PROVE  CauseInv'
<1>1. csock[w] = NoSession /\ wpc[w] = "unborn"
  BY DEF Spawn, CauseInv, Unattached
<1>2. SparesTheLost
  BY DEF Spawn, SparesTheLost, NamelessEnd, locals, wireVars
<1> QED BY <1>1, <1>2, Advance DEF Spawn, Goto, locals, disk, wireVars, clientVars

LEMMA ProcessCause ==
  ASSUME Typed, CauseInv, ConnInv, Listen \/ ListenFails \/ JoinAll \/ Break, UNCHANGED clientVars
  PROVE  CauseInv'
<1>1. /\ UNCHANGED <<wpc, csock, name, saved, link, rcvd, ackd, cpc>>
      /\ brk => brk'
      /\ server' # "down"
      /\ server' # "listening" \/ UNCHANGED srvEnd
  BY DEF Listen, ListenFails, JoinAll, Break, locals, disk, wireVars, clientVars
<1>2. server' = "listening" =>
         server = "listening" \/ (server = "down" /\ \A w \in Workers : wpc[w] = "unborn")
  BY DEF Listen, ListenFails, JoinAll, Break, ConnInv, UnbornBefore
<1>3. Unattached' /\ Unanswered' /\ SavedAtTheEnd' /\ NobodyYet'
  BY <1>1 DEF CauseInv, Unattached, Unanswered, SavedAtTheEnd, NobodyYet
<1>4. ClosedHasACause' /\ SuccessHasACause'
  BY <1>1, <1>2 DEF CauseInv, NobodyYet, ClosedHasACause, LostOver, SuccessHasACause
<1>5. LostWorkerHasACause'
  BY <1>1 DEF CauseInv, LostWorkerHasACause, NamelessEnd
<1> QED BY <1>3, <1>4, <1>5 DEF CauseInv

LEMMA ClientCause ==
  ASSUME Typed, CauseInv, ConnInv, StreamInv, NEW s \in Sessions, ClientStep(s)
  PROVE  CauseInv'
<1>1. UNCHANGED <<server, brk, wpc, csock, name, saved, rcvd, ackd>>
  BY DEF ClientStep, ClientProgram, Connect, OpenFile, OpenFileFails, Send, SendOver, RecvAck,
     Quit, Disconnect, GiveUp, serverVars, wireVars
<1>2. \A t \in Sessions : srvEnd'[t] = srvEnd[t]
                          \/ (srvEnd[t] = "none" /\ srvEnd'[t] = "queued" /\ server = "listening")
  BY DEF ClientStep, ClientProgram, Connect, OpenFile, OpenFileFails, Send, SendOver, RecvAck,
     Quit, Disconnect, GiveUp, serverVars, wireVars, Typed, ConnInv, IdleUnheld
<1>3. \A t \in Sessions :
         /\ link[t] \in {"fin", "reset"} => link'[t] = link[t]
         /\ server = "down" /\ link[t] = "none" => link'[t] = link[t]
  BY DEF ClientStep, ClientProgram, Connect, OpenFile, OpenFileFails, Send, SendOver, RecvAck,
     Quit, Disconnect, Hangup, GiveUp, wireVars, Typed, StreamInv, Unlinked
<1>4. \A t \in Sessions : cpc'[t] = "done" =>
         /\ link'[t] = link[t]
         /\ cpc[t] = "done" \/ ackd[t] >= 4 \/ srvEnd[t] = "closed" \/ link[t] \in {"reset", "cut"}
  BY DEF ClientStep, ClientProgram, Connect, OpenFile, OpenFileFails, Send, SendOver, RecvAck,
     Quit, Disconnect, Hangup, Connected, GiveUp, Broken, ClientGoto, clientVars, wireVars, Typed
<1>5. Unattached' /\ Unanswered' /\ SavedAtTheEnd'
  BY <1>1 DEF CauseInv, Unattached, Unanswered, SavedAtTheEnd
<1>6. \A w \in Workers : csock[w] \in Sessions /\ NamelessEnd(csock[w]) => NamelessEnd(csock[w])'
  BY <1>1, <1>3 DEF NamelessEnd
<1>7. LostWorkerHasACause'
  BY <1>1, <1>6 DEF CauseInv, LostWorkerHasACause
<1>8. \A t \in Sessions : cpc'[t] = "done" =>
         /\ link'[t] = link[t]
         /\ cpc[t] = "done" \/ srvEnd[t] = "closed" \/ link[t] \in {"reset", "cut"}
  BY <1>4 DEF CauseInv, Unanswered
<1>9. NobodyYet'
  BY <1>1, <1>2, <1>3, <1>8 DEF CauseInv, NobodyYet
<1>10. ClosedHasACause'
  BY <1>1, <1>2 DEF CauseInv, ClosedHasACause, LostOver, Typed
<1>11. SuccessHasACause'
  BY <1>1, <1>8 DEF CauseInv, ClosedHasACause, LostOver, SuccessHasACause
<1> QED BY <1>5, <1>7, <1>9, <1>10, <1>11 DEF CauseInv

LEMMA CauseStep == TypeInv /\ ConnInv /\ StreamInv /\ CauseInv /\ [Next]_vars => CauseInv'
<1> SUFFICES ASSUME TypeInv, ConnInv, StreamInv, CauseInv, [Next]_vars PROVE CauseInv'
  OBVIOUS
<1>1. Typed
  BY TypesTyped
<1>2. CASE UNCHANGED vars
  BY <1>2 DEF vars, wireVars, serverVars, clientVars, CauseInv, Unattached, Unanswered,
     SavedAtTheEnd, NobodyYet, ClosedHasACause, LostOver, SuccessHasACause, LostWorkerHasACause,
     NamelessEnd
<1>3. CASE ServerNext /\ UNCHANGED clientVars
  BY <1>1, <1>3, WorkerCause, SpawnCause, ProcessCause DEF ServerNext
<1>4. CASE ClientNext
  BY <1>1, <1>4, ClientCause DEF ClientNext
<1> QED BY <1>2, <1>3, <1>4 DEF Next

LEMMA AlwaysCaused == Spec => []CauseInv
  BY CauseInit, CauseStep, Invariance, PTL DEF Spec

\* While the server runs, a client that reports success (transmission_client.cpp:114)
\* has its file saved, or its connection was closed by a worker that left run()
\* over it, reset or cut off: only a lost connection or a lost worker makes the
\* message untrue, since nothing else lets the client past its recv.
THEOREM SuccessIsNoAccident == Spec => []SuccessHasACause
<1>1. CauseInv => SuccessHasACause
  BY DEF CauseInv
<1> QED BY <1>1, AlwaysCaused, PTL

\* A worker ends before Ctrl-Break only over a session, each session costs at most
\* one, and unless the operator refuses or the file cannot be created it was one
\* whose connection ended, by a FIN or a reset, before its name was there; no other
\* end of a connection reaches a return (transmission_server.cpp:96-138).
THEOREM OneWorkerPerFault == Spec => []LostWorkerHasACause
<1>1. CauseInv => LostWorkerHasACause
  BY DEF CauseInv
<1> QED BY <1>1, AlwaysCaused, PTL

-----------------------------------------------------------------------------
(* The files of the server *)

\* The steps at which a worker has opened its file.
Opened == {"data", "ack", "shutdown"}

\* Only a session whose worker has opened file n under that name can be the one
\* that created n.
CreatedByOpen ==
    \A n \in Names : \A s \in Sessions :
        file[n].by = s =>
            /\ srvEnd[s] \notin {"none", "queued"}
            /\ \A w \in Workers :
                  wpc[w] \in Serving /\ csock[w] = s => wpc[w] \in Opened /\ name[w] = n

\* A saved session does not come back to the data loop.
SavedOnce ==
    \A s \in saved :
        /\ srvEnd[s] \notin {"none", "queued"}
        /\ \A w \in Workers :
              wpc[w] \in Serving /\ csock[w] = s => wpc[w] \in {"ack", "shutdown"}

\* Who writes a file that was opened alone is who opened it.
WrittenByCreator ==
    \A n \in Names : \A w \in Workers :
        Writing(w, n) /\ file[n].alone => file[n].by = csock[w]

Bytes(s, n) == [i \in 1 .. n |-> s]

\* In the data loop the file holds all the session's bytes but bytes_left; or
\* the stream is broken, and then the loop does not end.
Partial(w) ==
    LET s == csock[w] IN
    \/ left[w] <= DataLen[s] /\ file[name[w]].bytes = Bytes(s, DataLen[s] - left[w])
    \/ Dead(s) /\ left[w] > 0 /\ got[w] = 0

Growing ==
    \A w \in Workers :
        wpc[w] = "data" /\ file[name[w]].by = csock[w] /\ file[name[w]].alone => Partial(w)

ContentInv ==
    CreatedByOpen /\ SavedOnce /\ WrittenByCreator /\ Growing /\ ContentIntegrity

LEMMA ContentInit == Init => ContentInv
BY SessionsAssumption DEF Init, ServerInit, ContentInv, CreatedByOpen, SavedOnce,
   WrittenByCreator, Growing, ContentIntegrity, Writing, Serving, Absent, Foreign

-----------------------------------------------------------------------------
(* Steps that write no file *)

\* A file stays as it was; or it is removed, and no one was writing it.
KeptOrRemoved(n) ==
    \/ file'[n] = file[n]
    \/ file'[n] = Absent /\ \A v \in Workers : ~Writing(v, n)

\* The worker goes on with its session, or takes one that nobody has served.
GoesOn(v) ==
    wpc'[v] \in Serving =>
        \/ srvEnd[csock'[v]] \in {"none", "queued"} /\ csock'[v] \in Sessions
        \/ /\ wpc[v] \in Serving /\ csock'[v] = csock[v]
           /\ wpc[v] \in Opened => wpc'[v] \in Opened /\ name'[v] = name[v]
           /\ wpc[v] \in {"ack", "shutdown"} => wpc'[v] \in {"ack", "shutdown"}

\* It does not come to the data loop, nor move in it.
StaysInLoop(v) ==
    wpc'[v] = "data" =>
        /\ wpc[v] = "data" /\ csock'[v] = csock[v] /\ name'[v] = name[v]
        /\ left'[v] = left[v] /\ got'[v] = got[v]
        /\ Dead(csock[v]) => Dead(csock[v])'

LEMMA NothingWritten ==
    ASSUME TypeInv, ContentInv, UNCHANGED saved,
           \A n \in Names : KeptOrRemoved(n),
           \A t \in Sessions :
               srvEnd'[t] \in {"none", "queued"} => srvEnd[t] \in {"none", "queued"},
           \A v \in Workers : GoesOn(v) /\ StaysInLoop(v)
    PROVE  ContentInv'
<1>1. /\ NoSession \notin Sessions /\ saved \subseteq Sessions
      /\ \A w \in Workers : wpc[w] \in Serving => csock[w] \in Sessions
      /\ \A w \in Workers : wpc[w] = "data" => name[w] \in Names /\ csock[w] \in Sessions
  BY SessionsAssumption DEF TypeInv, TypeOK, ServerTypeOK, LocalsOK, Serving
<1>2. \A n \in Names : \A s \in Sessions : file'[n].by = s => file'[n] = file[n]
  BY <1>1 DEF KeptOrRemoved, Absent
<1>3. CreatedByOpen'
  <2> SUFFICES ASSUME NEW n \in Names, NEW s \in Sessions, file'[n].by = s
               PROVE  /\ srvEnd'[s] \notin {"none", "queued"}
                      /\ \A w \in Workers :
                            wpc'[w] \in Serving /\ csock'[w] = s
                               => wpc'[w] \in Opened /\ name'[w] = n
    BY DEF CreatedByOpen, Opened, Serving
  <2>1. /\ srvEnd[s] \notin {"none", "queued"}
        /\ \A w \in Workers :
              wpc[w] \in Serving /\ csock[w] = s => wpc[w] \in Opened /\ name[w] = n
    BY <1>2 DEF ContentInv, CreatedByOpen
  <2> QED
    BY <2>1 DEF GoesOn
<1>4. SavedOnce'
  <2> SUFFICES ASSUME NEW s \in saved
               PROVE  /\ srvEnd'[s] \notin {"none", "queued"}
                      /\ \A w \in Workers :
                            wpc'[w] \in Serving /\ csock'[w] = s
                               => wpc'[w] \in {"ack", "shutdown"}
    BY DEF SavedOnce, Serving
  <2>1. /\ srvEnd[s] \notin {"none", "queued"} /\ s \in Sessions
        /\ \A w \in Workers :
              wpc[w] \in Serving /\ csock[w] = s => wpc[w] \in {"ack", "shutdown"}
    BY <1>1 DEF ContentInv, SavedOnce
  <2> QED
    BY <2>1 DEF GoesOn
<1>5. WrittenByCreator'
  <2> SUFFICES ASSUME NEW n \in Names, NEW w \in Workers, Writing(w, n)', file'[n].alone
               PROVE  file'[n].by = csock'[w]
    BY DEF WrittenByCreator
  <2>1. Writing(w, n) /\ csock'[w] = csock[w]
    BY DEF Writing, StaysInLoop
  <2> QED
    BY <2>1 DEF KeptOrRemoved, ContentInv, WrittenByCreator
<1>6. Growing'
  <2> SUFFICES ASSUME NEW w \in Workers, wpc'[w] = "data",
                      file'[name'[w]].by = csock'[w], file'[name'[w]].alone
               PROVE  Partial(w)'
    BY DEF Growing
  <2>1. /\ wpc[w] = "data" /\ csock'[w] = csock[w] /\ name'[w] = name[w]
        /\ left'[w] = left[w] /\ got'[w] = got[w]
        /\ Dead(csock[w]) => Dead(csock[w])'
    BY DEF StaysInLoop
  <2>2. file'[name[w]] = file[name[w]]
    BY <1>1, <1>2, <2>1
  <2>3. Partial(w)
    BY <2>1, <2>2 DEF ContentInv, Growing
  <2>4. PICK s \in Sessions : s = csock[w]
    BY <1>1, <2>1
  <2>5. Dead(s) => Dead(s)'
    BY <2>1, <2>4 DEF Dead
  <2>6. \/ left[w] <= DataLen[s] /\ file[name[w]].bytes = Bytes(s, DataLen[s] - left[w])
        \/ Dead(s) /\ left[w] > 0 /\ got[w] = 0
    BY <2>3, <2>4 DEF Partial
  <2>7. csock'[w] = s
    BY <2>1, <2>4
  <2>8. \/ left'[w] <= DataLen[s] /\ file'[name'[w]].bytes = Bytes(s, DataLen[s] - left'[w])
        \/ Dead(s)' /\ left'[w] > 0 /\ got'[w] = 0
    BY <2>1, <2>2, <2>5, <2>6
  <2> QED
    BY <2>7, <2>8 DEF Partial, Dead, Bytes
<1>7. ContentIntegrity'
  BY <1>1, <1>2 DEF ContentInv, ContentIntegrity
<1> QED
  BY <1>3, <1>4, <1>5, <1>6, <1>7 DEF ContentInv

\* A worker's step as the other workers see it.
LEMMA OthersGoOn ==
    ASSUME TypeInv, ConnInv, StreamInv, NEW w \in Workers, Worker(w), UNCHANGED clientVars
    PROVE  /\ \A t \in Sessions :
                 srvEnd'[t] \in {"none", "queued"} => srvEnd[t] \in {"none", "queued"}
           /\ \A v \in Workers \ {w} : GoesOn(v) /\ StaysInLoop(v)
<1>1. /\ srvEnd \in [Sessions -> SrvStates] /\ backlog \in Seq(Sessions)
      /\ \A v \in Workers : wpc[v] \in Serving => csock[v] \in Sessions
  BY DEF TypeInv, TypeOK, WireTypeOK, LocalsOK
<1>2. \A t \in Sessions :
         srvEnd'[t] \in {"none", "queued"} => srvEnd[t] \in {"none", "queued"}
  BY <1>1, WorkerOnConnections DEF Accept
<1>3. ASSUME NEW v \in Workers \ {w} PROVE GoesOn(v) /\ StaysInLoop(v)
  <2>1. /\ wpc'[v] = wpc[v] /\ csock'[v] = csock[v] /\ got'[v] = got[v]
        /\ name'[v] = name[v] /\ left'[v] = left[v]
        /\ UNCHANGED <<link, cpc>>
    BY <1>3, WorkerLocal DEF StreamInv
  <2>2. ASSUME wpc[v] = "data" PROVE Dead(csock[v]) => Dead(csock[v])'
    <3>1. wpc[w] \in Serving => csock[w] # csock[v]
      BY <1>3, <2>2 DEF ConnInv, OneReader, Serving
    <3>2. csock[v] \in Sessions
      BY <1>1, <2>2 DEF Serving
    <3>3. sent'[csock[v]] = sent[csock[v]] /\ rcvd'[csock[v]] = rcvd[csock[v]]
      BY <3>1, <3>2, WorkerLocal DEF StreamInv
    <3> QED
      BY <2>1, <3>3 DEF Dead
  <2> QED
    BY <2>1, <2>2 DEF GoesOn, StaysInLoop
<1> QED
  BY <1>2, <1>3

\* The steps of run() that leave the directory alone, and remove().
LEMMA QuietStep ==
    ASSUME TypeInv, ConnInv, StreamInv, ContentInv, NEW w \in Workers, Worker(w),
           UNCHANGED clientVars, ~Open(w), ~RecvData(w), ~SaveComplete(w)
    PROVE  ContentInv'
<1>1. /\ wpc \in [Workers -> Steps] /\ csock \in [Workers -> Sessions \cup {NoSession}]
      /\ file \in [Names -> FileType] /\ backlog \in Seq(Sessions)
      /\ server = "listening" /\ WorkerStep(w)
      /\ wpc[w] \in {"prompt", "remove", "overwrite", "data"} => name[w] \in Names
  BY DEF Worker, TypeInv, TypeOK, WireTypeOK, ServerTypeOK, LocalsOK
<1> USE DEF Goto, wireVars, locals, disk
<1>2. UNCHANGED saved /\ \A n \in Names : KeptOrRemoved(n)
  <2>1. CASE Remove(w)
    BY <1>1, <2>1 DEF Remove, KeptOrRemoved
  <2>2. CASE ~Remove(w)
    <3>1. UNCHANGED <<saved, file>>
      BY <1>1, <2>2 DEF WorkerStep, Lock, Accept, Unlock, RecvHeader, RecvName, Access, Prompt,
         Leave, OpenFails, SendAck, Shutdown, LoopCheck
    <3> QED
      BY <3>1 DEF KeptOrRemoved
  <2> QED
    BY <2>1, <2>2
<1>3. GoesOn(w) /\ wpc'[w] # "data"
  <2> USE DEF Serving, Opened, Steps
  <2>1. CASE Lock(w) \/ Unlock(w) \/ Access(w) \/ Remove(w) \/ SendAck(w) \/ LoopCheck(w)
    BY <1>1, <2>1 DEF Lock, Unlock, Access, Remove, SendAck, LoopCheck, GoesOn
  <2>2. CASE Accept(w)
    <3>1. /\ Head(backlog) \in Sessions /\ Head(backlog) = backlog[1] /\ 1 \in 1 .. Len(backlog)
          /\ csock'[w] = Head(backlog) /\ wpc'[w] = "unlock"
      BY <1>1, <2>2 DEF Accept
    <3>2. srvEnd[Head(backlog)] = "queued"
      BY <3>1 DEF ConnInv, OneReader
    <3> QED
      BY <3>1, <3>2 DEF GoesOn
  <2>3. CASE Prompt(w) \/ OpenFails(w) \/ Shutdown(w)
    BY <1>1, <2>3 DEF Prompt, OpenFails, Leave, Shutdown, GoesOn
  <2>4. CASE RecvHeader(w)
    <3>1. PICK k \in 0 .. HdrLen, r \in -2 .. HdrLen : HeaderTurn(w, k, r)
      BY <2>4 DEF RecvHeader
    <3>2. /\ wpc[w] = "header"
          /\ wpc'[w] = "check" \/ (wpc'[w] \in {"header", "name"} /\ csock'[w] = csock[w])
      BY <1>1, <2>4, <3>1 DEF RecvHeader, HeaderTurn
    <3> QED
      BY <3>2 DEF GoesOn
  <2>5. CASE RecvName(w)
    <3>1. PICK k \in 0 .. NameLen[csock[w]], r \in -2 .. NameLen[csock[w]] : NameTurn(w, k, r)
      BY <2>5 DEF RecvName
    <3>2. wpc[w] = "name" /\ wpc'[w] \in {"name", "access"} /\ csock'[w] = csock[w]
      BY <1>1, <2>5, <3>1 DEF RecvName, NameTurn
    <3> QED
      BY <3>2 DEF GoesOn
  <2> QED
    BY <1>1, <2>1, <2>2, <2>3, <2>4, <2>5 DEF WorkerStep
<1>4. \A v \in Workers : GoesOn(v) /\ StaysInLoop(v)
  BY <1>3, OthersGoOn DEF StaysInLoop
<1> QED
  BY <1>2, <1>4, OthersGoOn, NothingWritten

-----------------------------------------------------------------------------
(* of.open *)

LEMMA OpenStep ==
    ASSUME TypeInv, ConnInv, StreamInv, ContentInv, NEW w \in Workers, Worker(w),
           UNCHANGED clientVars, Open(w)
    PROVE  ContentInv'
<1> DEFINE n == name[w]
<1>1. /\ wpc \in [Workers -> Steps] /\ file \in [Names -> FileType]
      /\ n \in Names /\ server = "listening" /\ StreamAt(w)
      /\ wpc[w] \in {"overwrite", "open"}
      /\ \A v \in Workers : wpc[v] \in Serving => csock[v] \in Sessions
      /\ saved \subseteq Sessions
  BY DEF Worker, Open, TypeInv, TypeOK, WireTypeOK, ServerTypeOK, LocalsOK, StreamInv, Stream
<1>2. PICK s \in Sessions : s = csock[w]
  BY <1>1 DEF Serving
<1>3. /\ UNCHANGED <<csock, name, left, srvEnd, saved>>
      /\ wpc'[w] = "data" /\ \A v \in Workers \ {w} : wpc'[v] = wpc[v]
      /\ file'[n] = [there |-> TRUE, by |-> s, bytes |-> <<>>,
                     alone |-> \A v \in Workers : ~Writing(v, n)]
      /\ \A m \in Names \ {n} : file'[m] = file[m]
  BY <1>1, <1>2 DEF Open, Goto, locals, wireVars
\* Nobody else has the session, and it has neither opened nor saved a file yet.
<1>4. /\ srvEnd[s] = "served"
      /\ \A v \in Workers \ {w} : wpc[v] \in Serving => csock[v] # s
  BY <1>1, <1>2 DEF ConnInv, OneReader, Serving
<1>5. s \notin saved /\ \A m \in Names : file[m].by # s
  BY <1>1, <1>2 DEF ContentInv, CreatedByOpen, SavedOnce, Serving, Opened
<1>6. CreatedByOpen'
  <2> SUFFICES ASSUME NEW m \in Names, NEW t \in Sessions, file'[m].by = t
               PROVE  /\ srvEnd[t] \notin {"none", "queued"}
                      /\ \A v \in Workers :
                            wpc'[v] \in Serving /\ csock[v] = t
                               => wpc'[v] \in Opened /\ name[v] = m
    BY <1>3 DEF CreatedByOpen
  <2>1. CASE m = n
    BY <1>2, <1>3, <1>4, <2>1 DEF Opened
  <2>2. CASE m # n
    <3>1. file[m].by = t /\ t # s
      BY <1>3, <1>5, <2>2
    <3> QED
      BY <1>2, <1>3, <3>1 DEF ContentInv, CreatedByOpen
  <2> QED
    BY <2>1, <2>2
<1>7. SavedOnce'
  BY <1>2, <1>3, <1>5 DEF ContentInv, SavedOnce
<1>8. WrittenByCreator'
  <2> SUFFICES ASSUME NEW m \in Names, NEW v \in Workers, wpc'[v] = "data", name[v] = m,
                      file'[m].alone
               PROVE  file'[m].by = csock[v]
    BY <1>3 DEF WrittenByCreator, Writing
  <2>1. CASE v = w
    BY <1>2, <1>3, <2>1
  <2>2. CASE v # w
    <3>1. Writing(v, m)
      BY <1>3, <2>2 DEF Writing
    <3>2. m # n
      BY <1>3, <3>1
    <3> QED
      BY <1>3, <3>1, <3>2 DEF ContentInv, WrittenByCreator
  <2> QED
    BY <2>1, <2>2
<1>9. Growing'
  <2> SUFFICES ASSUME NEW v \in Workers, wpc'[v] = "data", file'[name[v]].by = csock[v],
                      file'[name[v]].alone
               PROVE  Partial(v)'
    BY <1>3 DEF Growing
  <2>1. CASE v = w
    <3>1. left[w] = DataLen[s] /\ DataLen[s] \in Nat
      BY <1>1, <1>2, FrameAssumption DEF StreamAt
    <3>2. Bytes(s, DataLen[s] - left[w]) = <<>>
      BY <3>1 DEF Bytes
    <3> QED
      BY <1>2, <1>3, <2>1, <3>1, <3>2 DEF Partial, Bytes
  <2>2. CASE v # w
    <3>1. wpc[v] = "data" /\ name[v] \in Names /\ csock[v] # s
      BY <1>3, <1>4, <2>2 DEF Serving, TypeInv, LocalsOK
    <3>2. name[v] # n /\ file'[name[v]] = file[name[v]]
      BY <1>3, <3>1
    <3>3. Partial(v)
      BY <3>1, <3>2 DEF ContentInv, Growing
    <3>4. UNCHANGED <<left, got, csock, name>> /\ (Dead(csock[v]) => Dead(csock[v])')
      BY <1>3 DEF Open, locals, wireVars, clientVars, Dead
    <3> QED
      BY <3>2, <3>3, <3>4 DEF Partial, Bytes, Dead
  <2> QED
    BY <2>1, <2>2
<1>10. ContentIntegrity'
  <2> SUFFICES ASSUME NEW t \in saved, NEW m \in Names, file'[m].by = t, file'[m].alone
               PROVE  file'[m].bytes = Bytes(t, DataLen[t])
    BY <1>3 DEF ContentIntegrity, Bytes
  <2>1. m # n /\ file'[m] = file[m]
    BY <1>3, <1>5
  <2> QED
    BY <2>1 DEF ContentInv, ContentIntegrity, Bytes
<1> QED
  BY <1>6, <1>7, <1>8, <1>9, <1>10 DEF ContentInv

-----------------------------------------------------------------------------
(* "save file complete" *)

LEMMA SaveStep ==
    ASSUME TypeInv, ConnInv, StreamInv, ContentInv, NEW w \in Workers, Worker(w),
           UNCHANGED clientVars, SaveComplete(w)
    PROVE  ContentInv'
<1>1. /\ wpc \in [Workers -> Steps] /\ left[w] = 0 /\ wpc[w] = "data"
      /\ server = "listening" /\ csock[w] \in Sessions
      /\ \A v \in Workers : wpc[v] = "data" => name[v] \in Names
  BY DEF Worker, SaveComplete, TypeInv, TypeOK, ServerTypeOK, LocalsOK, Serving
<1>2. PICK s \in Sessions : s = csock[w]
  BY <1>1
<1>3. /\ UNCHANGED <<locals, wireVars, file, cpc>>
      /\ wpc'[w] = "ack" /\ \A v \in Workers \ {w} : wpc'[v] = wpc[v]
      /\ saved' = saved \cup {s}
  BY <1>1, <1>2 DEF SaveComplete, Goto, clientVars
<1>4. /\ srvEnd[s] = "served"
      /\ \A v \in Workers \ {w} : wpc[v] \in Serving => csock[v] # s
  BY <1>1, <1>2 DEF ConnInv, OneReader, Serving
<1>5. CreatedByOpen'
  BY <1>1, <1>3 DEF ContentInv, CreatedByOpen, locals, wireVars, Serving, Opened
<1>6. SavedOnce'
  BY <1>2, <1>3, <1>4 DEF ContentInv, SavedOnce, locals, wireVars
<1>7. WrittenByCreator'
  BY <1>3 DEF ContentInv, WrittenByCreator, Writing, locals
<1>8. Growing'
  <2> SUFFICES ASSUME NEW v \in Workers, wpc'[v] = "data", file[name[v]].by = csock[v],
                      file[name[v]].alone
               PROVE  Partial(v)'
    BY <1>3 DEF Growing, locals
  <2>1. Partial(v)
    BY <1>3 DEF ContentInv, Growing
  <2> QED
    BY <1>3, <2>1 DEF Partial, Bytes, Dead, locals, wireVars
<1>9. ContentIntegrity'
  <2>1. ASSUME NEW n \in Names, file[n].by = s, file[n].alone
        PROVE  file[n].bytes = Bytes(s, DataLen[s])
    <3>1. name[w] = n
      BY <1>1, <1>2, <2>1 DEF ContentInv, CreatedByOpen, Serving
    <3>2. Partial(w)
      BY <1>1, <1>2, <2>1, <3>1 DEF ContentInv, Growing
    <3>3. file[n].bytes = Bytes(s, DataLen[s] - left[w])
      BY <1>1, <1>2, <3>1, <3>2 DEF Partial
    <3>4. DataLen[s] - left[w] = DataLen[s]
      BY <1>1, FrameAssumption
    <3> QED
      BY <3>3, <3>4
  <2> SUFFICES ASSUME NEW t \in saved \cup {s}, NEW m \in Names, file[m].by = t, file[m].alone
               PROVE  file[m].bytes = Bytes(t, DataLen[t])
    BY <1>3 DEF ContentIntegrity, Bytes
  <2>2. CASE t = s
    BY <2>1, <2>2
  <2>3. CASE t # s
    BY <2>3 DEF ContentInv, ContentIntegrity, Bytes
  <2> QED
    BY <2>2, <2>3
<1> QED
  BY <1>5, <1>6, <1>7, <1>8, <1>9 DEF ContentInv

-----------------------------------------------------------------------------
(* of.write *)

\* Bytes written where the file ends continue it.
LEMMA AppendBytes ==
    ASSUME NEW s \in Sessions, NEW off \in Nat, NEW n \in Nat
    PROVE  WriteBytes(Bytes(s, off), off, n, s) = Bytes(s, off + n)
<1>1. Len(Bytes(s, off)) = off
  BY DEF Bytes
<1>2. \A i \in 1 .. off + n : i \notin off + 1 .. off + n => i <= off /\ Bytes(s, off)[i] = s
  BY DEF Bytes
<1>3. off + n >= off /\ (off + n > off \/ off + n = off)
  OBVIOUS
<1> HIDE DEF Bytes
<1>4. WriteBytes(Bytes(s, off), off, n, s) = [i \in 1 .. off + n |-> s]
  BY <1>1, <1>2, <1>3 DEF WriteBytes
<1> QED
  BY <1>4 DEF Bytes

\* What a turn of the data loop makes of Partial, in a file that is the
\* worker's own.
LEMMA PartialTurn ==
    ASSUME TypeInv, StreamInv, NEW w \in Workers, wpc[w] = "data", left[w] > 0,
           NEW k \in 0 .. ChunkOf(left[w]), NEW r \in -2 .. ChunkOf(left[w]),
           DataTurn(w, k, r), UNCHANGED <<link, cpc, csock, name>>, Partial(w)
    PROVE  Partial(w)'
<1>1. /\ csock[w] \in Sessions /\ name[w] \in Names /\ file \in [Names -> FileType]
      /\ left \in [Workers -> Nat] /\ got \in [Workers -> Nat]
      /\ left[w] \in Nat /\ got[w] \in Nat
      /\ WireTypeOK
  BY DEF TypeInv, TypeOK, ServerTypeOK, LocalsOK, StreamInv, Serving
<1>2. PICK s \in Sessions : s = csock[w]
  BY <1>1
<1>3. /\ DataLen[s] \in Nat
      /\ ChunkOf(left[w]) \in Nat /\ ChunkOf(left[w]) <= left[w]
  BY <1>1, FrameAssumption, ServerAssumption DEF ChunkOf
<1>4. \/ /\ ~Dead(s) /\ got[w] < k
         /\ (r = Again /\ k < ChunkOf(left[w])) \/ (r = k /\ k = ChunkOf(left[w]))
      \/ Dead(s)' /\ k = got[w] /\ (r = k \/ r = k - 1)
  <2>1. RecvTurn(s, ChunkOf(left[w]), got[w], k, r)
    BY <1>2 DEF DataTurn
  <2> QED
    BY <1>1, <1>3, <2>1, RecvTurnEffect
<1>5. \/ left[w] <= DataLen[s] /\ file[name[w]].bytes = Bytes(s, DataLen[s] - left[w])
      \/ Dead(s) /\ left[w] > 0 /\ got[w] = 0
  BY <1>2 DEF Partial
<1>6. csock'[w] = s /\ name'[w] = name[w]
  BY <1>2
<1>7. SUFFICES \/ /\ left'[w] <= DataLen[s]
                  /\ file'[name[w]].bytes = Bytes(s, DataLen[s] - left'[w])
               \/ Dead(s)' /\ left'[w] > 0 /\ got'[w] = 0
  BY <1>6 DEF Partial, Dead, Bytes
<1> HIDE DEF Bytes
\* The recv goes round: bytes came, so the stream was not dead.
<1>8. CASE r = Again
  <2>1. ~Dead(s)
    BY <1>1, <1>4, <1>8 DEF Again
  <2>2. UNCHANGED <<left, file>>
    BY <1>8 DEF DataTurn
  <2> QED
    BY <1>5, <2>1, <2>2
<1>9. CASE r # Again
  <2>1. /\ got'[w] = 0 /\ left'[w] = BytesLeft(s, left[w], r)
        /\ file' = IF r > 0
                     THEN [file EXCEPT ![name[w]].bytes =
                             WriteBytes(@, DataLen[s] - left[w], r, s)]
                     ELSE file
    BY <1>1, <1>2, <1>9 DEF DataTurn
  \* The file is the session's so far, and goes on to be.
  <2>2. CASE /\ left[w] <= DataLen[s] /\ file[name[w]].bytes = Bytes(s, DataLen[s] - left[w])
             /\ r >= 0
    <3>1. r \in Nat /\ r <= left[w] /\ DataLen[s] - left[w] \in Nat
      BY <1>1, <1>3, <2>2
    <3>2. left'[w] = left[w] - r
      BY <1>1, <1>3, <2>1, <2>2, <3>1, ServerAssumption DEF BytesLeft
    <3>3. left'[w] <= DataLen[s] /\ DataLen[s] - left'[w] = DataLen[s] - left[w] + r
      BY <1>1, <1>3, <2>2, <3>1, <3>2
    <3>4. WriteBytes(Bytes(s, DataLen[s] - left[w]), DataLen[s] - left[w], r, s)
            = Bytes(s, DataLen[s] - left'[w])
      BY <3>1, <3>3, AppendBytes
    <3>5. CASE r > 0
      <4>1. file'[name[w]].bytes = WriteBytes(file[name[w]].bytes, DataLen[s] - left[w], r, s)
        BY <1>1, <2>1, <3>5 DEF FileType
      <4> QED
        BY <2>2, <3>3, <3>4, <4>1
    <3>6. CASE r = 0
      <4>1. left'[w] = left[w] /\ file' = file
        BY <1>1, <2>1, <3>2, <3>6
      <4> QED
        BY <2>2, <4>1
    <3> QED
      BY <3>1, <3>5, <3>6
  \* The stream is at its end and nothing is written.
  <2>3. CASE Dead(s)' /\ got[w] = 0 /\ r \in {0, -1}
    <3>1. left'[w] > 0
      BY <1>1, <1>3, <2>1, <2>3 DEF BytesLeft
    <3> QED
      BY <2>1, <2>3, <3>1
  <2> QED
    BY <1>1, <1>3, <1>4, <1>5, <1>9, <2>2, <2>3
<1> QED
  BY <1>8, <1>9

LEMMA DataWriteStep ==
    ASSUME TypeInv, ConnInv, StreamInv, ContentInv, NEW w \in Workers, Worker(w),
           UNCHANGED clientVars, RecvData(w)
    PROVE  ContentInv'
<1> DEFINE n == name[w]
<1>1. /\ n \in Names /\ file \in [Names -> FileType] /\ wpc[w] = "data" /\ left[w] > 0
      /\ left \in [Workers -> Nat] /\ got \in [Workers -> Nat]
      /\ \A v \in Workers : wpc[v] \in Serving => csock[v] \in Sessions
      /\ \A v \in Workers : wpc[v] = "data" => name[v] \in Names
  BY DEF RecvData, TypeInv, TypeOK, ServerTypeOK, LocalsOK
<1>2. PICK k \in 0 .. ChunkOf(left[w]), r \in -2 .. ChunkOf(left[w]) : DataTurn(w, k, r)
  BY DEF RecvData
<1>3. UNCHANGED <<wpc, csock, name, saved, srvEnd, link, cpc>>
  BY DEF RecvData, clientVars
<1>4. /\ \A m \in Names \ {n} : file'[m] = file[m]
      /\ \A m \in Names : file'[m].by = file[m].by /\ file'[m].alone = file[m].alone
  <2>1. file' = file \/ \E b : file' = [file EXCEPT ![n].bytes = b]
    BY <1>2 DEF DataTurn
  <2>2. ASSUME NEW b, file' = [file EXCEPT ![n].bytes = b]
        PROVE  /\ \A m \in Names \ {n} : file'[m] = file[m]
               /\ \A m \in Names : file'[m].by = file[m].by /\ file'[m].alone = file[m].alone
    BY <1>1, <2>2 DEF FileType
  <2> QED
    BY <2>1, <2>2
<1>5. CreatedByOpen'
  BY <1>3, <1>4 DEF ContentInv, CreatedByOpen
<1>6. SavedOnce'
  BY <1>3 DEF ContentInv, SavedOnce
<1>7. WrittenByCreator'
  BY <1>3, <1>4 DEF ContentInv, WrittenByCreator, Writing
<1>8. Growing'
  <2> SUFFICES ASSUME NEW v \in Workers, wpc[v] = "data", file[name[v]].by = csock[v],
                      file[name[v]].alone
               PROVE  Partial(v)'
    BY <1>1, <1>3, <1>4 DEF Growing
  <2>1. Partial(v)
    BY DEF ContentInv, Growing
  <2>2. CASE v = w
    BY <1>1, <1>2, <1>3, <2>1, <2>2, PartialTurn
  \* Another worker with the same file would be serving the same session.
  <2>3. CASE v # w
    <3>1. csock[v] # csock[w] /\ csock[v] \in Sessions
      BY <1>1, <2>3 DEF ConnInv, OneReader, Serving
    <3>2. name[v] # n
      BY <1>1, <3>1 DEF ContentInv, WrittenByCreator, Writing
    <3>3. left'[v] = left[v] /\ got'[v] = got[v] /\ file'[name[v]] = file[name[v]]
      BY <1>1, <1>2, <1>4, <2>3, <3>2, WorkerLocal DEF StreamInv
    <3>4. sent'[csock[v]] = sent[csock[v]] /\ rcvd'[csock[v]] = rcvd[csock[v]]
      BY <3>1, WorkerLocal DEF StreamInv
    <3> QED
      BY <1>3, <2>1, <3>3, <3>4 DEF Partial, Bytes, Dead
  <2> QED
    BY <2>2, <2>3
<1>9. ContentIntegrity'
  <2> SUFFICES ASSUME NEW t \in saved, NEW m \in Names, file[m].by = t, file[m].alone
               PROVE  file'[m].bytes = Bytes(t, DataLen[t])
    BY <1>3, <1>4 DEF ContentIntegrity, Bytes
  <2>1. m # n
    <3>1. csock[w] \notin saved
      BY <1>1 DEF ContentInv, SavedOnce, Serving
    <3> QED
      BY <1>1, <3>1 DEF ContentInv, WrittenByCreator, Writing
  <2> QED
    BY <1>4, <2>1 DEF ContentInv, ContentIntegrity, Bytes
<1> QED
  BY <1>5, <1>6, <1>7, <1>8, <1>9 DEF ContentInv

-----------------------------------------------------------------------------
(* All steps *)

LEMMA ContentStep ==
    TypeInv /\ ConnInv /\ StreamInv /\ ContentInv /\ [Next]_vars => ContentInv'
<1> SUFFICES ASSUME TypeInv, ConnInv, StreamInv, ContentInv, [Next]_vars PROVE ContentInv'
  OBVIOUS
<1>0. wpc \in [Workers -> Steps] /\ \A w \in Workers : wpc[w] = "data" => csock[w] \in Sessions
  BY DEF TypeInv, TypeOK, ServerTypeOK, LocalsOK, Serving
<1>1. ASSUME NEW w \in Workers, Worker(w), UNCHANGED clientVars PROVE ContentInv'
  BY <1>1, QuietStep, OpenStep, SaveStep, DataWriteStep
\* No worker that serves moves, and a session that is dead stays so.
<1>2. ASSUME UNCHANGED <<locals, disk>>,
             \A w \in Workers : wpc'[w] \in Serving => wpc'[w] = wpc[w],
             \A t \in Sessions :
                 srvEnd'[t] \in {"none", "queued"} => srvEnd[t] \in {"none", "queued"},
             \A t \in Sessions : Dead(t) => Dead(t)'
      PROVE  ContentInv'
  <2>1. ASSUME NEW v \in Workers PROVE GoesOn(v)
    BY <1>2 DEF GoesOn, Serving, locals
  <2>2. ASSUME NEW v \in Workers PROVE StaysInLoop(v)
    BY <1>0, <1>2 DEF StaysInLoop, Serving, locals, Dead
  <2>3. UNCHANGED saved /\ \A n \in Names : KeptOrRemoved(n)
    BY <1>2 DEF KeptOrRemoved, disk
  <2> QED
    BY <1>2, <2>1, <2>2, <2>3, NothingWritten
<1>3. ASSUME Listen \/ ListenFails \/ JoinAll \/ Break, UNCHANGED clientVars PROVE ContentInv'
  <2>1. UNCHANGED <<wpc, locals, disk, sent, rcvd, link, cpc>>
    BY <1>3 DEF Listen, ListenFails, JoinAll, Break, wireVars, clientVars
  <2>2. \A t \in Sessions : srvEnd'[t] \in {"none", "queued"} => srvEnd[t] \in {"none", "queued"}
    BY <1>3 DEF Listen, ListenFails, JoinAll, Break, CloseServerEnds, wireVars
  <2> QED
    BY <1>2, <2>1, <2>2 DEF Dead
<1>4. ASSUME NEW w \in Workers, Spawn(w), UNCHANGED clientVars PROVE ContentInv'
  <2>1. UNCHANGED <<locals, disk, sent, rcvd, link, srvEnd, cpc>>
    BY <1>4 DEF Spawn, wireVars, clientVars
  <2>2. \A v \in Workers : wpc'[v] \in Serving => wpc'[v] = wpc[v]
    BY <1>0, <1>4 DEF Spawn, Goto, Serving
  <2> QED
    BY <1>2, <2>1, <2>2 DEF Dead
<1>5. ASSUME NEW s \in Sessions, ClientStep(s) PROVE ContentInv'
  BY <1>2, <1>5, ClientEffect
<1>6. CASE UNCHANGED vars
  BY <1>2, <1>6 DEF vars, wireVars, serverVars, clientVars, locals, disk, Dead
<1> QED
  BY <1>1, <1>3, <1>4, <1>5, <1>6 DEF Next, ServerNext, ClientNext

\* A file that was saved, and that no other worker had open when it was opened,
\* holds every byte of the data its client announced, in order.
THEOREM FilesAreWhole == Spec => []ContentIntegrity
<1>1. Init => ContentInv
  BY ContentInit
<1>2. TypeInv /\ ConnInv /\ StreamInv /\ ContentInv /\ [Next]_vars => ContentInv'
  BY ContentStep
<1>3. ContentInv => ContentIntegrity
  BY DEF ContentInv
<1> QED
  BY <1>1, <1>2, <1>3, Invariance, PTL DEF Spec

-----------------------------------------------------------------------------
(* A server with one worker keeps its directory as module Directory says. *)

OneWorker == \A v, w \in Workers : v = w

\* No worker works behind another's back: between access() and remove() or
\* of.open() the name stays as it was found, and in the data loop the file is
\* there.
NameAsFound ==
    \A w \in Workers :
        /\ wpc[w] \in {"prompt", "remove"} => name[w] \in Names /\ file[name[w]].there
        /\ wpc[w] = "overwrite" => name[w] \in Names
        /\ wpc[w] = "open" /\ name[w] \in Names => ~file[name[w]].there
        /\ wpc[w] = "data" => file[name[w]].there

OpenedAlone == \A n \in Names : file[n].alone

Inv == TypeInv /\ ConnInv /\ StreamInv /\ ContentInv /\ NameAsFound /\ OpenedAlone

LEMMA DirectoryInit == Init => NameAsFound /\ OpenedAlone
BY DEF Init, ServerInit, NameAsFound, OpenedAlone, Absent, Foreign

\* What a step of the worker makes of the directory.
LEMMA WorkerOnFiles ==
    ASSUME TypeInv, NEW w \in Workers, Worker(w)
    PROVE  \/ Open(w) \/ Remove(w) \/ RecvData(w) \/ SaveComplete(w)
           \/ /\ UNCHANGED <<file, saved>>
              /\ wpc'[w] \in {"prompt", "remove", "open"} => name'[w] = name[w]
              /\ wpc'[w] \notin {"overwrite", "data"}
              /\ wpc'[w] = "prompt" => name[w] \in Names /\ file[name[w]].there
              /\ wpc'[w] = "remove" => wpc[w] = "prompt"
              /\ wpc'[w] = "open" => ~(name[w] \in Names /\ file[name[w]].there)
<1>1. wpc \in [Workers -> Steps] /\ WorkerStep(w)
  BY DEF Worker, TypeInv, TypeOK, ServerTypeOK
<1> USE DEF Goto, wireVars, locals, disk, Steps
<1>2. CASE Lock(w) \/ Accept(w) \/ Unlock(w) \/ Shutdown(w) \/ LoopCheck(w) \/ SendAck(w)
  BY <1>1, <1>2 DEF Lock, Accept, Unlock, Shutdown, LoopCheck, SendAck
<1>3. CASE RecvHeader(w)
  <2>1. PICK k \in 0 .. HdrLen, r \in -2 .. HdrLen : HeaderTurn(w, k, r)
    BY <1>3 DEF RecvHeader
  <2> QED
    BY <1>1, <1>3, <2>1 DEF RecvHeader, HeaderTurn
<1>4. CASE RecvName(w)
  <2>1. PICK k \in 0 .. NameLen[csock[w]], r \in -2 .. NameLen[csock[w]] : NameTurn(w, k, r)
    BY <1>4 DEF RecvName
  <2> QED
    BY <1>1, <1>4, <2>1 DEF RecvName, NameTurn
<1>5. CASE Access(w) \/ Prompt(w) \/ OpenFails(w)
  BY <1>1, <1>5 DEF Access, Prompt, OpenFails, Leave
<1> QED
  BY <1>1, <1>2, <1>3, <1>4, <1>5 DEF WorkerStep

\* What a write adds to a file that is its worker's own.
LEMMA WriteGrows ==
    ASSUME TypeInv, StreamInv, NEW w \in Workers, wpc[w] = "data", left[w] > 0, Partial(w),
           NEW k \in 0 .. ChunkOf(left[w]), NEW r \in -2 .. ChunkOf(left[w]),
           DataTurn(w, k, r), UNCHANGED <<link, cpc>>
    PROVE  \/ file' = file
           \/ \E i, j \in 0 .. DataLen[csock[w]] :
                 /\ i < j
                 /\ file[name[w]].bytes = Bytes(csock[w], i)
                 /\ file' = [file EXCEPT ![name[w]].bytes = Bytes(csock[w], j)]
<1>1. /\ csock[w] \in Sessions /\ name[w] \in Names /\ file \in [Names -> FileType]
      /\ left[w] \in Nat /\ got[w] \in Nat
      /\ WireTypeOK
  BY DEF TypeInv, TypeOK, ServerTypeOK, LocalsOK, StreamInv, Serving
<1>2. PICK s \in Sessions : s = csock[w]
  BY <1>1
<1>3. /\ DataLen[s] \in Nat
      /\ ChunkOf(left[w]) \in Nat /\ ChunkOf(left[w]) <= left[w]
  BY <1>1, FrameAssumption, ServerAssumption DEF ChunkOf
<1>4. \/ ~Dead(s)
      \/ k = got[w] /\ (r = k \/ r = k - 1)
  <2>1. RecvTurn(s, ChunkOf(left[w]), got[w], k, r)
    BY <1>2 DEF DataTurn
  <2> QED
    BY <1>1, <1>3, <2>1, RecvTurnEffect
<1>5. CASE r <= 0
  BY <1>5 DEF DataTurn
<1>6. CASE r > 0
  <2> DEFINE i == DataLen[s] - left[w]
  <2>1. left[w] <= DataLen[s] /\ file[name[w]].bytes = Bytes(s, i)
    BY <1>1, <1>2, <1>4, <1>6 DEF Partial
  <2>2. /\ i \in Nat /\ r \in Nat /\ i + r \in 0 .. DataLen[s] /\ i < i + r
        /\ i \in 0 .. DataLen[s]
    BY <1>1, <1>3, <1>6, <2>1
  <2>3. file' = [file EXCEPT ![name[w]].bytes = WriteBytes(@, i, r, s)]
    BY <1>2, <1>6 DEF DataTurn, Again
  <2>4. file' = [file EXCEPT ![name[w]].bytes = WriteBytes(file[name[w]].bytes, i, r, s)]
    BY <1>1, <2>3
  <2> HIDE DEF i, Bytes
  <2>5. WriteBytes(file[name[w]].bytes, i, r, s) = Bytes(s, i + r)
    BY <2>1, <2>2, AppendBytes
  <2>6. file' = [file EXCEPT ![name[w]].bytes = Bytes(s, i + r)]
    BY <2>4, <2>5
  <2> QED
    BY <1>2, <2>1, <2>2, <2>6
<1> QED
  BY <1>1, <1>5, <1>6

-----------------------------------------------------------------------------
(* The invariant *)

LEMMA WorkerKeepsNames ==
    ASSUME OneWorker, Inv, NEW w \in Workers, Worker(w), UNCHANGED clientVars
    PROVE  NameAsFound' /\ OpenedAlone'
<1>1. /\ wpc \in [Workers -> Steps] /\ file \in [Names -> FileType]
      /\ wpc[w] \in {"prompt", "remove", "overwrite", "data"} => name[w] \in Names
      /\ \A v \in Workers : v = w
  BY DEF OneWorker, Inv, TypeInv, TypeOK, ServerTypeOK, LocalsOK
<1>2. CASE Open(w)
  <2>1. /\ name[w] \in Names /\ name' = name /\ wpc'[w] = "data"
        /\ file'[name[w]].there /\ file'[name[w]].alone
        /\ \A n \in Names \ {name[w]} : file'[n] = file[n]
    <3>1. name[w] \in Names
      BY <1>2 DEF Open, Inv, TypeInv, TypeOK, ServerTypeOK
    <3>2. ~ \E v \in Workers : Writing(v, name[w])
      BY <1>1, <1>2 DEF Open, Writing
    <3> QED
      BY <1>1, <1>2, <3>1, <3>2 DEF Open, Goto, locals
  <2> QED
    BY <1>1, <2>1 DEF NameAsFound, OpenedAlone, Inv
<1>3. CASE Remove(w)
  <2>1. /\ name[w] \in Names /\ name' = name /\ wpc'[w] = "overwrite"
        /\ file' = file \/ file'[name[w]] = Absent
        /\ \A n \in Names \ {name[w]} : file'[n] = file[n]
    BY <1>1, <1>3 DEF Remove, Goto, locals, Writing
  <2> QED
    BY <1>1, <2>1 DEF NameAsFound, OpenedAlone, Inv, Absent
<1>4. CASE RecvData(w)
  <2>1. /\ name[w] \in Names /\ name' = name /\ wpc' = wpc /\ wpc[w] = "data"
        /\ \E b : file' = file \/ file' = [file EXCEPT ![name[w]].bytes = b]
    BY <1>1, <1>4 DEF RecvData, DataTurn
  <2>2. \A n \in Names : file'[n].there = file[n].there /\ file'[n].alone = file[n].alone
    BY <1>1, <2>1 DEF FileType
  <2> QED
    BY <1>1, <2>1, <2>2 DEF NameAsFound, OpenedAlone, Inv
<1>5. CASE SaveComplete(w)
  BY <1>1, <1>5 DEF SaveComplete, Goto, locals, NameAsFound, OpenedAlone, Inv
<1>6. CASE /\ UNCHANGED <<file, saved>>
           /\ wpc'[w] \in {"prompt", "remove", "open"} => name'[w] = name[w]
           /\ wpc'[w] \notin {"overwrite", "data"}
           /\ wpc'[w] = "prompt" => name[w] \in Names /\ file[name[w]].there
           /\ wpc'[w] = "remove" => wpc[w] = "prompt"
           /\ wpc'[w] = "open" => ~(name[w] \in Names /\ file[name[w]].there)
  BY <1>1, <1>6 DEF NameAsFound, OpenedAlone, Inv
<1> QED
  BY <1>2, <1>3, <1>4, <1>5, <1>6, WorkerOnFiles DEF Inv

\* Every other step leaves the files and the workers' work as they are.
LEMMA OthersOnFiles ==
    ASSUME TypeInv, ConnInv, StreamInv, [Next]_vars,
           ~ \E w \in Workers : Worker(w) /\ UNCHANGED clientVars
    PROVE  /\ UNCHANGED <<file, saved, name>>
           /\ \A v \in Workers : wpc'[v] = wpc[v] \/ (wpc[v] = "unborn" /\ wpc'[v] = "lock")
<1>0. wpc \in [Workers -> Steps]
  BY DEF TypeInv, TypeOK, ServerTypeOK
<1>1. CASE (Listen \/ ListenFails \/ JoinAll \/ Break) /\ UNCHANGED clientVars
  BY <1>1 DEF Listen, ListenFails, JoinAll, Break, locals, disk
<1>2. ASSUME NEW w \in Workers, Spawn(w)
      PROVE  /\ UNCHANGED <<file, saved, name>>
             /\ \A v \in Workers : wpc'[v] = wpc[v] \/ (wpc[v] = "unborn" /\ wpc'[v] = "lock")
  BY <1>0, <1>2 DEF Spawn, Goto, locals, disk
<1>3. CASE ClientNext
  BY <1>3, ClientEffect DEF ClientNext, locals, disk, serverVars
<1>4. CASE UNCHANGED vars
  BY <1>4 DEF vars, serverVars
<1> QED
  BY <1>1, <1>2, <1>3, <1>4 DEF Next, ServerNext

LEMMA InvStep == OneWorker /\ Inv /\ [Next]_vars => Inv'
<1> SUFFICES ASSUME OneWorker, Inv, [Next]_vars PROVE NameAsFound' /\ OpenedAlone'
  BY TypeStep, ConnStep, StreamStep, ContentStep DEF Inv
<1>1. CASE \E w \in Workers : Worker(w) /\ UNCHANGED clientVars
  BY <1>1, WorkerKeepsNames
<1>2. CASE ~ \E w \in Workers : Worker(w) /\ UNCHANGED clientVars
  BY <1>2, OthersOnFiles DEF Inv, NameAsFound, OpenedAlone
<1> QED
  BY <1>1, <1>2

-----------------------------------------------------------------------------
(* The refinement *)

\* The directory as Directory sees it.
View == [n \in Names |-> [there |-> file[n].there,
                          by    |-> file[n].by,
                          bytes |-> file[n].bytes]]

\* The names the operator agreed to, as Directory sees them.
Agreed == {name[w] : w \in {v \in Workers : wpc[v] \in {"remove", "overwrite"}}}

LEMMA AgreedOf ==
    ASSUME OneWorker, NEW w \in Workers
    PROVE  /\ Agreed = IF wpc[w] \in {"remove", "overwrite"} THEN {name[w]} ELSE {}
           /\ Agreed' = IF wpc'[w] \in {"remove", "overwrite"} THEN {name'[w]} ELSE {}
BY DEF OneWorker, Agreed

LEMMA ViewInit == Init => Dir!DirInit
<1> SUFFICES ASSUME Init PROVE Dir!DirInit
  OBVIOUS
<1>1. saved = {} /\ Agreed = {}
  BY DEF Init, ServerInit, Agreed
<1>2. ASSUME NEW n \in Names
      PROVE  [there |-> file[n].there, by |-> file[n].by, bytes |-> file[n].bytes]
                = IF n \in Existing THEN Dir!Before ELSE Dir!Free
  BY <1>2 DEF Init, ServerInit, Dir!Before, Dir!Free, Absent, Foreign
<1> QED
  BY <1>1, <1>2 DEF Dir!DirInit, Agreed

\* A worker that is told yes, that creates, removes, writes or reports a file, or
\* fails to create one takes a step of Directory's.
LEMMA WorkerRefines ==
    ASSUME OneWorker, Inv, NEW w \in Workers, Worker(w), UNCHANGED clientVars
    PROVE  Dir!DirNext \/ UNCHANGED <<View, Agreed, saved>>
<1>1. /\ wpc \in [Workers -> Steps] /\ file \in [Names -> FileType]
      /\ wpc[w] \in {"prompt", "remove", "overwrite", "data"} => name[w] \in Names
      /\ wpc[w] \in Serving => csock[w] \in Sessions
      /\ \A v \in Workers : v = w
  BY DEF OneWorker, Inv, TypeInv, TypeOK, ServerTypeOK, LocalsOK
<1>a. /\ Agreed = IF wpc[w] \in {"remove", "overwrite"} THEN {name[w]} ELSE {}
      /\ Agreed' = IF wpc'[w] \in {"remove", "overwrite"} THEN {name'[w]} ELSE {}
  BY AgreedOf
<1>2. CASE Open(w)
  <2>1. /\ name[w] \in Names /\ csock[w] \in Sessions /\ wpc[w] \in {"overwrite", "open"}
        /\ csock[w] \notin saved /\ \A m \in Names : file[m].by # csock[w]
        /\ wpc[w] = "open" => ~file[name[w]].there
        /\ UNCHANGED <<saved, name>>
        /\ wpc'[w] = "data"
    BY <1>1, <1>2 DEF Open, Inv, TypeInv, TypeOK, ServerTypeOK, Serving, NameAsFound,
       ContentInv, CreatedByOpen, SavedOnce, Opened, Goto, locals
  <2>2. PICK n \in Names, s \in Sessions : n = name[w] /\ s = csock[w]
    BY <2>1
  <2>3. file' = [file EXCEPT ![n] = [there |-> TRUE, by |-> s, bytes |-> <<>>,
                                     alone |-> \A v \in Workers : ~Writing(v, n)]]
    BY <1>2, <2>2 DEF Open
  <2>4. View' = [View EXCEPT ![n] = [there |-> TRUE, by |-> s, bytes |-> <<>>]]
    BY <1>1, <2>3 DEF View
  <2>5. Dir!Holding(s, 0) = [there |-> TRUE, by |-> s, bytes |-> <<>>]
    BY DEF Dir!Holding, Dir!Prefix
  \* Behind remove the name is one the operator agreed to; without, it is free.
  <2>6. (~View[n].there \/ n \in Agreed) /\ Agreed' = Agreed \ {n}
    BY <1>a, <2>1, <2>2 DEF View
  <2>7. Dir!Begin(n, s)
    BY <2>1, <2>2, <2>4, <2>5, <2>6 DEF Dir!Begin, View, Agreed
  <2> QED
    BY <2>7 DEF Dir!DirNext
<1>3. CASE Remove(w)
  <2>1. PICK n \in Names : n = name[w]
    BY <1>1, <1>3 DEF Remove
  <2>2. /\ wpc[w] = "remove" /\ wpc'[w] = "overwrite" /\ UNCHANGED <<name, saved>>
        /\ file' = file \/ file' = [file EXCEPT ![n] = Absent]
    BY <1>1, <1>3, <2>1 DEF Remove, Goto, locals
  <2>3. n \in Agreed /\ UNCHANGED Agreed
    BY <1>a, <2>1, <2>2
  <2>4. CASE file' = file
    BY <2>2, <2>3, <2>4 DEF View
  <2>5. CASE file' = [file EXCEPT ![n] = Absent]
    <3>1. View' = [View EXCEPT ![n] = Dir!Free]
      BY <1>1, <2>5 DEF View, Absent, Dir!Free
    <3>2. Dir!Discard(n)
      BY <2>2, <2>3, <3>1 DEF Dir!Discard, View, Agreed
    <3> QED
      BY <3>2 DEF Dir!DirNext
  <2> QED
    BY <2>2, <2>4, <2>5
<1>4. ASSUME wpc[w] = "data"
      PROVE  /\ name[w] \in Names /\ csock[w] \in Sessions /\ csock[w] \notin saved
             /\ file[name[w]].there /\ file[name[w]].by = csock[w] /\ Partial(w)
  BY <1>1, <1>4 DEF Serving, Inv, NameAsFound, OpenedAlone, ContentInv, SavedOnce,
     WrittenByCreator, Writing, Growing
<1>5. CASE RecvData(w)
  <2>1. PICK k \in 0 .. ChunkOf(left[w]), r \in -2 .. ChunkOf(left[w]) : DataTurn(w, k, r)
    BY <1>5 DEF RecvData
  <2>2. wpc[w] = "data" /\ left[w] > 0 /\ UNCHANGED <<wpc, link, cpc, saved>>
    BY <1>5 DEF RecvData, clientVars
  <2>a. UNCHANGED Agreed
    BY <1>a, <2>2
  <2>3. CASE file' = file
    BY <2>2, <2>a, <2>3 DEF View
  <2>4. CASE \E i, j \in 0 .. DataLen[csock[w]] :
                 /\ i < j
                 /\ file[name[w]].bytes = Bytes(csock[w], i)
                 /\ file' = [file EXCEPT ![name[w]].bytes = Bytes(csock[w], j)]
    <3>1. PICK n \in Names, s \in Sessions : n = name[w] /\ s = csock[w]
      BY <1>4, <2>2
    <3>2. PICK i, j \in 0 .. DataLen[s] :
             /\ i < j
             /\ file[n].bytes = Bytes(s, i)
             /\ file' = [file EXCEPT ![n].bytes = Bytes(s, j)]
      BY <2>4, <3>1
    <3>3. \A h : Dir!Holding(s, h) = [there |-> TRUE, by |-> s, bytes |-> Bytes(s, h)]
      BY DEF Dir!Holding, Dir!Prefix, Bytes
    <3> HIDE DEF Bytes
    <3>4. View[n] = Dir!Holding(s, i)
      BY <1>1, <1>4, <2>2, <3>1, <3>2, <3>3 DEF View, FileType
    <3>5. View' = [View EXCEPT ![n] = Dir!Holding(s, j)]
      BY <1>1, <1>4, <2>2, <3>1, <3>2, <3>3 DEF View, FileType
    <3>6. Dir!Grow(n, s)
      BY <1>4, <2>2, <2>a, <3>1, <3>2, <3>4, <3>5 DEF Dir!Grow, View, Agreed
    <3> QED
      BY <3>6 DEF Dir!DirNext
  <2> QED
    BY <2>1, <2>2, <2>3, <2>4, <1>4, WriteGrows DEF Inv
<1>6. CASE SaveComplete(w)
  <2>1. /\ wpc[w] = "data" /\ left[w] = 0 /\ saved' = saved \cup {csock[w]} /\ UNCHANGED file
        /\ wpc'[w] = "ack"
    BY <1>1, <1>6 DEF SaveComplete, Goto, Inv, TypeInv, TypeOK, ServerTypeOK
  <2>a. UNCHANGED Agreed
    BY <1>a, <2>1
  <2>2. PICK n \in Names, s \in Sessions : n = name[w] /\ s = csock[w]
    BY <1>4, <2>1
  <2>3. file[n].bytes = Bytes(s, DataLen[s])
    <3>1. file[n].bytes = Bytes(s, DataLen[s] - left[w])
      BY <1>4, <2>1, <2>2 DEF Partial
    <3>2. DataLen[s] - left[w] = DataLen[s]
      BY <2>1, FrameAssumption
    <3> QED
      BY <3>1, <3>2
  <2>4. View[n] = Dir!Holding(s, DataLen[s])
    BY <1>4, <2>1, <2>2, <2>3 DEF View, Dir!Holding, Dir!Prefix, Bytes
  <2>5. Dir!Finish(n, s)
    BY <2>1, <2>2, <2>a, <2>4 DEF Dir!Finish, View, Agreed
  <2> QED
    BY <2>5 DEF Dir!DirNext
<1>7. CASE Prompt(w) /\ wpc'[w] = "remove"
  <2>1. PICK n \in Names : n = name[w]
    BY <1>1, <1>7 DEF Prompt
  <2>2. wpc[w] = "prompt" /\ file[n].there /\ UNCHANGED <<file, name, saved>>
    BY <1>7, <2>1 DEF Prompt, Leave, locals, disk, Inv, NameAsFound
  <2>3. Agreed' = Agreed \cup {n} /\ View[n].there /\ UNCHANGED View
    BY <1>a, <1>7, <2>1, <2>2 DEF View
  <2>4. Dir!Agree(n)
    BY <2>2, <2>3 DEF Dir!Agree, View, Agreed
  <2> QED
    BY <2>4 DEF Dir!DirNext
<1>8. CASE OpenFails(w)
  <2>1. /\ wpc[w] \in {"overwrite", "open"} /\ wpc'[w] = "exited"
        /\ UNCHANGED <<file, name, saved>>
    BY <1>1, <1>8 DEF OpenFails, Leave, Goto, locals, disk
  <2>2. CASE wpc[w] = "overwrite"
    <3>1. PICK n \in Names : n = name[w]
      BY <1>1, <2>2
    <3>2. Agreed' = Agreed \ {n} /\ UNCHANGED View
      BY <1>a, <2>1, <3>1 DEF View
    <3>3. Dir!Abandon(n)
      BY <2>1, <3>2 DEF Dir!Abandon, View, Agreed
    <3> QED
      BY <3>3 DEF Dir!DirNext
  <2>3. CASE wpc[w] = "open"
    BY <1>a, <2>1, <2>3 DEF View
  <2> QED
    BY <2>1, <2>2, <2>3
\* The others are not between a yes and of.open.
<1>9. CASE /\ ~Open(w) /\ ~Remove(w) /\ ~RecvData(w) /\ ~SaveComplete(w)
           /\ ~(Prompt(w) /\ wpc'[w] = "remove") /\ ~OpenFails(w)
  <2>1. /\ UNCHANGED <<file, saved>>
        /\ wpc'[w] \notin {"overwrite", "data"}
        /\ wpc'[w] = "remove" => wpc[w] = "prompt"
    BY <1>9, WorkerOnFiles DEF Inv
  <2>2. WorkerStep(w)
    BY DEF Worker
  <2>3. wpc[w] \notin {"remove", "overwrite"}
    BY <1>9, <2>2 DEF WorkerStep, Lock, Accept, Unlock, RecvHeader, RecvName, Access, Prompt,
       SendAck, Shutdown, LoopCheck
  <2>4. wpc[w] = "prompt" => Prompt(w)
    BY <1>9, <2>2 DEF WorkerStep, Lock, Accept, Unlock, RecvHeader, RecvName, Access,
       SendAck, Shutdown, LoopCheck
  <2>5. UNCHANGED Agreed
    BY <1>a, <1>9, <2>1, <2>3, <2>4
  <2> QED
    BY <2>1, <2>5 DEF View
<1> QED
  BY <1>2, <1>3, <1>5, <1>6, <1>7, <1>8, <1>9

LEMMA StepRefines == OneWorker /\ Inv /\ [Next]_vars => [Dir!DirNext]_<<View, Agreed, saved>>
<1> SUFFICES ASSUME OneWorker, Inv, [Next]_vars
             PROVE  Dir!DirNext \/ UNCHANGED <<View, Agreed, saved>>
  OBVIOUS
<1>1. CASE \E w \in Workers : Worker(w) /\ UNCHANGED clientVars
  BY <1>1, WorkerRefines
<1>2. CASE ~ \E w \in Workers : Worker(w) /\ UNCHANGED clientVars
  BY <1>2, OthersOnFiles DEF Inv, View, Agreed
<1> QED
  BY <1>1, <1>2

LEMMA InvHolds == ASSUME OneWorker PROVE Spec => []Inv
<1>1. Init => Inv
  BY TypeInit, ConnInit, StreamInit, ContentInit, DirectoryInit DEF Inv
<1>2. Inv /\ [Next]_vars => Inv'
  BY InvStep
<1> QED
  BY <1>1, <1>2, PTL DEF Spec

\* With one worker the server keeps the promise of module Directory, also when
\* another process keeps remove() from working: nothing is opened over a file that
\* is there unless the operator was asked about that very file and agreed, a file
\* only grows, by the next bytes of the session it was created for, and what is
\* reported as saved is whole (transmission_server.cpp:118-161).
THEOREM OneWorkerKeepsPromise == ASSUME OneWorker PROVE Spec => ImplementsDirectory
<1>1. Init => Dir!DirInit
  BY ViewInit
<1>2. Inv /\ [Next]_vars => [Dir!DirNext]_<<View, Agreed, saved>>
  BY StepRefines
<1> QED
  BY <1>1, <1>2, InvHolds, PTL DEF Spec, ImplementsDirectory, Dir!DirSpec, View, Agreed

\* With one worker "save file complete" (transmission_server.cpp:161) is true of
\* the file saved last under each name, without the condition that no other worker
\* had it open: it is that session's data until it is opened again.
THEOREM ReportedFilesAreWhole == ASSUME OneWorker PROVE Spec => []SaveFileComplete
<1>1. Inv => SaveFileComplete
  BY DEF Inv, ContentInv, ContentIntegrity, OpenedAlone, SaveFileComplete
<1> QED
  BY <1>1, InvHolds, PTL

\* With one worker, what changes a file that exists is its own session's data
\* loop, or a remove() or an open behind it after the operator agreed, whether or
\* not the remove() worked; the open of a name that access() did not find changes
\* none (transmission_server.cpp:118-161).
THEOREM OneWorkerAsksFirst == ASSUME OneWorker PROVE Spec => ChangedOnlyByConsent
<1> DEFINE Consent ==
      \A n \in Names :
         file[n].there /\ file'[n] # file[n] =>
             \E w \in Workers :
                /\ name[w] = n
                /\ \/ wpc[w] \in {"remove", "overwrite"}
                   \/ wpc[w] = "data" /\ file[n].by = csock[w]
<1>1. Inv /\ [Next]_vars => [Consent]_vars
  <2> SUFFICES ASSUME Inv, [Next]_vars, NEW n \in Names, file[n].there, file'[n] # file[n]
               PROVE  \E w \in Workers :
                         /\ name[w] = n
                         /\ wpc[w] \in {"remove", "overwrite"} \/ (wpc[w] = "data" /\ file[n].by = csock[w])
    OBVIOUS
  <2>1. PICK w \in Workers : Worker(w) /\ UNCHANGED clientVars
    BY OthersOnFiles DEF Inv
  <2>2. file \in [Names -> FileType]
    BY DEF Inv, TypeInv, TypeOK, ServerTypeOK
  <2>3. CASE Open(w)
    BY <2>2, <2>3 DEF Open, Inv, NameAsFound
  <2>4. CASE Remove(w)
    BY <2>2, <2>4 DEF Remove
  <2>5. CASE RecvData(w)
    <3>1. wpc[w] = "data" /\ name[w] = n
      BY <2>2, <2>5 DEF RecvData, DataTurn
    <3> QED
      BY <3>1 DEF Inv, OpenedAlone, ContentInv, WrittenByCreator, Writing
  <2>6. CASE SaveComplete(w)
    BY <2>6 DEF SaveComplete
  <2> QED
    BY <2>1, <2>3, <2>4, <2>5, <2>6, WorkerOnFiles DEF Inv
<1> QED
  BY <1>1, InvHolds, PTL DEF Spec, ChangedOnlyByConsent

=============================================================================
