------------------------- MODULE TransmissionServer -------------------------
(***************************************************************************)
(* transmission_server.cpp: start() and the worker threads that run run(), *)
(* as the Win32 project builds them.  Every worker owns its locals; the    *)
(* workers share the mutex, the break flag, the listening socket and the   *)
(* files of the current directory.                                         *)
(***************************************************************************)
EXTENDS Wire, FiniteSets

CONSTANTS
    Workers,    \* the server_thread_count threads
    NoWorker,   \* the mutex is free
    Names,      \* short file names
    NoName,     \* the empty name
    ShortName,  \* ShortName[s][k]: get_short_name of the first k bytes of s's name
    Existing,   \* names that exist before the server starts
    Chunk,      \* sizeof(buffer): 4, the size of a pointer in the Win32 build
    SpinCap,    \* bound on how far bytes_left grows while recv keeps failing
    Faults      \* the environment's misfortunes a run allows

FaultKinds == {"openfail", "shrink", "quit", "reset", "vanish",
               "refuse", "held", "createfail", "bindfail", "break"}

ASSUME ServerAssumption ==
    /\ NoWorker \notin Workers
    /\ NoName \notin Names
    /\ Existing \subseteq Names
    /\ Chunk \in Nat \ {0}
    /\ SpinCap \in Nat
    /\ Faults \subseteq FaultKinds

ASSUME NameAssumption ==
    /\ DOMAIN ShortName = Sessions
    /\ \A s \in Sessions :
          /\ ShortName[s] \in [0 .. NameLen[s] -> Names \cup {NoName}]
          /\ ShortName[s][0] = NoName
          /\ ShortName[s][NameLen[s]] # NoName

VARIABLES
    server,   \* the process: down, listening, failed, exited, killed
    brk,      \* brk_sig_received
    mtx,      \* the owner of mtx, or NoWorker
    wpc,      \* wpc[w]: where the worker is in run()
    csock,    \* csock[w]: the connection its csock holds
    got,      \* got[w]: bytes_transfrred of the xxsocket::recv it is in
    whole,    \* whole[w]: the header it decodes came whole from csock
    name,     \* name[w]: the short name it works on
    left,     \* left[w]: bytes_left
    file,     \* the current directory
    saved     \* the sessions for which "save file complete" was printed

serverVars == <<server, brk, mtx, wpc, csock, got, whole, name, left, file, saved>>

Hole == "hole"   \* a byte that no session wrote

\* A file is its bytes, each standing for the session that wrote it: a worker
\* writes data byte i of a session at file offset i, so the position says the
\* rest.  `by' (the session whose open truncated it last) and `alone' (no other
\* worker had it open then) are history, read by the properties only.
FileType == [there : BOOLEAN, by : Sessions \cup {NoSession}, alone : BOOLEAN,
             bytes : Seq(Sessions \cup {Hole})]

Absent  == [there |-> FALSE, by |-> NoSession, alone |-> TRUE, bytes |-> <<>>]
Foreign == [there |-> TRUE,  by |-> NoSession, alone |-> TRUE, bytes |-> <<>>]

\* The steps of run(): `unborn' before std::thread starts it; before of.open
\* `overwrite' when remove was called and `open' when access found nothing.
Steps == {"unborn", "lock", "accept", "unlock", "header", "name", "access",
          "prompt", "remove", "overwrite", "open", "data", "ack", "shutdown",
          "check", "exited"}

\* The steps at which the worker's csock is open.
Serving == {"unlock", "header", "name", "access", "prompt", "remove", "overwrite",
            "open", "data", "ack", "shutdown"}

ServerStates == {"down", "listening", "failed", "exited", "killed"}

ServerTypeOK ==
    /\ server \in ServerStates
    /\ brk    \in BOOLEAN
    /\ mtx    \in Workers \cup {NoWorker}
    /\ wpc    \in [Workers -> Steps]
    /\ csock  \in [Workers -> Sessions \cup {NoSession}]
    /\ got    \in [Workers -> Nat]
    /\ whole  \in [Workers -> BOOLEAN]
    /\ name   \in [Workers -> Names \cup {NoName}]
    /\ left   \in [Workers -> Nat]
    /\ file   \in [Names -> FileType]
    /\ saved  \subseteq Sessions

ServerInit ==
    /\ server = "down"
    /\ brk    = FALSE
    /\ mtx    = NoWorker
    /\ wpc    = [w \in Workers |-> "unborn"]
    /\ csock  = [w \in Workers |-> NoSession]
    /\ got    = [w \in Workers |-> 0]
    /\ whole  = [w \in Workers |-> FALSE]
    /\ name   = [w \in Workers |-> NoName]
    /\ left   = [w \in Workers |-> 0]
    /\ file   = [n \in Names |-> IF n \in Existing THEN Foreign ELSE Absent]
    /\ saved  = {}

locals == <<csock, got, whole, name, left>>
disk   == <<file, saved>>

Goto(w, step) == wpc' = [wpc EXCEPT ![w] = step]

\* Worker w is between of.open and of.close on file n.
Writing(w, n) == wpc[w] = "data" /\ name[w] = n

-----------------------------------------------------------------------------
(* start() and the process around it *)

\* bind and listen succeed.
Listen ==
    /\ server = "down"
    /\ server' = "listening"
    /\ UNCHANGED <<brk, mtx, wpc, locals, disk, wireVars>>

\* bind or listen fails: start returns false and main returns.
ListenFails ==
    /\ server = "down"
    /\ "bindfail" \in Faults
    /\ server' = "failed"
    /\ UNCHANGED <<brk, mtx, wpc, locals, disk, wireVars>>

\* The loop that creates the threads; one that exists may already be serving.
Spawn(w) ==
    /\ server = "listening"
    /\ wpc[w] = "unborn"
    /\ Goto(w, "lock")
    /\ UNCHANGED <<server, brk, mtx, locals, disk, wireVars>>

\* The join loop gets through once every worker has left run(); start returns
\* true, main returns, and the end of the process closes what is still open.
JoinAll ==
    /\ server = "listening"
    /\ \A w \in Workers : wpc[w] = "exited"
    /\ server' = "exited"
    /\ backlog' = <<>>
    /\ CloseServerEnds
    /\ UNCHANGED <<brk, mtx, wpc, locals, disk, sent, rcvd, link, ackd>>

\* SIGBREAK: the handler sets the flag.  The C runtime restores the default
\* action before it calls the handler, so the next SIGBREAK ends the process.
Break ==
    /\ server = "listening"
    /\ "break" \in Faults
    /\ \/ /\ ~brk
          /\ brk' = TRUE
          /\ UNCHANGED <<server, backlog, srvEnd>>
       \/ /\ brk
          /\ server' = "killed"
          /\ backlog' = <<>>
          /\ CloseServerEnds
          /\ UNCHANGED brk
    /\ UNCHANGED <<mtx, wpc, locals, disk, sent, rcvd, link, ackd>>

-----------------------------------------------------------------------------
(* run(): one action per step of a worker *)

\* mtx.lock()
Lock_NoWait(w) ==  \* mutated form: the mutex is not waited for
    /\ wpc[w] = "lock"
    /\ mtx' = w
    /\ Goto(w, "accept")
    /\ UNCHANGED <<server, brk, locals, disk, wireVars>>

Lock(w) ==
    /\ wpc[w] = "lock"
    /\ mtx = NoWorker
    /\ mtx' = w
    /\ Goto(w, "accept")
    /\ UNCHANGED <<server, brk, locals, disk, wireVars>>

Accept_NoDequeue(w) ==  \* mutated form: the connection stays in the backlog
    /\ wpc[w] = "accept"
    /\ backlog # <<>>
    /\ csock' = [csock EXCEPT ![w] = Head(backlog)]
    /\ srvEnd' = [srvEnd EXCEPT ![Head(backlog)] = "served"]
    /\ Goto(w, "unlock")
    /\ UNCHANGED <<server, brk, mtx, got, whole, name, left, disk,
                   sent, rcvd, link, ackd, backlog>>

\* sock_obj->accept(), which blocks, with the mutex held, until a client comes.
Accept(w) ==
    /\ wpc[w] = "accept"
    /\ backlog # <<>>
    /\ csock' = [csock EXCEPT ![w] = Head(backlog)]
    /\ srvEnd' = [srvEnd EXCEPT ![Head(backlog)] = "served"]
    /\ backlog' = Tail(backlog)
    /\ Goto(w, "unlock")
    /\ UNCHANGED <<server, brk, mtx, got, whole, name, left, disk, sent, rcvd, link, ackd>>

\* mtx.unlock()
Unlock(w) ==
    /\ wpc[w] = "unlock"
    /\ mtx' = NoWorker
    /\ Goto(w, "header")
    /\ UNCHANGED <<server, brk, locals, disk, wireVars>>

\* count = csock.recv(buffer, header.size).  Only -1 counts as "client is
\* gone": the descriptor is released and the loop condition is tested.  Any
\* other count, a short one too, goes on to decode what the buffer holds.
HeaderTurn(w, k, r) ==
    /\ RecvTurn(csock[w], HdrLen, got[w], k, r)
    /\ \/ /\ r = Again
          /\ got' = [got EXCEPT ![w] = k]
          /\ UNCHANGED <<wpc, csock, whole, left, srvEnd>>
       \/ /\ r = -1
          /\ Goto(w, "check")
          /\ srvEnd' = [srvEnd EXCEPT ![csock[w]] = "leaked"]
          /\ csock' = [csock EXCEPT ![w] = NoSession]
          /\ UNCHANGED <<got, whole, left>>
       \/ /\ r >= 0
          /\ Goto(w, "name")
          /\ got' = [got EXCEPT ![w] = 0]
          /\ whole' = [whole EXCEPT ![w] = (k = HdrLen)]
          /\ left' = [left EXCEPT ![w] = DataLen[csock[w]]]
          /\ UNCHANGED <<csock, srvEnd>>

RecvHeader(w) ==
    /\ wpc[w] = "header"
    /\ \E k \in 0 .. HdrLen, r \in -2 .. HdrLen : HeaderTurn(w, k, r)
    /\ UNCHANGED <<server, brk, mtx, name, disk, link, ackd, backlog>>

\* csock.recv(filenamebuf, header.namesize), its result ignored, and
\* get_short_name: the name is made of the bytes that came.  After a short
\* header the connection is at its end, so whatever size the stale header
\* asks for nothing comes and the name is empty.
NameTurn(w, k, r) ==
    /\ RecvTurn(csock[w], NameLen[csock[w]], got[w], k, r)
    /\ \/ /\ r = Again
          /\ got' = [got EXCEPT ![w] = k]
          /\ UNCHANGED <<wpc, name>>
       \/ /\ r # Again
          /\ Goto(w, "access")
          /\ got' = [got EXCEPT ![w] = 0]
          /\ name' = [name EXCEPT ![w] = ShortName[csock[w]][k]]

RecvName(w) ==
    /\ wpc[w] = "name"
    /\ \E k \in 0 .. NameLen[csock[w]], r \in -2 .. NameLen[csock[w]] : NameTurn(w, k, r)
    /\ UNCHANGED <<server, brk, mtx, csock, whole, left, disk,
                   link, srvEnd, ackd, backlog>>

Access_NoPrompt(w) ==  \* mutated form: an existing file is not asked about
    /\ wpc[w] = "access"
    /\ Goto(w, "open")
    /\ UNCHANGED <<server, brk, mtx, locals, disk, wireVars>>

\* access(name): an existing file is put to the operator.
Access(w) ==
    /\ wpc[w] = "access"
    /\ IF name[w] \in Names /\ file[name[w]].there
         THEN Goto(w, "prompt")
         ELSE Goto(w, "open")
    /\ UNCHANGED <<server, brk, mtx, locals, disk, wireVars>>

\* The worker returns from run(); csock's destructor closes the connection.
\* (csock[w] keeps its value: the connection the worker was lost on.)
Leave(w) ==
    /\ Goto(w, "exited")
    /\ srvEnd' = [srvEnd EXCEPT ![csock[w]] = "closed"]
    /\ UNCHANGED <<server, brk, mtx, locals, disk, sent, rcvd, link, ackd, backlog>>

\* "Do you want overrite it?[yes/no]": anything but yes closes the connection
\* and returns from run().
Prompt(w) ==
    /\ wpc[w] = "prompt"
    /\ \/ /\ Goto(w, "remove")
          /\ UNCHANGED <<server, brk, mtx, locals, disk, wireVars>>
       \/ /\ "refuse" \in Faults
          /\ Leave(w)

\* remove(name), its result ignored: Windows does not remove a file that a
\* worker is writing or another process holds, one that a client is reading
\* from the same directory for example.
Remove(w) ==
    /\ wpc[w] = "remove"
    /\ \/ /\ \A v \in Workers : ~Writing(v, name[w])
          /\ file' = [file EXCEPT ![name[w]] = Absent]
       \/ /\ "held" \in Faults \/ \E v \in Workers : Writing(v, name[w])
          /\ UNCHANGED file
    /\ Goto(w, "overwrite")
    /\ UNCHANGED <<server, brk, mtx, locals, saved, wireVars>>

\* of.open(name) creates the file, or truncates the one that is there: behind
\* remove one that could not be removed, otherwise one that appeared since access.
Open(w) ==
    /\ wpc[w] \in {"overwrite", "open"}
    /\ name[w] # NoName
    /\ file' = [file EXCEPT ![name[w]] =
                  [there |-> TRUE, by |-> csock[w], bytes |-> <<>>,
                   alone |-> \A v \in Workers : ~Writing(v, name[w])]]
    /\ Goto(w, "data")
    /\ UNCHANGED <<server, brk, mtx, locals, saved, wireVars>>

\* "create file failed!": always for the empty name.
OpenFails(w) ==
    /\ wpc[w] \in {"overwrite", "open"}
    /\ name[w] = NoName \/ "createfail" \in Faults
    /\ Leave(w)

\* What a file holds after `n' bytes of session s are written at offset `off'.
WriteBytes(bytes, off, n, s) ==
    [i \in 1 .. IF off + n > Len(bytes) THEN off + n ELSE Len(bytes) |->
       IF i \in off + 1 .. off + n THEN s
       ELSE IF i <= Len(bytes) THEN bytes[i] ELSE Hole]

BytesLeft_EndsAtEof(s, l, r) ==  \* mutated form: the loop ends with the stream
    IF r = 0 THEN 0 ELSE IF l - r > DataLen[s] + SpinCap THEN l ELSE l - r

BytesLeft_Twice(s, l, r) == l - 2 * r  \* mutated form: taken off twice

\* bytes_left -= bytes_recv, where -1 adds one (as far as SpinCap lets it).
BytesLeft(s, l, r) == IF l - r > DataLen[s] + SpinCap THEN l ELSE l - r

\* byte_to_recv
ChunkOf(l) == IF l < Chunk THEN l ELSE Chunk

\* One turn of the data loop's recv and, when it returns, of the loop: the test
\* `recv > 0' compares the address of ::recv, so that every result is taken: 0
\* writes and changes nothing, -1 only fails the stream and the loop goes on.
DataTurn(w, k, r) ==
    LET s == csock[w] IN
    /\ RecvTurn(s, ChunkOf(left[w]), got[w], k, r)
    /\ \/ /\ r = Again
          /\ got' = [got EXCEPT ![w] = k]
          /\ UNCHANGED <<left, file>>
       \/ /\ r # Again
          /\ got' = [got EXCEPT ![w] = 0]
          /\ left' = [left EXCEPT ![w] = BytesLeft(s, @, r)]
          /\ file' = IF r > 0
                       THEN [file EXCEPT ![name[w]].bytes =
                               WriteBytes(@, DataLen[s] - left[w], r, s)]
                       ELSE file

RecvData(w) ==
    /\ wpc[w] = "data"
    /\ left[w] > 0
    /\ \E k \in 0 .. ChunkOf(left[w]), r \in -2 .. ChunkOf(left[w]) : DataTurn(w, k, r)
    /\ UNCHANGED <<server, brk, mtx, wpc, csock, whole, name, saved,
                   link, srvEnd, ackd, backlog>>

\* The loop is over: of.close() and "congratulations, save file complete".
SaveComplete(w) ==
    /\ wpc[w] = "data"
    /\ left[w] <= 0
    /\ saved' = saved \cup {csock[w]}
    /\ Goto(w, "ack")
    /\ UNCHANGED <<server, brk, mtx, locals, file, wireVars>>

\* sock_obj->send("ACK", sizeof("ACK")): sock_obj is the listening socket.
SendAck(w) ==
    /\ wpc[w] = "ack"
    /\ SendBytes(NoSession, 4)
    /\ Goto(w, "shutdown")
    /\ UNCHANGED <<server, brk, mtx, locals, disk, sent, rcvd, link, srvEnd, backlog>>

Shutdown_StaysOpen(w) ==  \* mutated form: the connection is not closed
    /\ wpc[w] = "shutdown"
    /\ csock' = [csock EXCEPT ![w] = NoSession]
    /\ Goto(w, "check")
    /\ UNCHANGED <<server, brk, mtx, got, whole, name, left, disk, wireVars>>

\* csock.shutdown(), then csock's destructor at the end of the loop's body.
Shutdown(w) ==
    /\ wpc[w] = "shutdown"
    /\ srvEnd' = [srvEnd EXCEPT ![csock[w]] = "closed"]
    /\ csock' = [csock EXCEPT ![w] = NoSession]
    /\ Goto(w, "check")
    /\ UNCHANGED <<server, brk, mtx, got, whole, name, left, disk, sent, rcvd, link, ackd, backlog>>

LoopCheck_Negated(w) ==  \* mutated form: while (brk_sig_received)
    /\ wpc[w] = "check"
    /\ Goto(w, IF brk THEN "lock" ELSE "exited")
    /\ UNCHANGED <<server, brk, mtx, locals, disk, wireVars>>

LoopCheck_Forever(w) ==  \* mutated form: while (true)
    /\ wpc[w] = "check"
    /\ Goto(w, "lock")
    /\ UNCHANGED <<server, brk, mtx, locals, disk, wireVars>>

\* while (!brk_sig_received)
LoopCheck(w) ==
    /\ wpc[w] = "check"
    /\ Goto(w, IF brk THEN "exited" ELSE "lock")
    /\ UNCHANGED <<server, brk, mtx, locals, disk, wireVars>>

WorkerStep(w) ==
    \/ Lock(w) \/ Accept(w) \/ Unlock(w)
    \/ RecvHeader(w) \/ RecvName(w)
    \/ Access(w) \/ Prompt(w) \/ Remove(w) \/ Open(w) \/ OpenFails(w)
    \/ RecvData(w) \/ SaveComplete(w) \/ SendAck(w) \/ Shutdown(w)
    \/ LoopCheck(w)

\* Threads run while the process does.
Worker(w) == server = "listening" /\ WorkerStep(w)

ServerNext ==
    \/ Listen \/ ListenFails \/ JoinAll \/ Break
    \/ \E w \in Workers : Spawn(w) \/ Worker(w)
=============================================================================
