------------------------------ MODULE Transfer ------------------------------
(***************************************************************************)
(* The whole program: one transmission server with its worker threads, the *)
(* clients that connect to it, the connections between them and the        *)
(* server's directory; and what a transfer is meant to guarantee.          *)
(***************************************************************************)
EXTENDS TransmissionClient

vars == <<wireVars, serverVars, clientVars>>

Init == WireInit /\ ServerInit /\ ClientInit

Next ==
    \/ ServerNext /\ UNCHANGED clientVars
    \/ ClientNext

Spec == Init /\ [][Next]_vars

\* Threads are scheduled by the system, so a step of the server or of a
\* client's program that stays possible is taken.  A session that nothing goes
\* wrong with also connects and has its file name typed; the operator answers
\* a prompt; nobody has to press Ctrl-Break.
Fairness ==
    /\ WF_vars((Listen \/ JoinAll) /\ UNCHANGED clientVars)
    /\ \A w \in Workers : WF_vars((Spawn(w) \/ Worker(w)) /\ UNCHANGED clientVars)
    /\ \A s \in Sessions : WF_vars(ClientProgram(s))
    /\ \A s \in Sessions \ Faulty : WF_vars(Connect(s) \/ OpenFile(s))

FairSpec == Spec /\ Fairness

TypeOK == WireTypeOK /\ ServerTypeOK /\ ClientTypeOK

-----------------------------------------------------------------------------
(* Safety *)

\* A worker is inside accept() only as the owner of mtx, and the owner is
\* never anywhere else: two workers do not wait on the listening socket
\* together, and no path keeps the mutex (transmission_server.cpp:89-91).
AcceptExclusion ==
    \A w \in Workers : (mtx = w) <=> wpc[w] \in {"accept", "unlock"}

\* A connection has one reader: no two workers serve the same session, the
\* backlog holds no session twice and none that is served, and no one closes a
\* connection under the worker whose csock it is.
OneReader ==
    /\ \A v, w \in Workers :
          wpc[v] \in Serving /\ wpc[w] \in Serving /\ csock[v] = csock[w] => v = w
    /\ server = "listening" =>
         \A w \in Workers : wpc[w] \in Serving => srvEnd[csock[w]] = "served"
    /\ \A i, j \in 1 .. Len(backlog) :
          /\ srvEnd[backlog[i]] = "queued"
          /\ backlog[i] = backlog[j] => i = j

\* A file is only ever created or truncated for a header that came whole.  A
\* short header is not noticed (transmission_server.cpp:96-103); it is the
\* empty name behind it that keeps the stale header away from the disk.
WholeHeaderBeforeOpen ==
    \A w \in Workers : wpc[w] \in {"data", "ack", "shutdown"} => whole[w]

\* "save file complete" is printed with the stream exactly at the end of the
\* session's frame and the file under the name its client gave, except for an
\* empty file whose connection ended in the middle of its name.
SavedMeansAllRead ==
    \A w \in Workers : \A s \in {csock[w]} :
        wpc[w] \in {"ack", "shutdown"} =>
            \/ rcvd[s] = FrameLen(s) /\ name[w] = ShortName[s][NameLen[s]]
            \/ DataLen[s] = 0 /\ rcvd[s] < FrameLen(s) /\ link[s] \in {"fin", "reset"}

\* What the server reports as saved is what the client announced: unless some
\* other worker had the file open when the session opened it, it holds every
\* byte of the session's data, in order, until the file is opened again.
ContentIntegrity ==
    \A s \in saved : \A n \in Names :
        file[n].by = s /\ file[n].alone =>
            file[n].bytes = [i \in 1 .. DataLen[s] |-> s]

\* While the server runs, a client that reports success has its file saved, or
\* its connection was closed by a worker that left run() over it, or it was
\* reset or cut off: the results of ::send and ::recv that would say so are not
\* looked at (transmission_client.cpp:94-114).  There is no other way to the
\* message than these, a connection that is closed with its file in part for one.
SuccessHasACause ==
    \A s \in Sessions :
        cpc[s] = "done" /\ server = "listening" =>
            \/ s \in saved
            \/ \E w \in Workers : wpc[w] = "exited" /\ csock[w] = s
            \/ link[s] \in {"reset", "cut"}

\* The session cost the worker its life by ending before its name was there:
\* the empty name is the one that of.open never takes.
NamelessEnd(s) == rcvd[s] < HdrLen + NameLen[s] /\ link[s] \in {"fin", "reset"}

\* A worker leaves run() for good with Ctrl-Break, between two sessions, or, at
\* most one for each, over a session whose connection ended before its name was
\* there (a worker with a name only when the operator refuses or the file cannot
\* be created): a reset, a FIN or a client left hanging anywhere else does not
\* end a worker (transmission_server.cpp:96-138).
LostWorkerHasACause ==
    /\ \A w \in Workers :
          wpc[w] = "exited" =>
              \/ csock[w] = NoSession /\ brk
              \/ /\ csock[w] \in Sessions
                 /\ IF name[w] = NoName
                      THEN NamelessEnd(csock[w])
                      ELSE Faults \cap {"refuse", "createfail"} # {}
    /\ \A v, w \in Workers :
          wpc[v] = "exited" /\ wpc[w] = "exited" /\ csock[v] = csock[w]
              => v = w \/ csock[w] = NoSession

\* With one worker, a file that exists is changed only by the worker whose open
\* created it, or removed or truncated by one that asked the operator about it
\* and was told yes; whether or not it could be removed, a file that nobody was
\* asked about is never opened over (transmission_server.cpp:118-133).
ChangedOnlyByConsent ==
    [][\A n \in Names :
         file[n].there /\ file'[n] # file[n] =>
             \E w \in Workers :
                /\ name[w] = n
                /\ \/ wpc[w] \in {"remove", "overwrite"}
                   \/ wpc[w] = "data" /\ file[n].by = csock[w]]_vars

-----------------------------------------------------------------------------
(* What the directory looks like from outside *)

Dir == INSTANCE Directory
         WITH Sources <- Sessions, NoSource <- NoSession,
              Size <- DataLen, Old <- Existing,
              dir <- [n \in Names |-> [there |-> file[n].there,
                                      by    |-> file[n].by,
                                      bytes |-> file[n].bytes]],
              agreed <- {name[w] : w \in {v \in Workers :
                                            wpc[v] \in {"remove", "overwrite"}}}

\* A server with one worker keeps the directory as Directory promises: no file
\* is opened over another unless the operator agreed to that name since the last
\* open, a file only grows by its own session's next bytes, and "save file
\* complete" is printed for a whole file
\* (transmission_server.cpp:118-161).
ImplementsDirectory == Dir!DirSpec

-----------------------------------------------------------------------------
(* Liveness *)

\* Until Ctrl-Break, and as long as fewer sessions go wrong than there are
\* workers, every other session's file is saved and its client gets its answer:
\* a client that leaves, resets, vanishes or sends less than it announced costs
\* the server one worker at most.
OthersAreServed ==
    \A s \in Sessions \ Faulty :
        cpc[s] = "sending" ~> brk \/ (s \in saved /\ cpc[s] = "done")

\* The worker can no longer keep the server from ending after Ctrl-Break: it
\* has left run(), or is past accept() with a session that nothing goes wrong
\* with.
Finishing(w) ==
    \/ wpc[w] = "exited"
    \/ wpc[w] \notin {"unborn", "lock", "accept"} /\ csock[w] \notin Faulty

\* Ctrl-Break ends the server once no worker waits for a client any more: the
\* transfers under way are finished and no new one is begun.
DrainsAfterBreak ==
    brk /\ (\A w \in Workers : Finishing(w)) ~> server \in {"exited", "killed"}

-----------------------------------------------------------------------------
(* What the code's own comments and messages say of it *)

\* The client prints "received ACK" when it has received the acknowledgement
\* (transmission_client.cpp:114; transmission_def.h:60, "receive_complete from
\* server").
AckReceived == \A s \in Sessions : cpc[s] = "done" => ackd[s] >= 4

\* A connection that ends before its data is complete is noticed: "connection
\* missing!" (transmission_server.cpp:152).
MissingConnectionNoticed ==
    \A w \in Workers :
        wpc[w] = "data" /\ link[csock[w]] = "fin" ~> wpc[w] # "data"

\* "save file complete" (transmission_server.cpp:161): the file that was saved
\* last under a name, with nobody writing it any more, is a session's data.
SaveFileComplete ==
    \A n \in Names :
        file[n].by \in saved /\ (\A w \in Workers : ~Writing(w, n)) =>
            file[n].bytes = [i \in 1 .. DataLen[file[n].by] |-> file[n].by]
=============================================================================
