------------------------- MODULE TransmissionClient -------------------------
(***************************************************************************)
(* transmission_client.cpp: start().  One turn of its do-while loop is a   *)
(* session; Prev[s] is the session whose turn came before in the same      *)
(* process, if any.  At any moment the process can end, and the connection *)
(* can be reset or cut off under a client that goes on.                    *)
(***************************************************************************)
EXTENDS TransmissionServer

CONSTANTS
    Prev,      \* [Sessions -> Sessions \cup {NoSession}]
    Faulty,    \* the sessions that the environment's misfortunes may hit
    BufSize    \* sizeof(buffer) of the client: 32 MB

ASSUME ClientAssumption ==
    /\ Prev \in [Sessions -> Sessions \cup {NoSession}]
    /\ Faulty \subseteq Sessions
    /\ BufSize \in Nat /\ \A s \in Sessions : HdrLen + NameLen[s] <= BufSize

VARIABLES
    cpc,      \* cpc[s]: where the client is in the session
    readable  \* readable[s]: bytes of the file there are when it is read

clientVars == <<cpc, readable>>

\* `idle' before connect, `named' while the name is typed, `sending', `waitack'
\* in recv, `done' after "received ACK, ...", `failed' when start returned
\* false or the process ended.
ClientSteps == {"idle", "named", "sending", "waitack", "done", "failed"}

ClientTypeOK ==
    /\ cpc \in [Sessions -> ClientSteps]
    /\ readable \in [Sessions -> Nat]

ClientInit ==
    /\ cpc = [s \in Sessions |-> "idle"]
    /\ readable = DataLen

ClientGoto(s, step) == cpc' = [cpc EXCEPT ![s] = step]

MayFail(s, fault) == s \in Faulty /\ fault \in Faults

\* The bytes the client hands to ::send before it stops.  It sends whole
\* buffers; the first begins with header and name; the one in which the file
\* ends before its announced size is the last (fin.eof()), padded with whatever
\* the static buffer held.
SendLimit(s) ==
    LET lastBuffer == ((HdrLen + NameLen[s] + readable[s]) \div BufSize + 1) * BufSize
    IN  IF lastBuffer < FrameLen(s) THEN lastBuffer ELSE FrameLen(s)

\* connect: the kernel of the server's host completes it and queues the
\* connection for ::accept.
Connect(s) ==
    /\ cpc[s] = "idle"
    /\ Prev[s] # NoSession => cpc[Prev[s]] = "done"
    /\ IF server = "listening"
         THEN /\ ClientGoto(s, "named")
              /\ link' = [link EXCEPT ![s] = "open"]
              /\ srvEnd' = [srvEnd EXCEPT ![s] = "queued"]
              /\ backlog' = Append(backlog, s)
         ELSE /\ ClientGoto(s, "failed")
              /\ UNCHANGED <<link, srvEnd, backlog>>
    /\ UNCHANGED <<readable, sent, rcvd, ackd, serverVars>>

\* The name is typed, the file opened and its size taken for the header.  The
\* file may have become shorter by the time it is read.
OpenFile(s) ==
    /\ cpc[s] = "named"
    /\ \E n \in 0 .. DataLen[s] :
         /\ n < DataLen[s] => MayFail(s, "shrink")
         /\ readable' = [readable EXCEPT ![s] = n]
    /\ ClientGoto(s, "sending")
    /\ UNCHANGED <<wireVars, serverVars>>

\* What is left of the connection when the process ends: the kernel sends a FIN,
\* which only arrives if the connection is still there.
Hangup(s) == link' = [link EXCEPT ![s] = IF @ = "open" THEN "fin" ELSE @]

\* "open failed!": start returns false and the process ends.
OpenFileFails(s) ==
    /\ cpc[s] = "named"
    /\ MayFail(s, "openfail")
    /\ ClientGoto(s, "failed")
    /\ Hangup(s)
    /\ UNCHANGED <<readable, sent, rcvd, srvEnd, ackd, backlog, serverVars>>

\* ::send moves some more of the frame to the server's socket.
Send(s) ==
    /\ cpc[s] = "sending"
    /\ link[s] = "open" /\ srvEnd[s] # "closed"
    /\ sent[s] < SendLimit(s)
    /\ \E n \in 1 .. SendLimit(s) - sent[s] : sent' = [sent EXCEPT ![s] = @ + n]
    /\ UNCHANGED <<clientVars, rcvd, link, srvEnd, ackd, backlog, serverVars>>

\* The client finds the connection torn down: the server's half was closed, or
\* it was reset.
Broken(s) == link[s] = "reset" \/ (link[s] = "open" /\ srvEnd[s] = "closed")

\* The send loop ends: all is sent, or the connection is broken, every ::send
\* returns -1 and the reads run into the end of the file.
SendOver(s) ==
    /\ cpc[s] = "sending"
    /\ sent[s] = SendLimit(s) \/ Broken(s)
    /\ ClientGoto(s, "waitack")
    /\ UNCHANGED <<readable, wireVars, serverVars>>

RecvAck_NoWait(s) ==  \* mutated form: success is reported without waiting
    /\ cpc[s] = "waitack"
    /\ ClientGoto(s, "done")
    /\ UNCHANGED <<readable, wireVars, serverVars>>

\* recv(filenamebuf, sizeof("ACK")) returns when bytes came or the connection is
\* broken; whatever it returns, "received ACK, congratulations, file
\* transmit successfully." is printed.  release() leaves the link as it is.
RecvAck(s) ==
    /\ cpc[s] = "waitack"
    /\ (link[s] = "open" /\ ackd[s] >= 4) \/ Broken(s)
    /\ ClientGoto(s, "done")
    /\ UNCHANGED <<readable, wireVars, serverVars>>

\* The client's program, apart from what the user decides.
ClientProgram(s) == Send(s) \/ SendOver(s) \/ RecvAck(s)

-----------------------------------------------------------------------------
(* What the environment does to a client that has its connection *)

Connected(s) == cpc[s] \in {"named", "sending", "waitack"}

\* The process ends, and the kernel sends a FIN for it.
Quit(s) ==
    /\ Connected(s)
    /\ MayFail(s, "quit")
    /\ ClientGoto(s, "failed")
    /\ Hangup(s)
    /\ UNCHANGED <<readable, sent, rcvd, srvEnd, ackd, backlog, serverVars>>

\* The connection is reset or cut off, alone or together with the process.  A
\* client that is left goes on: nothing it does looks at what ::send and ::recv
\* return.
Disconnect(s) ==
    /\ Connected(s)
    /\ link[s] = "open"
    /\ \/ MayFail(s, "reset")  /\ link' = [link EXCEPT ![s] = "reset"]
       \/ MayFail(s, "vanish") /\ link' = [link EXCEPT ![s] = "cut"]
    /\ UNCHANGED cpc \/ ClientGoto(s, "failed")
    /\ UNCHANGED <<readable, sent, rcvd, srvEnd, ackd, backlog, serverVars>>

\* TCP gives a cut connection up: the sends fail, or the recv for the ACK.
GiveUp(s) ==
    /\ link[s] = "cut"
    /\ \/ cpc[s] = "sending" /\ ClientGoto(s, "waitack")
       \/ cpc[s] = "waitack" /\ ClientGoto(s, "done")
    /\ UNCHANGED <<readable, wireVars, serverVars>>

ClientStep(s) ==
    \/ Connect(s) \/ OpenFile(s) \/ OpenFileFails(s) \/ ClientProgram(s)
    \/ Quit(s) \/ Disconnect(s) \/ GiveUp(s)

ClientNext == \E s \in Sessions : ClientStep(s)
=============================================================================
