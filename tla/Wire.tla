-------------------------------- MODULE Wire --------------------------------
(***************************************************************************)
(* The TCP connections between transmission clients and the transmission   *)
(* server, as xxsocket.cpp uses them.                                      *)
(*                                                                         *)
(* A session is one turn of the client's do-while loop: one connection,    *)
(* one file.  What a client puts on the wire is one frame                  *)
(*        header (HdrLen) ++ name (NameLen[s]) ++ data (DataLen[s])        *)
(* and every byte of it is known from its position, so a connection is     *)
(* kept as two counters: how many bytes of the frame have arrived at the   *)
(* server's socket and how many of them the server has read.               *)
(***************************************************************************)
EXTENDS Integers, Sequences

CONSTANTS
    Sessions,   \* the sessions, over all clients
    NoSession,  \* no connection
    HdrLen,     \* sftp_header::size (12 in the code; any positive number here)
    NameLen,    \* [Sessions -> length of the name the client sends]
    DataLen     \* [Sessions -> header.datasize, the size of the file]

ASSUME SessionsAssumption == NoSession \notin Sessions

ASSUME FrameAssumption ==
    /\ HdrLen \in Nat \ {0}
    /\ NameLen \in [Sessions -> Nat \ {0}]
    /\ DataLen \in [Sessions -> Nat]

VARIABLES
    sent,     \* sent[s]: bytes of s's frame that reached the server's socket
    rcvd,     \* rcvd[s]: bytes of them that ::recv has returned
    link,     \* link[s]: how the client's half of the connection stands
    srvEnd,   \* srvEnd[s]: who holds the server's half of the connection
    ackd,     \* ackd[s]: bytes the server has sent to the client
    backlog   \* connections waiting for ::accept, oldest first

wireVars == <<sent, rcvd, link, srvEnd, ackd, backlog>>

FrameLen(s) == HdrLen + NameLen[s] + DataLen[s]

\* The client's half: not connected, connected, closed in order (FIN), torn down
\* (RST), or cut off: nothing gets through any more, and nobody is told.
LinkStates == {"none", "open", "fin", "reset", "cut"}

\* The server's half: not there, in the backlog, held by a worker, closed, or
\* let go by release() with its descriptor never closed.
SrvStates == {"none", "queued", "served", "closed", "leaked"}

WireTypeOK ==
    /\ sent    \in [Sessions -> Nat]
    /\ rcvd    \in [Sessions -> Nat]
    /\ link    \in [Sessions -> LinkStates]
    /\ srvEnd  \in [Sessions -> SrvStates]
    /\ ackd    \in [Sessions -> Nat]
    /\ backlog \in Seq(Sessions)

WireInit ==
    /\ sent    = [s \in Sessions |-> 0]
    /\ rcvd    = [s \in Sessions |-> 0]
    /\ link    = [s \in Sessions |-> "none"]
    /\ srvEnd  = [s \in Sessions |-> "none"]
    /\ ackd    = [s \in Sessions |-> 0]
    /\ backlog = <<>>

\* What the loop of xxsocket::recv decides after one ::recv when it neither
\* returns a count nor an error: go round again.
Again == -2

\* The loop's condition after a ::recv that returned something.
LoopsOn_Once(k, want) == FALSE  \* mutated form: a single ::recv, no loop
LoopsOn(k, want) == k < want

\* One turn of the do-while of xxsocket::recv on connection s, asked for `want'
\* bytes with `got' of them already in the caller's buffer: afterwards `k' bytes
\* are there and the function returns r, or goes round (r = Again).  ::recv
\* hands over any non-empty part of what has arrived, 0 after the peer's FIN,
\* and -1 after a reset (what was still in flight is then gone); since the sum
\* is updated before it is tested, an error after k bytes returns k - 1.
RecvTurn(s, want, got, k, r) ==
    \/ /\ k \in got + 1 .. want
       /\ k - got <= sent[s] - rcvd[s]
       /\ rcvd' = [rcvd EXCEPT ![s] = @ + (k - got)]
       /\ r = IF LoopsOn(k, want) THEN Again ELSE k
       /\ UNCHANGED sent
    \/ /\ link[s] = "fin"
       /\ sent[s] = rcvd[s]
       /\ k = got
       /\ r = k
       /\ UNCHANGED <<sent, rcvd>>
    \/ /\ link[s] = "reset"
       /\ k = got
       /\ r = k - 1
       /\ sent' = [sent EXCEPT ![s] = rcvd[s]]
       /\ UNCHANGED rcvd

\* ::send of n bytes on the descriptor of `to'.  A listening socket is not
\* connected: ::send on it fails with WSAENOTCONN and nobody receives anything.
SendBytes(to, n) ==
    ackd' = [s \in Sessions |-> IF s = to THEN ackd[s] + n ELSE ackd[s]]

\* The end of the server process closes every socket it has, the backlog's too.
CloseServerEnds ==
    srvEnd' = [s \in Sessions |->
                 IF srvEnd[s] = "none" THEN "none" ELSE "closed"]
=============================================================================
