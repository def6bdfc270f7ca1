------------------------------ MODULE StreamIO ------------------------------
(***************************************************************************)
(* Reading from and writing to a connected socket: xxsocket's send, recv,  *)
(* send_n, recv_n and read_until, and the older class's sliced send and    *)
(* recv.  Sending and receiving loop in the same way, so one model stands  *)
(* for both: a call moves bytes between its buffer and the connection.     *)
(***************************************************************************)
EXTENDS Integers, Sequences, FiniteSets

CONSTANTS
    MaxLen,     \* the longest buffer a call is given
    Stream,     \* bytes the peer sends, or takes, at most
    Drift       \* bound on how far a sliced call's count and pointer run off

VARIABLES
    call,       \* the call: op, len, slicelen, nonblocking, and where in the
                \* stream a delimiter ends
    pc,         \* where it is
    base,       \* ptr: the offset its inner loop works at
    part,       \* the bytes its inner loop is asked for
    count,      \* bytes_transferred of its (inner) loop
    leavings,   \* bytes_leavings of the sliced forms
    retry,      \* retry of read_until
    moved,      \* the buffer offsets of the bytes moved, in the stream's order
    peer,       \* bytes the peer still sends or takes, and how its end stands
    late,       \* a select of this call has timed out
    result      \* what it returned

streamVars == <<call, pc, base, part, count, leavings, retry, moved, peer, late, result>>

Plain  == {"send", "recv"}
Timed  == {"send_n", "recv_n"}
Sliced == {"sliced send", "sliced recv"}
Ops    == Plain \cup Timed \cup Sliced \cup {"read_until"}

\* read_until's buffer of 128 bytes, and its three tries.
BufLen == 2
Retries == 3

Calls == [op : Ops, len : 1 .. MaxLen, slice : 1 .. MaxLen,
          nonblocking : BOOLEAN, delims : SUBSET (1 .. Stream)]

NoCall == [op |-> "recv", len |-> 1, slice |-> 1, nonblocking |-> FALSE, delims |-> {}]

Steps == {"idle", "io", "wait", "returned"}

StreamTypeOK ==
    /\ call \in Calls
    /\ pc \in Steps
    /\ base \in Nat /\ part \in Nat /\ count \in Int /\ leavings \in Int
    /\ retry \in 0 .. Retries
    /\ moved \in Seq(Nat)
    /\ peer \in [left : 0 .. Stream, link : {"open", "fin", "reset"}]
    /\ late \in BOOLEAN
    /\ result \in Int

StreamInit ==
    /\ call = NoCall
    /\ pc = "idle"
    /\ base = 0 /\ part = 0 /\ count = 0 /\ leavings = 0
    /\ retry = Retries
    /\ moved = <<>>
    /\ peer = [left |-> Stream, link |-> "open"]
    /\ late = FALSE
    /\ result = 0

Receives == call.op \in {"recv", "recv_n", "sliced recv", "read_until"}

\* Arguments an operation does not have are not varied.
Begin(c) ==
    /\ pc = "idle"
    /\ c.op \notin Sliced => c.slice = c.len
    /\ c.op = "read_until" => c.len = 1
    /\ c.op # "read_until" => c.delims = {}
    /\ call' = c
    /\ pc' = "io"
    /\ part' = CASE c.op \in Sliced -> IF c.len > c.slice THEN c.slice ELSE c.len
                 [] c.op = "read_until" -> BufLen
                 [] OTHER -> c.len
    /\ leavings' = c.len
    /\ UNCHANGED <<base, count, retry, moved, peer, late, result>>

-----------------------------------------------------------------------------
(* The system's side *)

\* The connection ends: in order, or torn down, which loses what is on its way.
PeerEnds(how) ==
    /\ peer.link # "reset" /\ how # peer.link
    /\ peer' = IF how = "reset" THEN [left |-> 0, link |-> how]
                                ELSE [peer EXCEPT !.link = how]
    /\ UNCHANGED <<call, pc, base, part, count, leavings, retry, moved, late, result>>

\* One ::recv or ::send of at most k bytes: any part of what is there; 0 at the
\* end of what the peer sends; an error.  On a blocking socket there is no
\* answer while nothing arrives.
Given(k) ==
    (1 .. IF k < peer.left THEN k ELSE peer.left)
    \cup (IF Receives /\ peer.link = "fin" /\ peer.left = 0 THEN {0} ELSE {})
    \cup (IF peer.link = "reset" THEN {-1} ELSE {})

WouldBlock == call.nonblocking /\ peer.link = "open"

\* n bytes go from, or to, the buffer at the place the loop has reached.
Move(n) ==
    /\ moved' = IF n > 0 THEN moved \o [i \in 1 .. n |-> base + count + i] ELSE moved
    /\ peer' = IF n > 0 THEN [peer EXCEPT !.left = @ - n] ELSE peer

Return(r) == pc' = "returned" /\ result' = r

-----------------------------------------------------------------------------
(* send, recv *)

\* One turn of the do-while of send or recv, which returns bytes_transferred
\* with an error's -1 already added to it.
LoopsOn_PastErrors(n) == count + n < part  \* mutated form: n > 0 is not tested
LoopsOn(n) == count + n < part /\ n > 0

PlainTurn(n) ==
    /\ call.op \in Plain
    /\ Move(n)
    /\ count' = count + n
    /\ IF LoopsOn(n) THEN UNCHANGED <<pc, result>> ELSE Return(count + n)
    /\ UNCHANGED <<call, base, part, leavings, retry, late>>

\* The sliced forms run such a loop on one slice after the other.  They take
\* its result off what is left, also when it is 0 or -1, and move the pointer by
\* a whole slice, until nothing is left.
Clip(k, most) == IF k > most THEN most ELSE k

SlicedTurn(n) ==
    /\ call.op \in Sliced
    /\ Move(n)
    /\ IF LoopsOn(n)
         THEN count' = count + n /\ UNCHANGED <<pc, base, part, leavings, result>>
         ELSE LET l == Clip(leavings - (count + n), call.len + Drift) IN
              /\ leavings' = l
              /\ base' = IF leavings > call.slice
                           THEN Clip(base + call.slice, call.len + Drift)
                           ELSE base
              /\ count' = 0
              /\ part' = IF l > call.slice THEN call.slice ELSE IF l > 0 THEN l ELSE 0
              /\ IF l > 0 THEN UNCHANGED <<pc, result>> ELSE Return(call.len - l)
    /\ UNCHANGED <<call, retry, late>>

-----------------------------------------------------------------------------
(* send_n, recv_n *)

\* An answer that is not positive ends the call, however much it has moved.
TimedTurn(n) ==
    /\ call.op \in Timed
    /\ Move(n)
    /\ IF n > 0 /\ count + n < part
         THEN count' = count + n /\ UNCHANGED <<pc, result>>
         ELSE /\ count' = count
              /\ Return(IF n > 0 THEN count + n ELSE n)
    /\ UNCHANGED <<call, base, part, leavings, retry, late>>

\* EWOULDBLOCK and the like: wait in select.
TimedBlocks ==
    /\ call.op \in Timed
    /\ pc' = "wait"
    /\ UNCHANGED <<call, base, part, count, leavings, retry, moved, peer, late, result>>

\* The test is whether select failed: when it timed out the loop goes on.
SelectEnds(rtn) == rtn = -1

TimedWaits(rtn) ==
    /\ call.op \in Timed
    /\ IF SelectEnds(rtn) THEN Return(-1) ELSE pc' = "io" /\ UNCHANGED result
    /\ UNCHANGED <<call, base, part, count, leavings, retry, moved, peer>>

-----------------------------------------------------------------------------
(* read_until *)

\* Received bytes are appended, and the end of the buffer, nothing before it,
\* is compared with the delimiters.
EndsWithDelim_Anywhere(k) ==  \* mutated form: the delimiter is searched for
    \E d \in call.delims : d <= k
EndsWithDelim(k) == k \in call.delims

\* An end or an error uses up a try.
Retry ==
    /\ retry' = retry - 1
    /\ IF retry = 1 THEN Return(0) ELSE pc' = "io" /\ UNCHANGED result

ReadTurn(n) ==
    /\ call.op = "read_until"
    /\ Move(n)
    /\ IF n > 0
         THEN /\ count' = count + n
              /\ IF EndsWithDelim(count + n) THEN Return(1) ELSE UNCHANGED <<pc, result>>
              /\ UNCHANGED retry
         ELSE /\ Retry
              /\ UNCHANGED count
    /\ UNCHANGED <<call, base, part, leavings, late>>

ReadBlocks ==
    /\ call.op = "read_until"
    /\ pc' = "wait"
    /\ UNCHANGED <<call, base, part, count, leavings, retry, moved, peer, late, result>>

\* A wait that timed out does not use up a try.
ReadWaits(rtn) ==
    /\ call.op = "read_until"
    /\ IF SelectEnds(rtn) THEN Retry ELSE pc' = "io" /\ UNCHANGED <<retry, result>>
    /\ UNCHANGED <<call, base, part, count, leavings, moved, peer>>

-----------------------------------------------------------------------------

\* A call's ::send or ::recv answers.
Turn ==
    /\ pc = "io"
    /\ \/ \E n \in Given(part - count) : PlainTurn(n) \/ SlicedTurn(n) \/ TimedTurn(n)
       \/ \E n \in Given(part) : ReadTurn(n)
       \/ WouldBlock /\ (PlainTurn(-1) \/ SlicedTurn(-1) \/ TimedBlocks \/ ReadBlocks)

\* select finds the socket ready, fails, or, while there is nothing, times out.
Select ==
    /\ pc = "wait"
    /\ \E rtn \in {-1, 0, 1} :
         /\ rtn = 0 => peer.link = "open"
         /\ rtn = 1 => peer.left > 0 \/ peer.link # "open"
         /\ late' = (late \/ rtn = 0)
         /\ TimedWaits(rtn) \/ ReadWaits(rtn)

Step == Turn \/ Select

StreamNext ==
    \/ \E c \in Calls : Begin(c)
    \/ Step
    \/ \E how \in {"fin", "reset"} : PeerEnds(how)

\* The thread that made the call runs.
StreamSpec == StreamInit /\ [][StreamNext]_streamVars /\ WF_streamVars(Step)

-----------------------------------------------------------------------------

Blocking == ~call.nonblocking

\* The connection has nothing more for the call.
Over == peer.link = "reset" \/ (Receives /\ peer.link = "fin")

\* Every byte is put, or taken from, right behind the one before, from the start
\* of the buffer: no byte is lost, doubled or out of place, however the system
\* splits the stream.  For the sliced forms that takes a blocking socket: on
\* another one the pointer moves by more than was moved.
InOrder ==
    call.op \notin Sliced \/ Blocking => moved = [i \in 1 .. Len(moved) |-> i]

\* A call that returns says what it moved.  send and recv count an error that
\* comes after some bytes as one byte less; send_n and recv_n say nothing of the
\* bytes moved before an error; a sliced call on a blocking socket returns only
\* with all it was asked for; read_until says yes when what it read ends with
\* the delimiters, and no on a blocking socket only at the connection's end.
CountsWhatMoved ==
    pc = "returned" =>
        CASE call.op \in Plain ->
               \/ result = Len(moved)
               \/ result = Len(moved) - 1 /\ (Over \/ ~Blocking)
          [] call.op \in Timed ->
               IF result > 0 THEN result = call.len /\ Len(moved) = call.len
                             ELSE Len(moved) < call.len
          [] call.op \in Sliced ->
               Blocking => result = call.len /\ Len(moved) = call.len
          [] call.op = "read_until" ->
               /\ result = 1 <=> Len(moved) \in call.delims
               /\ result = 0 => Over \/ ~Blocking

\* On a connection that is over a call returns, except the sliced forms, which
\* go round for ever taking nothing off what is left.
CallsReturn ==
    call.op \notin Sliced /\ pc # "idle" /\ Over ~> pc = "returned"

\* "Wait upto <timeout> for the blocking to subside"; "Wait in select() timed
\* out ...  return n" (xxsocket.cpp:937, 950): a call whose wait times out
\* returns.
TimeoutEnds == late /\ call.op \in Timed ~> pc = "returned"
=============================================================================
