------------------------------- MODULE Library ------------------------------
(***************************************************************************)
(* The classes and functions the two programs are built from, each alone.  *)
(* A behaviour has one subject and takes that component's steps, as it is  *)
(* compiled for one of the systems.  The components do not interact here:  *)
(* what they are to one another is in Transfer, for the socket and the     *)
(* header, and in ThreadPool.                                              *)
(***************************************************************************)
EXTENDS Framing, SocketHandle, Sequences

CONSTANTS
    Subjects,                                    \* the components to be run
    MaxLen, Stream, Drift,                       \* StreamIO
    Threads, Depth,                              \* Locks
    Users, Most,                                 \* KernelObjects
    Spawned,                                     \* ThreadObject
    Ptrs, Cells, Null, Deleter, Made,            \* SimplePtr
    Lines, Answers, BufCap, Turns,               \* ClientConsole
    Words, Octets, Typed,                        \* Addresses
    Texts, Delim                                 \* Strings

ASSUME StreamAssumption == MaxLen \in Nat \ {0} /\ Stream \in Nat /\ Drift \in Nat

\* A thread can enter a mutex at least once.
ASSUME LocksAssumption == Depth \in Nat \ {0}

ASSUME KernelAssumption == Most \in Nat

\* The null pointer is no object, and neither is the mark of a dead pointer.
ASSUME PointerAssumption == {Null, "dead"} \cap Cells = {} /\ Null # "dead"

\* The system fills in 16-bit words and 8-bit bytes, and Addresses numbers the
\* characters of a text from 0 to 18.
ASSUME AddressAssumption ==
    /\ \A v \in Words : v \in Nat /\ v < 65536
    /\ \A v \in Octets : v \in Nat /\ v < 256
    /\ Typed \subseteq Seq(0 .. 18)

\* A text is of characters, and these are signed.
ASSUME TextAssumption == Texts \subseteq Seq(-128 .. 127) /\ Delim \in -128 .. 127

VARIABLES
    subject,
    call, pc, base, part, count, leavings, retry, moved, peer, late, result,
    own, told, rw, rwtold, sleep, tried,
    kind, signals, timer, owner, handle, inside, posted, passed,
    thread, list, object, killed, let,
    ptr, raw, freed, crossed, wrong,
    cin, buf, opened, typed, at,
    af, addr, text, kept, stage,
    argument, forms

PosixSocket   == INSTANCE SocketHandle WITH Windows <- FALSE
OlderOn(OnWindows) == INSTANCE OlderSocket WITH Windows <- OnWindows
StreamCalls   == INSTANCE StreamIO
LocksOn(Win32) == INSTANCE Locks
Kernel        == INSTANCE KernelObjects
ThreadsOn(OnWin32) == INSTANCE ThreadObject
Pointers      == INSTANCE SimplePtr
Console       == INSTANCE ClientConsole
Address       == INSTANCE Addresses
Text          == INSTANCE Strings WITH text <- argument, result <- forms

streamVars  == <<call, pc, base, part, count, leavings, retry, moved, peer, late, result>>
lockVars    == <<own, told, rw, rwtold, sleep, tried>>
kernelVars  == <<kind, signals, timer, owner, handle, inside, posted, passed>>
objectVars  == <<thread, list, object, killed, let>>
ptrVars     == <<ptr, raw, freed, crossed, wrong>>
consoleVars == <<cin, buf, opened, typed, at>>
addressVars == <<af, addr, text, kept, stage>>
stringVars  == <<argument, forms>>

\* A component that is not the subject stands still in an initial state of its.
LibInit ==
    /\ subject \in Subjects
    /\ IF subject = "framing" THEN Init
       ELSE /\ namesize = NoWord(4) /\ datasize = NoWord(8) /\ buffer = NoWord(HdrSize)
            /\ decoded = [namesize |-> NoWord(4), datasize |-> NoWord(8)]
            /\ step = "encode namesize"
    /\ HandleInit
    /\ StreamCalls!StreamInit
    /\ LocksOn(TRUE)!LocksInit
    /\ Kernel!KernelInit
    /\ ThreadsOn(TRUE)!ObjectInit
    /\ Pointers!PtrInit
    /\ Console!ConsoleInit
    /\ Address!AddressInit
    /\ IF subject = "strings" THEN Text!StringInit
       ELSE argument = <<>> /\ forms = [call |-> "none"]

\* All but the variables of the components `moving' stand still.
Still(moving) ==
    /\ UNCHANGED subject
    /\ IF moving = "framing" THEN TRUE ELSE UNCHANGED vars
    /\ IF moving = "sockets" THEN TRUE ELSE UNCHANGED handleVars
    /\ IF moving = "stream" THEN TRUE ELSE UNCHANGED streamVars
    /\ IF moving = "locks" THEN TRUE ELSE UNCHANGED lockVars
    /\ IF moving = "kernel" THEN TRUE ELSE UNCHANGED kernelVars
    /\ IF moving = "threads" THEN TRUE ELSE UNCHANGED objectVars
    /\ IF moving = "pointers" THEN TRUE ELSE UNCHANGED ptrVars
    /\ IF moving = "console" THEN TRUE ELSE UNCHANGED consoleVars
    /\ IF moving = "addresses" THEN TRUE ELSE UNCHANGED addressVars
    /\ IF moving = "strings" THEN TRUE ELSE UNCHANGED stringVars

LibNext ==
    \/ subject = "framing" /\ Next /\ Still("framing")
    \/ subject = "winsock" /\ HandleNext /\ Still("sockets")
    \/ subject = "posix sockets" /\ PosixSocket!HandleNext /\ Still("sockets")
    \/ subject = "older winsock" /\ OlderOn(TRUE)!Next /\ hand' = hand /\ Still("sockets")
    \/ subject = "older posix sockets" /\ OlderOn(FALSE)!Next /\ hand' = hand /\ Still("sockets")
    \/ subject = "stream" /\ StreamCalls!StreamNext /\ Still("stream")
    \/ subject = "win32 locks" /\ LocksOn(TRUE)!LocksNext /\ Still("locks")
    \/ subject = "posix locks" /\ LocksOn(FALSE)!LocksNext /\ Still("locks")
    \/ subject = "kernel" /\ Kernel!KernelNext /\ Still("kernel")
    \/ subject = "win32 threads" /\ ThreadsOn(TRUE)!ObjectNext /\ Still("threads")
    \/ subject = "posix threads" /\ ThreadsOn(FALSE)!ObjectNext /\ Still("threads")
    \/ subject = "pointers" /\ Pointers!PtrNext /\ Still("pointers")
    \/ subject = "console" /\ Console!ConsoleNext /\ Still("console")
    \/ subject = "addresses" /\ Address!AddressNext /\ Still("addresses")
    \/ subject = "strings" /\ Text!StringNext /\ Still("strings")

libVars == <<subject, vars, handleVars, streamVars, lockVars, kernelVars, objectVars,
             ptrVars, consoleVars, addressVars, stringVars>>

\* The one fairness is that of a thread inside a stream call.
LibSpec == LibInit /\ [][LibNext]_libVars /\ WF_streamVars(StreamCalls!Step)

-----------------------------------------------------------------------------
(* The components' properties, by the components' names for them. *)

\* The variables of every component but the address conversion keep their types.
PartsTypeOK ==
    /\ TypeOK
    /\ HandleTypeOK
    /\ StreamCalls!StreamTypeOK
    /\ LocksOn(TRUE)!LocksTypeOK
    /\ Kernel!KernelTypeOK
    /\ ThreadsOn(TRUE)!ObjectTypeOK
    /\ Pointers!PtrTypeOK

\* Every variable keeps its type.
LibTypeOK == PartsTypeOK /\ Address!AddressTypeOK

\* On either system a socket of xxsocket somebody holds is nonblocking only where
\* its user asked for it (accept_n and connect_n set and reset the mode).
ModeByRequest ==
    CASE subject = "winsock" -> NonblockingByRequest
      [] subject = "posix sockets" -> PosixSocket!NonblockingByRequest
      [] OTHER -> TRUE

\* What connect_n of either class reports as a success is a connection, as far as
\* its select does not fail and it looks for errors at all.
ConnectedWhenTold ==
    CASE subject = "winsock" -> SuccessIsConnected
      [] subject = "posix sockets" -> PosixSocket!SuccessIsConnected
      [] subject = "older winsock" -> OlderOn(TRUE)!SuccessIsConnected
      [] subject = "older posix sockets" -> OlderOn(FALSE)!SuccessIsConnected
      [] OTHER -> TRUE

\* A descriptor of the older class is held, or was never handed out.
HeldAndOpen ==
    subject \in {"older winsock", "older posix sockets"} => OlderOn(TRUE)!HeldAndOpen

\* The bytes a stream call moves fill the caller's buffer in the stream's order.
InOrder == StreamCalls!InOrder

\* A stream call returns the number of bytes it moved, or a failure.
CountsWhatMoved == StreamCalls!CountsWhatMoved

\* A stream call, the sliced ones apart, returns once the connection is over.
CallsReturn == StreamCalls!CallsReturn

\* "Wait upto <timeout> for the blocking to subside." (xxsocket.cpp:937): a wait
\* that timed out ends the call.
TimeoutEnds == StreamCalls!TimeoutEnds

\* The wrappers admit one thread to a mutex and to an exclusive lock, keep none
\* inside that was told it is not, and let the users of a named mutex that could
\* open it behind its lock one at a time.
HoldersExclude ==
    /\ IF subject = "win32 locks"
       THEN LocksOn(TRUE)!HoldersExclude /\ LocksOn(TRUE)!FreeWhenLeft
       ELSE LocksOn(FALSE)!HoldersExclude /\ LocksOn(FALSE)!FreeWhenLeft
    /\ Kernel!MutexExcludes

\* No more waits of a semaphore or an event succeed than it was signalled.
WaitsAreSignalled == Kernel!WaitsAreSignalled

\* No thread runs on an object that is destroyed, except those let go.
NoneOutlives ==
    IF subject = "win32 threads" THEN ThreadsOn(TRUE)!NoneOutlives ELSE ThreadsOn(FALSE)!NoneOutlives

\* What a pointer holds it holds alone, and destroys as it was made.
PointersOwn == Pointers!OneHolder /\ Pointers!RightDeleter

\* "please input filename(full path) to transmitt" (transmission_client.cpp:37):
\* the file a turn opens is the one typed for it.
TypedNameUsed == Console!TypedNameUsed

\* An endpoint built from the text of another has its address.
AddressSurvivesText == Address!AddressSurvivesText

\* A dotted text is taken only for the address it is the text of.
DottedTextIsExact == Address!DottedTextIsExact

\* The forms of one helper on text agree with one another.
TextFormsAgree ==
    Text!TrimsAgree /\ Text!SplitsAgree /\ Text!NameIsInDirectory /\ Text!HexReturns

=============================================================================
