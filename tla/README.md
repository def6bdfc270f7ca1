# simple_transmitter: specifications and proofs

TLA+ models of `simple_transmitter`, a program that copies files over TCP from
transmission clients to a transmission server, and of the library of sockets,
threads, locks and text helpers that it is built on or that is kept beside it.
Modules are checked with TLC on small instances; what the proof modules state is
checked with TLAPS for every value of the constants.

All paths below are under `src/simple_transmitter/`.

## 1. The system

The repository holds one Win32 program (Visual C++ 2013 project, 32-bit, so a
pointer has four bytes) and a small `common/` library that the program compiles
but mostly does not call. There are no tests; the sources' comments, the status
machines in `transmission_def.h` and the program's messages are the only
statements of intent.

| component | state it keeps | operations | talks to |
|---|---|---|---|
| transmission server (`transmission_server.cpp`) | break flag, mutex, listening socket, worker threads; per worker: connection, header buffer, name, `bytes_left`, output file | `start` (bind, listen, create workers, join), `run` (accept, receive header, name, data, save, acknowledge), SIGBREAK handler | clients over TCP; directory; operator on stdin |
| transmission client (`transmission_client.cpp`) | connection, static 32 MB buffer, static name buffer, sizes | `start`: a do-while, one connection and one file per turn | server over TCP; user on stdin; file |
| program (`transmitter.cpp`, `transmission_basic.cpp`) | role, address, port, number of threads | `main` picks the role | starts server or client |
| frame header (`transmission_def.h`, `xxbswap.h`) | `namesize` (4 bytes), `datasize` (8 bytes) | encode, decode, byte swaps | client encodes, server decodes, in place |
| stream socket (`xxsocket.cpp`) | a descriptor | open, bind, listen, accept, connect, send, recv, the `_n` and `_until` forms, shutdown, close, release | the operating system |
| address conversion (`xxsocket.cpp`) | none | inet_pton, inet_ntop, endpoints | - |
| older socket class (`common/xsocket.cpp`) | a descriptor | as xxsocket, and sliced send and recv | - |
| thread pool (`common/threadpool.cpp`) | service list, flag, mutex, condition variable | four enqueue operations, `svc`, `destroy` | thread base class, synchronisation wrappers |
| thread base class (`common/thread_basic.cpp`) | list of threads | spawn, activate, wait, dispose, terminate | the operating system |
| synchronisation wrappers (`common/thread_synch.*`) | mutex, rwlock, condition variable, semaphore, event, timer | lock, trylock, wait, timedwait, signal, broadcast | the operating system |
| ownership pointer, string conversion, macros | a pointer; none | release, reset; conversions | - |

How they interact. The server's `start` creates the workers; all of them call
`accept` on the one listening socket, one at a time under a mutex, and then serve
their connection alone. They share nothing else on purpose, but they do share
the current directory, the operator's console and the break flag. A client
connects, asks its user for a file name, encodes the header into its buffer,
sends header, name and data, receives what should be an acknowledgement, and
asks whether to go on. Header, name and data are one byte stream: the two ends
agree on where one ends and the next begins only through the header's sizes.

What is hard here:

* connections that end, are reset, or go silent at any byte, and a receive loop
  that reports them in three different ways depending on how many bytes it has
  already seen;
* `return` statements inside the worker's loop, which take a thread away for the
  rest of the process;
* a data loop whose test (`if (recv > 0)`) looks at a function's address;
* `access`, `remove` and `open` of one name by several workers;
* an acknowledgement sent on a socket that nobody is connected to;
* a break flag that is only looked at between two clients;
* in the thread pool, a flag set without the mutex that guards the wait.

Section 5 says which property is about which of them; `PROJECT.json` lists each
hazard at its line.

* a `connect_n` and an `accept_n` that change a socket's mode on the way and have
  six ways out each, and socket objects that pass descriptors between each other;
* waits with a timeout that the caller cannot tell from success;
* wrappers that turn the results of two systems' calls into one `bool`.

What makes each component correct, in short: the server serves each connection
with exactly one worker, puts on disk what the client announced and nothing
else, never changes an existing file without the operator's consent, survives
its clients, and ends after Ctrl-Break; the client sends the file that was typed
and reports success when there was one; the codec's decoder undoes its encoder
and the wire is big-endian; a descriptor has one owner, its mode is the one
asked for, and none is lost; a stream call moves bytes in order, counts what it
moved and returns when the connection is over; the pool executes each service
once, takes them in order, sleeps only when there is nothing to do, and is deleted after
its threads have ended; locks exclude; a pointer destroys what it owns once and
the way it was made; the text of an address is read back as that address.

## 2. Modules

| module | models | extends |
|---|---|---|
| `Wire` | TCP connections as `xxsocket` uses them | - |
| `TransmissionServer` | `start`, `run`, the signal handler, the directory | `Wire` |
| `TransmissionClient` | the client's loop | `TransmissionServer` |
| `Transfer` | the composition, its specification and properties | `TransmissionClient` |
| `TransferProofs` | theorems about `Transfer`: its types and exclusions, its byte streams, what ends a session and a worker, what the files hold, and that one worker keeps the directory's promise | `Transfer`, `TLAPS` |
| `Directory` | the server's promise about its directory, abstractly | - |
| `MCTransfer` | instances of `Transfer` for TLC | `Transfer` |
| `Framing` | header codec | - |
| `ThreadPool` | thread pool and the thread base class below it | - |
| `MCThreadPool` | instances | `ThreadPool` |
| `PoolProofs` | theorems about `ThreadPool` | `ThreadPool`, `TLAPS` |
| `Descriptors` | the system's descriptors, as both socket classes use them | - |
| `SocketHandle` | `xxsocket` objects and their descriptors | `Descriptors` |
| `HandleProofs` | theorems about `SocketHandle` | `SocketHandle`, `TLAPS` |
| `OlderSocket` | `common/xsocket` objects and their descriptors | `Descriptors` |
| `StreamIO` | send, recv, send_n, recv_n, read_until, sliced send and recv | - |
| `ThreadObject` | the thread base class alone | - |
| `Locks` | mutex, read-write lock, condition variable, scoped lock | - |
| `KernelObjects` | named semaphore, mutex, event and timer | - |
| `SimplePtr` | the ownership pointer | - |
| `ClientConsole` | what the client makes of the lines its user types | - |
| `Addresses` | inet_ntop, inet_pton and the endpoint | - |
| `Strings` | strtrim, split, hexadecimal, get_short_name | - |
| `Library` | the composition of `Framing` and the ten modules from `SocketHandle` on | `Framing`, `SocketHandle`; instances of the others |
| `ObjectProofs` | theorems about the codec in `Framing` and the locks, named objects, thread objects and pointers in `Library` | `Library`, `TLAPS` |
| `SocketProofs` | theorems about both socket classes and the stream calls in `Library`, and its types | `ObjectProofs`, `HandleProofs` |
| `StringProofs` | induction over texts; the theorem about the helpers of `Strings` in `Library` | `Library`, `TLAPS` |
| `TextProofs` | lemmas about `inet_ntop4`, `inet_pton4` and `inet_pton6` | `StringProofs` |
| `AddressProofs` | lemmas about `inet_ntop6`; theorems about the endpoint in `Library`, and all its types | `TextProofs`, `SocketProofs` |
| `MCLibrary` | an instance of `Library` for TLC | `Library` |

Some operators stand twice, the first time with a suffix and the remark "mutated
form": the definition as a plausible mistake would have it. They are used by
nothing in the specification; `PROJECT.json` ("mutants") names the property
that each of them breaks.

### Wire

A *session* is one turn of a client's do-while loop: one connection, one file.
What a client puts on the wire is one frame `header ++ name ++ data`, and every
byte is known from its position, so a connection is two counters, `sent` (bytes
that reached the server's socket) and `rcvd` (bytes that `::recv` has returned),
plus the state of its two halves: `link` for the client's (`open`, `fin`,
`reset`, or `cut`: nothing gets through any more and nobody has been told),
`srvEnd` for the server's (`queued` in the backlog, `served`,
`closed`, or `leaked`: `release()` lets go of the descriptor without closing it,
`xxsocket.cpp:703-713`). `ackd` counts bytes the server sends to the client.

`RecvTurn` is one turn of the do-while in `xxsocket::recv` (959-974). It is the
detail most of the server's behaviour hangs on: `::recv` may return any
non-empty part of what has arrived; 0 ends the loop with the count so far; an
error is *added to the count before it is tested*, so an error after k bytes
returns k - 1, and only k = 0 gives the -1 that the server looks for.

### TransmissionServer

One action for each step of `run` that another thread, a client or the operator
can come between: `Lock`, `Accept`, `Unlock`, `RecvHeader`, `RecvName`,
`Access`, `Prompt`, `Remove`, `Open`/`OpenFails`, `RecvData`, `SaveComplete`,
`SendAck`, `Shutdown`, `LoopCheck`. Receives are one action per `::recv`, so the
partial results of different workers interleave. `Listen`, `ListenFails`,
`Spawn` and `JoinAll` are `start`; `Break` is the handler: the C runtime puts
SIGBREAK back to its default before it calls the handler, so a second Ctrl-Break
ends the process.

`left` is `bytes_left`, `got` the count inside the `recv` under way, `whole`
remembers whether the header decoded was the one of this connection (history; the
program does not know). After a short header the buffer's previous contents are
decoded, but the connection is then at its end, the name stays empty, and `open`
of the empty name fails; the model keeps that chain of steps.

The result of `remove` (131) is ignored, and the model has both: a file that a
worker is writing is not removed, nor, with the fault `held`, one that another
process holds (a client started in the same directory has its file open). The
step behind it, `overwrite`, is the same `of.open` as the step `open` of a name
that was free: it truncates what is still there.

A file is a sequence of session identifiers: a worker writes data byte i of its
session at offset i, so the position tells the rest, and a mixture of two
sessions shows. `by` and `alone` are history for the properties. A write always
succeeds: that `of.write` (148) may fail, on a full disk, and that "save file
complete" is printed all the same, is outside the model.

Left out: the progress display and the speed report, the texts of messages, the
send of the receive buffer size, and which of two simultaneous prompts an answer
was meant for (each prompt is answered freely).

### TransmissionClient

`Connect`, `OpenFile`/`OpenFileFails`, `Send`, `SendOver`, `RecvAck` are the
turn. What can go wrong is kept apart from it: `Quit` ends the process, with a
FIN; `Disconnect` resets the connection or cuts it off, alone or together with
the process. A client that is left after that *goes on* as the code does
(94-114): every `send` returns -1, the loop runs to the end of the file, `recv`'s
result is ignored, and success is printed; `SendOver` and `RecvAck` have that
case as `Broken`, and `GiveUp` is TCP reporting a cut connection at last. `Prev` chains sessions that are turns of one process. `SendLimit` is
how much is sent when the file has become shorter than the size in the header:
the loop breaks at `fin.eof()` after the buffer in which the file ended, and the
rest of that buffer is sent as padding. `RecvAck` goes on whatever `recv`
returns, as the code does.

### Directory

What somebody who only looks at the directory is promised: a name is free, holds
a file from before, or holds the beginning of one session's data. `agreed` is
the set of names that the operator let be overwritten (`Agree`); a file goes
(`Discard`) or is replaced (`Begin`) only under such a name, and the consent is
used up by it, or lapses (`Abandon`). `Grow` and `Finish` are the rest. `Transfer!Dir` instantiates
it with the mapping that forgets workers, connections, messages and the history
bit `alone`, and takes for `agreed` the names whose worker is between prompt and
open; `ImplementsDirectory` is the refinement, for a server with one
worker. With two workers on one name it does not hold: that is the run
`transfer_overlap`.

### Framing

The header's twelve bytes in memory, one action for each store and load that
`encode_sftp_header` and `decode_sftp_header` perform. The first store is eight
bytes wide and spills into the second field; the second store repairs it.
`bswap32` and `bswap64` are translated with their rotations and masks over
sequences of bytes.

### ThreadPool

One action per step between a lock and an unlock of `svc`, the enqueue
operations (one action per turn of their loop, signal included) and `destroy`.
Taking a service off the list, with the unlock (`Take`), and beginning it
(`Enter`, the call of `entry()`) are two steps: a thread that took its service
later may begin it earlier. `InHand` are the services that threads have taken,
begun or not, `Taken` these and the finished ones, `Started` those begun.
`Platform` selects what `spawn` reports: on Win32 its result stays -1 when
`CreateThread` succeeded, so the thread runs without being in the list that
`wait` follows. The library has no caller in the repository; producers and owner
are modelled by the contract its interface implies (activate first, destroy
last, no enqueue concurrent with destroy).

### Descriptors, SocketHandle, OlderSocket

`os` is the system's table: for each descriptor whether it is free and what its
socket is (`fresh`, `listening`, `accepted`, `connecting`, `connected`,
`refused`); `mode` is the nonblocking flag, `fd` the member of each object, and
`hand` the descriptors that the caller keeps as plain handles. `asked` and `ok`
are history: the user asked for the nonblocking mode; a connect reported
success. A descriptor number that is closed is given out again, so that a double
close would hit somebody else.

`SocketHandle` has one action for each constructor, assignment, open, reopen,
accept, connect and close form of `xxsocket`. `swap` is `Swapped`: an open
target keeps its descriptor. The ways through `connect_n` are `Verdicts` (what
the system answers: `::connect` fails or is through at once, a timeout, the
socket ready, a select that fails with its sets still full, sets without the
socket or a `getsockopt` that fails, and an error of the attempt), `Succeeds`
(what the code makes of it) and `Closes`; `MadeNonblocking` is what they do to
the socket, its mode and the report. `ToldOf` is a success that select did not
fail in. Both Winsock and POSIX are modelled (`Windows`), since the code has
both halves: on POSIX `select(1, ...)` never sees the listening socket.

`OlderSocket` is the same for `common/xsocket`, whose objects live on the heap:
its destructor closes nothing, `release` and the failing `accept` delete.

### StreamIO

One call at a time on a connection with `Stream` bytes left, over every way the
system can split, delay, end or reset it. Sending and receiving loop alike, so
one model has both; `op` says which loop it is. `moved` records at which offset
of the caller's buffer each byte of the stream was put or taken, which is what
`InOrder` is about; `late` remembers that a select timed out.

### Locks, KernelObjects, ThreadObject

`Locks` keeps, for each thread, what it holds in the system and what the wrapper
told it that it holds: the `bool` made of the result is right on Windows and
inverted elsewhere (`AsBool`). A timed wait is over at once on POSIX. In
`KernelObjects` several wrapper objects share one name; `Created` and `Opened`
are the code's arguments to the system's calls (a negative maximum, `OpenEvent`
for a mutex), and `lock` goes on when there is no handle. The timer is set, due
(again, when it is periodic) or cancelled; its class has no wait. `ThreadObject` is
`activate`, `wait`, `terminate`, `dispose` and the destructor without the pool.

### SimplePtr, ClientConsole, Addresses, Strings

`SimplePtr` has three pointers over three objects, two deleters, and what the
program holds as plain pointers (`raw`); construction from a pointer, copying,
assignment (also to itself), `reset` and `release`. `ClientConsole` is the input
stream, the static name buffer and the two places that read: the character loop
of the name and `cin >> option`. In `Addresses` a character is its value as a
digit, or a colon, a dot, or another one; `Best` is the run of zeroes that is
left out, `inet_pton4` and `inet_pton6` are functions on the position, and
`Read` is the endpoint's constructor. `Strings` has each form of a helper as an
operator and compares the forms. Its split by a character is a scan, one `Turn`
for each character (`Scan`), its splits by a string and by any of several
characters are functions on the place where the next piece begins. What all of
them should find is said without them: `Fields`, the stretches between
delimiters, in their order and each as long as it can be.

### Library

These components do not call each other where they are modelled alone, and one
module runs all of them: a behaviour picks a *subject* and takes that
component's steps, the others stand still. A constant (`Windows`, `Win32`,
`OnWin32`) that stands for the system is instantiated both ways. What the
components are to one another is modelled where they interact: sockets, header
and disk in `Transfer`, threads and locks in `ThreadPool`.

## 3. Runs

| run | instance | shows |
|---|---|---|
| `transfer_faults` | 2 workers, 2 sessions, one with an empty file; clients that cannot open their file, quit, are reset or cut off with or without their process, a file that is held, bind failure, Ctrl-Break once or twice | the safety invariants of section 5 under these misfortunes |
| `transfer_consent` | 1 worker, 2 sessions of the same name, the file exists already; the clients' faults, a file that shrinks, refusals, a file that is held or cannot be created | files change only by consent, saved files are whole, the directory is the abstract one |
| `transfer_live` | 2 workers, 3 sessions (two turns of one client, one that may leave or vanish), Ctrl-Break | other clients are served; the server ends after Ctrl-Break |
| `transfer_ack` | 1 worker, 1 session | *violation*: the ACK that the client reports was never sent to it |
| `transfer_missing` | 1 worker, 1 session that is left | *violation*: "connection missing!" is never reached, the worker spins |
| `transfer_overlap` | 2 workers, 2 sessions, one name | *violation*: "save file complete" over a mixture |
| `pool_posix` | 3 threads, 2 calls of 2 services, 1 service that never returns | the pool's safety and liveness on POSIX |
| `pool_wakeup` | 1 thread, 1 service | *violation*: the broadcast of `destroy` can be lost |
| `pool_win32` | 1 thread, 1 service | *violation*: the pool is deleted under its threads |
| `library` | the fifteen subjects of `Library` | each class and function alone, under every order of its calls |
| `library_console` | the console, three turns | *violation*: the second turn opens the first turn's file |
| `library_timeout` | the stream calls | *violation*: a timed-out wait does not end the call |

Bounds, and why they are enough:

* `HdrLen = 2`, `NameLen = 2`: the code distinguishes a receive that is
  complete, short after k > 0 bytes, empty, and failed with k = 0 or k > 0. Two
  bytes give all of them (12 and 255 give no other case). The liveness run uses
  one byte each: there only completeness matters.
* `DataLen` 3, 1 and 0 with `Chunk = 2`: two chunks, the last one short; less
  than a chunk; an empty file, for which the data loop is skipped
  (`transfer_faults` has 0 and 3).
* `refuse` and `createfail` are left out of `transfer_faults`: there a worker that
  has a name must not be lost at all, which is the stronger claim. They are in
  `transfer_consent`. For any set of faults `OneWorkerPerFault` is proved.
* `SpinCap`: while `recv` keeps failing `bytes_left` grows without bound
  (`bytes_left -= -1`); the model stops counting at `DataLen + SpinCap`. A worker
  there never leaves the loop, with any cap.
* `BufSize` 5 in `transfer_consent`: header and name take four bytes, so that a
  frame takes two buffers, and a file that shrinks leaves the frame short by what
  the second would have held. In the other runs, without shrinking files, it is
  8 and the frame fits: a send may reach the server in any pieces, so that a
  second buffer adds no interleaving there.
* two workers suffice for every race between workers, since no step involves a
  third; two connections suffice for every mix-up between connections, a third
  one in the liveness run shows that a worker that finished a client serves
  another.
* one-bit bytes in the framing subject: the codec only moves bytes, and two
  values per place tell all places apart over all headers. The theorem is for any
  set of bytes.
* two descriptors and two objects for the sockets: a target and a source, a
  listening socket and a connection, a descriptor that is dropped and one that is
  opened instead. The theorems are for any number.
* `MaxLen` 3, `Stream` 4 for the stream calls: several turns, an error after some
  bytes, a slice shorter than the rest, a stream longer and shorter than asked.
  `Drift` stops the sliced forms' count and pointer, which run off for ever;
  read_until's buffer (`BufLen`) is two bytes.
* three threads under a name in `kernel`, two for the locks with recursion to
  `Depth` 2, three posts; three pointers, one of the other deleter; three turns
  at the console, the third showing that the leftovers pile up.
* addresses of the words 0, 1 and 65535: any pattern of zero runs, with one-digit
  and four-digit words; dotted texts of three to five parts with an empty part, a
  leading zero, 255 and 256; texts of up to four characters of every class that
  the helpers tell apart, and of five of the classes that `split` tells apart.
* three threads in `pool_posix`: one in a service that never returns, one that
  is woken, one that overtakes it.

`CHECK_DEADLOCK FALSE` everywhere: a server that has ended, a pool that is
deleted, a header that is decoded and a call that has returned are meant to stop. `WorkerSymmetry` is used
in `transfer_faults` only, which has no temporal property.

## 4. Fairness

`Transfer`: weak fairness of each worker, of `Listen`/`JoinAll` and of each
client's program: they are threads, the system schedules them, and no step of
theirs depends on winning a race for ever (the mutex is held through `accept`
and released right after it; one that waits for it can starve in principle, and
no property needs it not to). Sessions outside `Faulty` also connect and have
their name typed. There is no fairness on a fault, on Ctrl-Break, or on the user
of a faulty session. The operator answers a prompt, as a worker's step.

`ThreadPool`: weak fairness of threads, producers, and of a `destroy` that has
begun; strong fairness of taking the mutex (the platform's mutexes do not let a
waiter starve for ever). No fairness of calls, and none of spurious wake-ups, so
that no property owes its truth to them.

`Library`: weak fairness of `StreamIO`'s `Step`, the thread that made the call.
Nothing makes the peer send, end or reset. No other component of the library has
a liveness property or a fairness.

## 5. Properties

Transfer, safety: `TypeOK`; `AcceptExclusion` (one worker in `accept`, and the
mutex is held exactly there: no path keeps it); `OneReader` (no connection has
two workers or is closed under its worker); `WholeHeaderBeforeOpen` (no file is
opened for a header that did not arrive whole, although nothing in the code
tests that); `SavedMeansAllRead` ("save file complete" is printed at the end of
the frame, for the client's name); `ContentIntegrity` (a file opened by one
worker at a time is the session's data byte for byte); `SuccessHasACause` (a
client that reports success has its file saved, met a worker that was lost over
it, or lost its connection to a reset or a cut, of which it takes no notice:
these are the three ways to a false success); `LostWorkerHasACause` (a worker is
lost by Ctrl-Break, a refusal or a failed creation, or over a connection that
ended before its name was there, one for each session; a connection that ends
anywhere else costs no worker); `SaveFileComplete` (with one worker, the stronger
form without the condition on overlap). Action property: `ChangedOnlyByConsent`
(an existing file is removed or truncated only by a worker that asked about it;
an existing file that cannot be removed is truncated where it is). Refinement: `ImplementsDirectory`. Liveness: `OthersAreServed`,
`DrainsAfterBreak`.

`SavedMeansAllRead` has an exception that the model found: an empty file whose
connection is lost in the middle of the name is "saved" under the part of the
name that arrived.

ThreadPool: `TypeOK`, `LockOwnership`, `Accounted` (each service is in the list,
in one thread's hands or finished, exactly once), `NeverPopsEmpty`,
`NoLostWakeup` (while a thread waits, as many threads are bound for the list as
there are services in it), `CallOrder` (services of a call leave the list in order, those of
head calls in the opposite one; the order in which two threads begin them is not
kept by the code, and not claimed), `ExitedBeforeDelete`; `EveryServiceStarts`, `DestroyReturns`.

Framing: `RoundTrip`, `NetworkOrder`.

SocketHandle: `OneOwner` (a held descriptor is open and has one holder);
`OnlyConnectLoses` (an open descriptor that nobody can close was dropped by a
`connect_n` that returned without closing: `::connect` failed at once, line 839,
`getsockopt` failed, 859, or neither set had the socket, 862); `NonblockingByRequest` (a held
socket is nonblocking only where its user asked for it, but for `accept_n` on
Windows), in the run as `ModeByRequest` for both systems; `SuccessIsConnected` (a
success is a connection, unless it is that of a select that failed, which the code
takes for ready), in the run as `ConnectedWhenTold`, for `OlderSocket` on Windows
too. OlderSocket:
`HeldAndOpen` (this class loses no descriptor).

StreamIO: `InOrder`, `CountsWhatMoved` (with what an error after some bytes
does to the count, per call), `CallsReturn` (the sliced forms are left out: they
go round for ever on a connection that is over).

Locks: `HoldersExclude` and `FreeWhenLeft` (off Windows, until the first trylock:
its result is inverted there); the run's `HoldersExclude` is these two and
KernelObjects' `MutexExcludes`. KernelObjects: `WaitsAreSignalled`.
ThreadObject: `NoneOutlives` (a thread outlives its object only when it was let
go, or on Windows, where the list stays empty). SimplePtr: `OneHolder` and
`RightDeleter`, in the run as `PointersOwn`. Addresses: `AddressSurvivesText`,
`DottedTextIsExact`. Strings: `TrimsAgree`, `SplitsAgree`, `NameIsInDirectory`,
`HexReturns`, in the run as `TextFormsAgree`. Where a form of the code departs
from its siblings, the property states exactly where; the model checker found
those places.

## 6. Disagreements between code and comments

Each is a run that must be violated, and a finding in `PROJECT.json`.

* `AckReceived`: the server sends "ACK" on the listening socket
  (`transmission_server.cpp:163`); the client prints "received ACK" regardless.
* `MissingConnectionNoticed`: `recv > 0` at `transmission_server.cpp:147` is a
  test of the function's address; the branch that prints "connection missing!"
  is dead.
* `SaveFileComplete` with two workers: check, remove and open are not atomic.
* `TypedNameUsed`: the name loop reads the newline that `cin >> option` left, and
  writes over a buffer that it neither clears nor ends
  (`transmission_client.cpp:42`, 117): the second turn opens the first turn's
  name again.
* `TimeoutEnds`: `send_n` and `recv_n` test select's result for -1 only
  (`xxsocket.cpp:941`); a timeout, which is 0, makes them wait again.
* `DestroyStopsAll`: `destroy` (`common/threadpool.cpp:68`) does not hold the
  mutex; the broadcast is lost on a thread between its test and its wait.
* `ExitedBeforeDelete` on Win32: `common/thread_basic.cpp:13` leaves the result
  of a successful spawn at -1.

## 7. Proofs

`TransferProofs`, for all values of the constants that the named assumptions
allow (any number of workers, sessions and names, any sizes, any faults):

* `TypeCorrect`: `Spec => []TypeOK`, by `TypeInit` and `TypeStep`. The lemmas
  `WriteBytesType` and `FilesTyped` are about the file operators, and
  `RecvTurnType` about the receive loop, which three actions share.
* `MutualExclusion`: `Spec => []AcceptExclusion`. The invariant is inductive
  together with `TypeOK`: the step out of `lock` needs a free mutex, and the only
  way out of `accept` is `unlock`.
* `SingleReader`: `Spec => []OneReader`. `OneReader` is not inductive: that no
  worker's connection is closed or queued again needs to know where connections
  are when they are *not* served. `ConnInv` adds it: a session that has not
  connected has no server half and is not in the backlog, a session in the
  backlog is `queued` and held by nobody, and a worker's connection is
  `served` as long as the process runs. `WorkerOnConnections` states once what
  every worker step does to connections; `ConnStep` uses it for all of them.

The byte streams, in the second part of `TransferProofs`, under the same
assumptions:

* `NoFileForShortHeader`: `Spec => []WholeHeaderBeforeOpen`;
* `SavedToTheEnd`: `Spec => []SavedMeansAllRead`.

Neither property is inductive: each is about the end of a worker's turn and true
because of where the worker was in the stream all along. `StreamAt` says that
for every step of `run`: the header's count is the number of bytes read, the
name's count that number less the header, `bytes_left` what is missing of the
frame. The other half is what a failed receive means: the stream is then `Dead`,
its connection gone and nothing left to read, so no later receive can bring anything
(that is why the name behind a short header is empty) and `bytes_left` can no
longer reach 0. `RecvTurnEffect` is the case analysis of one `::recv`,
`WorkerLocal` and `Untouched` say that the steps of one worker do not disturb
what is true of another (this uses `OneReader`), and `OwnStep`, `HeaderStep`,
`NameStep` and `DataStep` are the steps themselves.

What the files hold, under "The files of the server" in the same module:

* `FilesAreWhole`: `Spec => []ContentIntegrity`.

`ContentInv` is the inductive invariant. While a worker is in the data loop its
file holds exactly the session's first `DataLen - left` bytes (`Partial`), as
long as the worker opened the file alone; or the stream is dead and `left`
stays positive, so that the session is never reported as saved. That this
survives the other workers needs three facts about who is where: a file's
creator is a session that has passed `open`, with that file (`CreatedByOpen`);
whoever writes a file opened alone is its creator (`WrittenByCreator`); a saved
session does not come back to the data loop (`SavedOnce`). `NothingWritten`
covers every step that writes no file, `AppendBytes` and `PartialTurn` one turn
of the data loop, and `OpenStep`, `SaveStep` and `DataWriteStep` the three steps
that touch the directory or the report.

The directory, at the end of `TransferProofs`, for a server with one worker
(`OneWorker`) and any sessions, sizes, names and faults:

* `OneWorkerKeepsPromise`: `Spec => ImplementsDirectory`;
* `OneWorkerAsksFirst`: `Spec => ChangedOnlyByConsent`;
* `ReportedFilesAreWhole`: `Spec => []SaveFileComplete`.

Those invariants say what the file holds in the data loop and that a session comes to `open` once; the refinement adds `NameAsFound` (at
`open` the name is free, in the data loop the file is there, at `remove` there is
one to remove) and `OpenedAlone`. Both need the single worker: another one could
create the file between `access` and `open`. With one worker `agreed` is its
name or nothing (`AgreedOf`). `WriteGrows` shows that a turn of
the data loop is a step of `Grow` or changes nothing, also when the connection is
reset in the middle of a chunk; `WorkerRefines` matches each step of `run`, and
`OthersOnFiles` shows that all other steps stutter.

What ends a session and a worker, under "Why a client sees success" in
`TransferProofs`, for any number of workers:

* `SuccessIsNoAccident`: `Spec => []SuccessHasACause`;
* `OneWorkerPerFault`: `Spec => []LostWorkerHasACause`.

Both speak of a session after its worker has left it, so `CauseInv` says how it
was left: behind a closed connection there is a saved file or an exited worker
that still names it (`ClosedHasACause`), a worker between two connections has
none (`Unattached`). That the acknowledgement never reaches a client
(`Unanswered`, it is sent on the listening socket) is part of it: a client's
`recv` returns because the connection was closed, reset or cut. A worker that
leaves without a name does so over a stream that ended before it, which is where
`StreamInv` comes in. `Advance`, `LeaveCause` and `DropCause` are the three things
a step of `run` can do to it: go on, end the worker over its connection, or let
the connection go. `SparesTheLost` says that no step changes what an exited
worker's connection tells of its end.

`PoolProofs`, for any number of threads and callers, any batches at either end of
the list and either platform:

* `PoolTypeCorrect` (`[]TypeOK`), `MutexHasOneOwner` (`[]LockOwnership`) and
  `PopsWhatItTested` (`[]NeverPopsEmpty`), from `Control`. `NeverPopsEmpty` is not
  inductive: `PastTheTest` carries the result of the test to the pop, which holds
  because nobody else has the mutex in between.
* `JoinedBeforeDelete` (`[]ExitedBeforeDelete`, on POSIX), from `Joins`: a thread
  that started is in the list that `destroy` walks. On Win32 it is not, which is
  one of the findings.
* `EveryServiceAccounted` (`[]Accounted`), where a service that was taken is in
  one thread's hands before and after it is begun. The list has every service once
  (`Once`), and `ItemsOfTail` and `ItemsOfPush` say what a pop and a push at
  either end do to the set of its items.
* `CallsKeepOrder` (`[]CallOrder`), from `Order`: no service of a call is taken
  before the call has pushed all of them (`Fresh`, because it has the mutex
  throughout), and in the list they stand in order or, from the head, in reverse
  (`Placed`).
* `NoSignalIsLost` (`[]NoLostWakeup`), the safety half of `EveryServiceStarts`. It
  needs `SleepsOnEmpty`: a thread between its test and its wait has the mutex, so
  the list is still empty when it begins to wait. `ThreadCounts` is the counting
  argument; `activate_n` starts finitely many threads, which `PoolAssumption` says.

`HandleProofs`, for any number of objects and descriptors and on either system:

* `HandleTypes`, `DescriptorsHaveOneOwner` (`[]OneOwner`), `NothingElseLoses`
  (`[]OnlyConnectLoses`), `ModeIsAskedFor` (`[]NonblockingByRequest`),
  `ReportedIsConnected` (`[]SuccessIsConnected`).

The invariant is their conjunction `IInv`. Each step concerns one descriptor and
closes at most one other, and `LocalStep` and `Local` reduce preservation to what
becomes of the first (`Here`) and of the others (`Elsewhere`); `Renewal` covers the steps that replace an object's descriptor,
`Passing` those that hand descriptors on, `Progress` the system's, `Attempt` the
three forms of `connect_n`, and `TakeKeeps` the accepts. The only fact about
other objects that they need is `OneOwner`: without it, closing or dropping a
descriptor could take it from somebody else.

The theorems about the library's other classes are about `LibSpec`, so each is
the property the run `library` checks, for whichever class and system a behaviour
picks, under the assumptions named in `Library`, `Framing` and `Descriptors`:
`StreamAssumption` (a call is for at least one byte), `LocksAssumption` (a mutex
can be entered), `KernelAssumption`, `PointerAssumption` (null and the mark of a
dead pointer are no objects), `ByteAssumption`, `BufferAssumption`,
`DescriptorAssumption`, `AddressAssumption` (words of 16 bits, bytes of 8, and
texts of the model's characters), `TextAssumption` (texts of signed characters).

The codec, in the first part of `ObjectProofs`, for any set of bytes; these are
about the specification of `Framing`:

* `DecodesWhatWasEncoded`: `Spec => []RoundTrip`;
* `TravelsInNetworkOrder`: `Spec => []NetworkOrder`;
* `FramingTypeCorrect`: `Spec => []TypeOK`.

All three follow from `CodecInv`, which says what the twelve bytes are at each step of
encoder and decoder; `Bswap32Reverses`, `Bswap64Reverses` and `HeaderBytes` are
the lemmas about the byte operations.

The rest of `ObjectProofs`, for any number of threads, users, pointers and objects:

* `MutexHasOneUser` (`[]Kernel!MutexExcludes`) and `WaitsUseUpSignals`
  (`[]WaitsAreSignalled`). `MutexExcludes` is not inductive, since nobody who
  locks looks at the others: `Owned` adds that a user behind `lock` with a handle
  is the owner that the system has.
* `LocksExclude` (`[]HoldersExclude`). What the wrappers told says nothing of what
  the system does next. `Excluding` is exclusion in the system, which holds
  always; `Matching` says that what was told is so, until a trylock off Windows.
  `EntryKeeps` and `HoldKeeps` are the two things any step does to the mutex and
  to the read-write lock.
* `NoThreadOutlives` (`[]NoneOutlives`), from `Listed`: with pthreads a thread that
  runs is in the list that the destructor walks, or was let go.
* `PointersOwnAlone` (`[]PointersOwn`). That an object is destroyed as it was made
  needs `Fitting`, which says it of what is not destroyed yet.

`SocketProofs`, for any number of sockets and descriptors and for calls, slices,
delimiters and streams of any length:

* `OlderLosesNone` (`[]HeldAndOpen`), `ToldIsConnected` (`[]ConnectedWhenTold`) and
  `ModeOnEither` (`[]ModeByRequest`). The older class's invariant is `OlderInv`;
  `OlderRenews`, `OlderTakes`, `OlderConnects` and `OlderStays` are what its
  operations come to. For `xxsocket` the invariant is that of `HandleProofs`,
  instantiated once for each system.
* `BytesInOrder` (`[]InOrder`) and `AnswersAreCounts` (`[]CountsWhatMoved`).
  Neither is inductive: where the next byte goes depends on the loop's counters.
  In the loops without slices the count is the number of bytes moved (`Whole`). In
  a sliced one the slice's base and the count within it add up to that number, and
  base and what is left add up to the length asked for, *or* the connection has
  nothing more to give (`Slicing`): after an error the pointer and the count drift
  apart, and what saves the order is that no byte can follow. That is true on a
  blocking socket only, and so is the property. `Wanting` says that a loop that
  goes on has not got what it wants, and `Told` what a call that is over returned.
  `GivenAnswers` is the case analysis of one system call, `Moves` what an answer
  does to the buffer, and one lemma for each kind of loop (`PlainKeeps`,
  `TimedKeeps`, `ReadKeeps`, `SlicedKeeps`) follows it through a turn.
* `PartsTyped` (`[]PartsTypeOK`): the types of every variable of the library but
  the addresses'. For the codec this is `CodecInv`: a store
  stays in the buffer because of the order of the steps.

`StringProofs`, for every text, of any length, and every delimiter:

* `FormsAgree` (`[]TextFormsAgree`).

`TextProofs` and `AddressProofs`, for every text, of any length, and every address:

* `DottedIsExact` (`[]DottedTextIsExact`), `AddressReturns`
  (`[]AddressSurvivesText`) and `LibraryTyped` (`[]LibTypeOK`).

Both are induction over the positions of a text, which the library's induction
theorems, with an operator as parameter, cannot give here. It is had from what the
library says about finite sets instead: that strict inclusion is well-founded on
them (`FS_StrictSubsetOrderingWellFounded`). So a set of numbers has a least
element (`LeastMember`), a set that has 0 and with i has i + 1 has all numbers
(`UpTo`), a machine that goes through n inputs has a run (`Runs`), and so has one
that is defined from the end and jumps (`RunsBack`); that is what a function
defined by recursion needs to have its equations (`FlatUnfold`, `ScanUnfold`,
`PartsUnfold`, `OctetsUnfold`, `WordsUnfold`).

For the helpers on text, `Rest` is what a split by one character puts out from a
place on. The split by any of several characters and the split by a string are
`Rest` of the first place, when they are given one character, by their definitions
(`AnyIsRest`, `StringIsAny`). The scan has a different shape; its invariant is
`AllOut`: what was put out, with `Rest` of the place where the open piece began,
is the whole (`TurnKeepsAll`, `CharIsAny`). That `Rest` puts out the fields is an
induction from the end (`RestIsFields`), in which a field is counted in front of
those behind it (`RankMoves`, `OneMoreField`). For two delimiters in a row,
`PartIsSplit` says that a text may be cut at a delimiter and its front be split
for itself, and `LongStep` cuts at every match. `FormsOfTrim`, `ShortNameBehind`
and `HexText` are about the other helpers: the ends that the two loops of
`strtrim` find are the first and the last visible character; digits are read as
what they were written from, as long as there is no sign for `>>` to keep. The
invariant of the system, `TextInv`, only says that the answers are the forms'; it
rests on `TextAssumption`, that a text is of signed characters.

For the four bytes, `Spells` is the invariant of the loop in `inet_pton4`: the
characters read so far are what `inet_ntop4` writes of the bytes found so far. It
gives `OctetsExact`: what is accepted is the text of the result. `OctetsReturn` is
the converse, digit by digit (`ReadsDec`, `ReadsDot`).

For the eight words, `WordsTyped` says that `inet_pton6` finds eight words of 16
bits or nothing, whatever the text. In the converse, `BestRun` is what is used of
`Best`: the run is one of zeroes, within the address, not that it is the longest
(a text with another run left out would be read back as well). `Mid` and `Between`
are the states of the loop inside a word and behind a colon; `ReadsHex` follows a
word's digits, `ReadsColonWord` the colon before it. `Shape` is the invariant over
the eight words: which words have been gathered and where the double colon was,
before, in and behind the run (`FirstShape`, `NextShape`, `LastShape`), and
`GatheredAll` that `Filled8` puts the zeroes back where they were (`WordsReturn`).
A run at the front has one colon more, which `inet_pton6` skips (`PlainReturns`).
`DottedJoin` is the exception: the text of an address with an IPv4 address in it
has dots and begins with a colon, so the endpoint takes it for an IPv4 one and
`inet_pton4` refuses it (`ColonRefused`). `AddressInv` carries this through the
endpoint's steps.

Only model-checked:

* every liveness property, and `CallsReturn` among them: liveness under fairness is
  outside what the prover does;
* the properties that are violated (section 6).

## 8. Plan

Done, in this order: `Wire`, `TransmissionServer`, `TransmissionClient`,
`Transfer` with its runs; `Framing`; `ThreadPool`; `TransferProofs`; `SocketHandle`, `StreamIO`,
`ClientConsole`, `OlderSocket`, `Locks`, `KernelObjects`, `ThreadObject`,
`SimplePtr`, `Addresses`, `Strings` with `MCLibrary`; `Directory`;
`HandleProofs` and `PoolProofs`, the directory and the causes in
`TransferProofs`; `Library` as a module of its own, `ObjectProofs` and
`SocketProofs`; `TextProofs` and `AddressProofs`; `StringProofs`. With that every
invariant and action property that holds is proved.

What would come next: the remaining text helpers; the condition variable's waits on a read-write lock.

## 9. Not modelled

Command-line parsing, progress display, speed report and message texts. Of the
socket classes: name resolution, datagrams, keep-alive and other options, the
overlapped `accept_ex`, the loading of extension functions, error messages. Of
the text helpers: number parsing, replacing, case, the wide-character and code
page conversions, which the program does not call or which are tables of the
system. The request and response messages that `transmission_def.h` declares and
nothing uses. The condition variable's waits on a read-write lock, which are the
same call on another lock. Macros, casts, container helpers, and the build files.

A write to the server's output file that fails, see `TransmissionServer`.

Abstractions: file names longer than the server's 255-byte name buffer are
outside the models' inputs. A file write reaches the file at once (the stream's
own buffer is left out), `accept` returns only with a connection, and when the
client's file has shrunk the padding it sends instead counts as the session's
bytes. Which of two simultaneous prompts an answer was meant for is left open:
each prompt is answered freely. The endpoint's text is without its port. A file
name is what `ShortName` makes of the bytes that arrived, and the console's
characters, in `ClientConsole`, are not joined to it.
