---------------------------- MODULE ObjectProofs ----------------------------
(***************************************************************************)
(* What Library keeps true of the header codec, the locks, the named       *)
(* kernel objects, the threads of an active object and the owning pointer: *)
(* for any bytes and any number of objects, and as they are compiled for   *)
(* either system.                                                          *)
(***************************************************************************)
EXTENDS Library, TLAPS

(* The header codec is right for every byte of every size: __bswap32 and   *)
(* __bswap64 reverse their bytes, and decoding undoes encoding.            *)

\* __bswap32 reverses four bytes.
LEMMA Bswap32Reverses ==
    ASSUME NEW w \in Word(4)
    PROVE  bswap32(w) = [i \in 0 .. 3 |-> w[3 - i]]
<1> DEFINE r == bswap32(w)
<1>1. r[0] = w[3] /\ r[1] = w[2] /\ r[2] = w[1] /\ r[3] = w[0]
  BY DEF bswap32, Merge, Keep, Ror8, Rol8
<1>2. \A i \in 0 .. 3 : i = 0 \/ i = 1 \/ i = 2 \/ i = 3
  OBVIOUS
<1>3. \A i \in 0 .. 3 : r[i] = w[3 - i]
  BY <1>1, <1>2
<1>4. r = [i \in 0 .. 3 |-> r[i]]
  BY DEF bswap32, Merge
<1> QED
  BY <1>3, <1>4

\* __bswap64 reverses eight bytes.
LEMMA Bswap64Reverses ==
    ASSUME NEW w \in Word(8)
    PROVE  bswap64(w) = [i \in 0 .. 7 |-> w[7 - i]]
<1>1. LowHalf(w) \in Word(4) /\ HighHalf(w) \in Word(4)
  BY DEF LowHalf, HighHalf, Word
<1>2. bswap32(LowHalf(w)) = [i \in 0 .. 3 |-> w[3 - i]]
  BY <1>1, Bswap32Reverses DEF LowHalf
<1>3. bswap32(HighHalf(w)) = [i \in 0 .. 3 |-> w[7 - i]]
  BY <1>1, Bswap32Reverses DEF HighHalf
<1> QED
  BY <1>2, <1>3 DEF bswap64, Joined

-----------------------------------------------------------------------------
(* The invariant follows the header through the two stores and two loads. *)

HalfHeader ==
    step = "encode datasize" => \A i \in 0 .. 3 : buffer[i] = namesize[3 - i]

Decoding ==
    /\ step \in {"decode datasize", "decoded"} => decoded.namesize = namesize
    /\ step = "decoded" => decoded.datasize = datasize

CodecInv == TypeOK /\ HalfHeader /\ NetworkOrder /\ Decoding

LEMMA HeaderBytes ==
    0 .. HdrSize - 1 = 0 .. 11 /\ 0 .. 0 + 7 = 0 .. 7 /\ 4 .. 4 + 7 = 4 .. 11
BY DEF HdrSize

LEMMA CodecStarts == Init => CodecInv
<1> SUFFICES ASSUME Init PROVE CodecInv
  OBVIOUS
<1>1. NoWord(4) \in Word(4) /\ NoWord(8) \in Word(8)
  BY ByteAssumption DEF NoWord, Word
<1>2. TypeOK
  BY <1>1, BufferAssumption DEF Init, TypeOK, EncodeSteps
<1> QED
  BY <1>2 DEF Init, CodecInv, HalfHeader, NetworkOrder, Decoding

LEMMA CodecKeeps == CodecInv /\ [Next]_vars => CodecInv'
<1> SUFFICES ASSUME CodecInv, [Next]_vars PROVE CodecInv'
  OBVIOUS
<1>0. /\ namesize \in Word(4) /\ datasize \in Word(8) /\ buffer \in [0 .. 11 -> Byte]
      /\ decoded \in [namesize : Word(4), datasize : Word(8)]
  BY HeaderBytes DEF CodecInv, TypeOK, Word
<1>1. /\ bswap32(namesize) = [i \in 0 .. 3 |-> namesize[3 - i]]
      /\ bswap64(datasize) = [i \in 0 .. 7 |-> datasize[7 - i]]
  BY <1>0, Bswap32Reverses, Bswap64Reverses
<1>2. CASE EncodeNameSize
  <2>1. buffer' = [i \in 0 .. 11 |->
                     IF i < 4 THEN namesize[3 - i] ELSE IF i < 8 THEN Zero ELSE buffer[i]]
    <3>1. Extended(bswap32(namesize)) =
             [i \in 0 .. 7 |-> IF i < 4 THEN namesize[3 - i] ELSE Zero]
      BY <1>1 DEF Extended
    <3>2. buffer' = [i \in 0 .. 11 |->
                       IF i \in 0 .. 7 THEN Extended(bswap32(namesize))[i - 0] ELSE buffer[i]]
      BY <1>2, HeaderBytes DEF EncodeNameSize, Store
    <3> QED
      BY <3>1, <3>2
  <2>2. buffer' \in Word(HdrSize)
    BY <1>0, <2>1, ByteAssumption, HeaderBytes DEF Word
  <2> QED
    <3>1. /\ step' = "encode datasize"
          /\ UNCHANGED <<namesize, datasize, decoded>>
      BY <1>2 DEF EncodeNameSize
    <3>2. TypeOK'
      BY <1>0, <2>2, <3>1 DEF TypeOK, EncodeSteps
    <3>3. \A i \in 0 .. 3 : buffer'[i] = namesize[3 - i]
      <4>1. \A i \in 0 .. 3 : i \in 0 .. 11 /\ i < 4
        OBVIOUS
      <4> QED
        BY <2>1, <4>1, Zenon
    <3>4. HalfHeader'
      BY <3>1, <3>3 DEF HalfHeader
    <3> QED
      BY <3>1, <3>2, <3>4 DEF CodecInv, NetworkOrder, Decoding
<1>3. CASE EncodeDataSize
  <2>1. \A i \in 0 .. 3 : buffer[i] = namesize[3 - i]
    BY <1>3 DEF EncodeDataSize, CodecInv, HalfHeader
  <2>2. buffer' = [i \in 0 .. 11 |-> IF i < 4 THEN namesize[3 - i] ELSE datasize[11 - i]]
    <3>1. buffer' = [i \in 0 .. 11 |->
                       IF i \in 4 .. 11 THEN bswap64(datasize)[i - 4] ELSE buffer[i]]
      BY <1>3, HeaderBytes DEF EncodeDataSize, Store
    <3>2. \A i \in 4 .. 11 : bswap64(datasize)[i - 4] = datasize[11 - i]
      BY <1>1
    <3>3. \A i \in 0 .. 11 :
             buffer'[i] = IF i < 4 THEN namesize[3 - i] ELSE datasize[11 - i]
      BY <2>1, <3>1, <3>2
    <3> QED
      BY <3>1, <3>3
  <2>3. buffer' \in Word(HdrSize)
    BY <1>0, <2>2, HeaderBytes DEF Word
  <2> QED
    BY <1>3, <2>2, <2>3, HeaderBytes DEF EncodeDataSize, CodecInv, TypeOK, HalfHeader, NetworkOrder, Decoding,
       EncodeSteps
<1>4. CASE DecodeNameSize
  <2> DEFINE low == LowHalf(Load(buffer, 0))
  <2>1. buffer = [i \in 0 .. 11 |-> IF i < 4 THEN namesize[3 - i] ELSE datasize[11 - i]]
    BY <1>4, HeaderBytes DEF DecodeNameSize, CodecInv, NetworkOrder
  <2>2. low \in Word(4) /\ \A i \in 0 .. 3 : low[i] = namesize[3 - i]
    BY <1>0, <2>1 DEF LowHalf, Load, Word
  <2>3. bswap32(low) = [i \in 0 .. 3 |-> low[3 - i]]
    BY <2>2, Bswap32Reverses
  <2>4. bswap32(low) = namesize
    BY <1>0, <2>2, <2>3 DEF Word
  <2>5. decoded' = [decoded EXCEPT !.namesize = namesize]
    BY <1>4, <2>4 DEF DecodeNameSize
  <2> QED
    BY <1>0, <1>4, <2>1, <2>5 DEF DecodeNameSize, CodecInv, TypeOK, HalfHeader, NetworkOrder, Decoding,
       EncodeSteps
<1>5. CASE DecodeDataSize
  <2> DEFINE word == Load(buffer, 4)
  <2>1. buffer = [i \in 0 .. 11 |-> IF i < 4 THEN namesize[3 - i] ELSE datasize[11 - i]]
    BY <1>5, HeaderBytes DEF DecodeDataSize, CodecInv, NetworkOrder
  <2>2. word \in Word(8) /\ \A i \in 0 .. 7 : word[i] = datasize[7 - i]
    BY <1>0, <2>1 DEF Load, Word
  <2>3. bswap64(word) = [i \in 0 .. 7 |-> word[7 - i]]
    BY <2>2, Bswap64Reverses
  <2>4. bswap64(word) = datasize
    BY <1>0, <2>2, <2>3 DEF Word
  <2>5. decoded' = [decoded EXCEPT !.datasize = datasize]
    BY <1>5, <2>4 DEF DecodeDataSize
  <2> QED
    BY <1>0, <1>5, <2>1, <2>5 DEF DecodeDataSize, CodecInv, TypeOK, HalfHeader, NetworkOrder, Decoding,
       EncodeSteps
<1>6. CASE UNCHANGED vars
  BY <1>6 DEF vars, CodecInv, TypeOK, HalfHeader, NetworkOrder, Decoding
<1> QED
  BY <1>2, <1>3, <1>4, <1>5, <1>6 DEF Next

\* Every byte that encoder and decoder store or load, converted between 32 and 64
\* bits on the way, lands in a field of its width (transmission_def.h).
THEOREM FramingTypeCorrect == Spec => []TypeOK
<1>1. CodecInv => TypeOK
  BY DEF CodecInv
<1> QED
  BY <1>1, CodecStarts, CodecKeeps, PTL DEF Spec

\* The server decodes the header the client encoded, for all sizes.
THEOREM DecodesWhatWasEncoded == Spec => []RoundTrip
<1>1. CodecInv => RoundTrip
  BY DEF CodecInv, TypeOK, Decoding, RoundTrip
<1> QED
  BY <1>1, CodecStarts, CodecKeeps, PTL DEF Spec

\* The header travels in network byte order, for all sizes.
THEOREM TravelsInNetworkOrder == Spec => []NetworkOrder
<1>1. CodecInv => NetworkOrder
  BY DEF CodecInv
<1> QED
  BY <1>1, CodecStarts, CodecKeeps, PTL DEF Spec

-----------------------------------------------------------------------------
(* Kernel objects *)

\* A user that is behind mutex::lock with a handle is the owner.
Owned == \A u \in inside : handle[u] => owner = {u}

KernelInv == Kernel!KernelTypeOK /\ Owned /\ WaitsAreSignalled

LEMMA KernelInitial == LibInit => KernelInv
<1>1. LibInit => Kernel!KernelInit
  BY DEF LibInit
<1>2. Kernel!KernelInit => Kernel!KernelTypeOK /\ Owned
  BY DEF Kernel!KernelInit, Kernel!KernelTypeOK, Owned
<1>3. Kernel!KernelInit => WaitsAreSignalled
  BY DEF Kernel!KernelInit, WaitsAreSignalled, Kernel!WaitsAreSignalled
<1> QED
  BY <1>1, <1>2, <1>3 DEF KernelInv

LEMMA UserKeeps ==
    ASSUME KernelInv, NEW u \in Users, Kernel!UserStep(u)
    PROVE  KernelInv'
<1> USE KernelAssumption DEF KernelInv, Kernel!KernelTypeOK, Owned, WaitsAreSignalled,
        Kernel!WaitsAreSignalled, Kernel!Kinds
<1>1. CASE \E k \in Kernel!Kinds : Kernel!Create(u, k)
  BY <1>1 DEF Kernel!Create, Kernel!Created
<1>2. CASE \E k \in Kernel!Kinds : Kernel!Open(u, k)
  BY <1>2 DEF Kernel!Open, Kernel!Opened
<1>3. CASE Kernel!Post(u)
  BY <1>3 DEF Kernel!Post, Kernel!Signalled
<1>4. CASE Kernel!Wait(u)
  BY <1>4 DEF Kernel!Wait
<1>5. CASE Kernel!LockMutex(u)
  BY <1>5 DEF Kernel!LockMutex
<1>6. CASE Kernel!UnlockMutex(u)
  BY <1>6 DEF Kernel!UnlockMutex
<1>7. CASE Kernel!Destroy(u)
  BY <1>7 DEF Kernel!Destroy
<1>8. CASE Kernel!SetTimer(u) \/ Kernel!CancelTimer(u)
  BY <1>8 DEF Kernel!SetTimer, Kernel!CancelTimer
<1> QED
  BY <1>1, <1>2, <1>3, <1>4, <1>5, <1>6, <1>7, <1>8 DEF Kernel!UserStep

LEMMA KernelStep == KernelInv /\ [LibNext]_libVars => KernelInv'
<1> SUFFICES ASSUME KernelInv, [LibNext]_libVars PROVE KernelInv'
  OBVIOUS
<1>1. Kernel!KernelNext \/ UNCHANGED kernelVars
  BY DEF LibNext, Still, libVars
<1>2. CASE UNCHANGED kernelVars
  BY <1>2 DEF kernelVars, KernelInv, Kernel!KernelTypeOK, Owned, WaitsAreSignalled,
     Kernel!WaitsAreSignalled
<1>3. CASE Kernel!CreatedElsewhere
  BY <1>3 DEF Kernel!CreatedElsewhere, KernelInv, Kernel!KernelTypeOK, Kernel!Kinds, Owned,
     WaitsAreSignalled, Kernel!WaitsAreSignalled
<1>4. CASE Kernel!Due
  BY <1>4 DEF Kernel!Due, Kernel!Signalled, KernelInv, Kernel!KernelTypeOK, Owned,
     WaitsAreSignalled, Kernel!WaitsAreSignalled
<1> QED
  BY <1>1, <1>2, <1>3, <1>4, UserKeeps DEF Kernel!KernelNext

\* Any number of wrapper objects, of one program or several, may share the name:
\* those whose create succeeded are behind mutex::lock one at a time, whatever
\* the others do that went on without a handle (thread_synch.cpp:187-200).
THEOREM MutexHasOneUser == LibSpec => []Kernel!MutexExcludes
<1>1. KernelInv => Kernel!MutexExcludes
  BY DEF KernelInv, Owned, Kernel!MutexExcludes
<1> QED
  BY <1>1, KernelInitial, KernelStep, PTL DEF LibSpec

\* No more waits of a semaphore or an event succeed than it was posted or notified,
\* through every closing and new creation of the object (thread_synch.cpp:225).
THEOREM WaitsUseUpSignals == LibSpec => []WaitsAreSignalled
<1>1. KernelInv => WaitsAreSignalled
  BY DEF KernelInv
<1> QED
  BY <1>1, KernelInitial, KernelStep, PTL DEF LibSpec

-----------------------------------------------------------------------------
(* Locks *)

\* What the wrapper told, as far as trylock's inverted result has not been used.
Matching(win32) ==
    win32 \/ ~tried => own = told /\ rw = rwtold

\* The system's locks exclude, whatever the wrappers say.
Excluding ==
    \A t, u \in Threads : t # u =>
        /\ own[t] = 0 \/ own[u] = 0
        /\ rw[t] = "exclusive" => rw[u] = "none"

LocksInv(win32) == LocksOn(win32)!LocksTypeOK /\ Matching(win32) /\ Excluding

LocksTyped ==
    /\ own \in [Threads -> 0 .. Depth] /\ told \in [Threads -> 0 .. Depth]
    /\ rw \in [Threads -> {"none", "shared", "exclusive"}]
    /\ rwtold \in [Threads -> {"none", "shared", "exclusive"}]
    /\ sleep \in [Threads -> {"no", "wait", "timed", "woken"}]
    /\ tried \in BOOLEAN

LEMMA LocksTypes == \A w : LocksOn(w)!LocksTypeOK <=> LocksTyped
BY DEF LocksOn!LocksTypeOK, LocksTyped, LocksOn!Holds

\* One thread enters or leaves the mutex, or thinks it does.
LEMMA EntryKeeps ==
    ASSUME NEW w \in BOOLEAN, LocksTyped, Matching(w), Excluding, NEW t \in Threads,
           NEW n \in 0 .. Depth, NEW m \in 0 .. Depth,
           own' = [own EXCEPT ![t] = n], told' = [told EXCEPT ![t] = m],
           n > 0 => \A u \in Threads \ {t} : own[u] = 0,
           w \/ ~tried' => n = m /\ (w \/ ~tried),
           tried' \in BOOLEAN,
           sleep' \in [Threads -> {"no", "wait", "timed", "woken"}],
           UNCHANGED <<rw, rwtold>>
    PROVE  LocksTyped' /\ Matching(w)' /\ Excluding'
<1>1. LocksTyped'
  BY LocksAssumption DEF LocksTyped
<1>2. Matching(w)'
  BY DEF Matching, LocksTyped
<1>3. Excluding'
  BY DEF Excluding, LocksTyped
<1> QED
  BY <1>1, <1>2, <1>3

\* One thread takes or leaves the read-write lock, or thinks it does.
LEMMA HoldKeeps ==
    ASSUME NEW w \in BOOLEAN, LocksTyped, Matching(w), Excluding, NEW t \in Threads,
           NEW h \in {"none", "shared", "exclusive"}, NEW g \in {"none", "shared", "exclusive"},
           rw' = [rw EXCEPT ![t] = h], rwtold' = [rwtold EXCEPT ![t] = g],
           \A u \in Threads \ {t} :
              /\ h = "exclusive" => rw[u] = "none"
              /\ rw[u] = "exclusive" => h = "none",
           w \/ ~tried' => h = g /\ (w \/ ~tried),
           tried' \in BOOLEAN,
           UNCHANGED <<own, told, sleep>>
    PROVE  LocksTyped' /\ Matching(w)' /\ Excluding'
<1>1. LocksTyped'
  BY DEF LocksTyped
<1>2. Matching(w)'
  BY DEF Matching, LocksTyped
<1>3. Excluding'
  BY DEF Excluding, LocksTyped
<1> QED
  BY <1>1, <1>2, <1>3

\* A thread leaves that thinks it is inside; off Windows perhaps for another one.
LEMMA UnlockKeeps ==
    ASSUME NEW w \in BOOLEAN, LocksTyped, Matching(w), Excluding, NEW t \in Threads,
           LocksOn(w)!Unlock(t)
    PROVE  LocksTyped' /\ Matching(w)' /\ Excluding'
<1> USE DEF LocksOn!Unlock, LocksOn!mutexRest
<1>1. LocksTyped'
  BY LocksAssumption DEF LocksTyped
<1>2. Matching(w)'
  <2> SUFFICES ASSUME w \/ ~tried PROVE own' = told' /\ rw' = rwtold'
    BY DEF Matching
  <2>1. own = told /\ rw = rwtold /\ own[t] > 0
    BY DEF Matching
  <2>2. \A u \in Threads \ {t} : own[u] = 0
    BY <2>1 DEF Excluding, LocksTyped
  <2>3. own' = [u \in Threads |-> IF u = t THEN own[t] - 1 ELSE own[u]]
    BY <2>1, <2>2 DEF LocksTyped
  <2>4. told' = [u \in Threads |-> IF u = t THEN own[t] - 1 ELSE own[u]]
    BY <2>1 DEF LocksTyped
  <2> QED
    BY <2>1, <2>3, <2>4
<1>3. Excluding'
  BY DEF Excluding, LocksTyped
<1> QED
  BY <1>1, <1>2, <1>3

LEMMA MutexKeeps ==
    ASSUME NEW w \in BOOLEAN, LocksTyped, Matching(w), Excluding, NEW t \in Threads,
           \/ LocksOn(w)!Lock(t) \/ LocksOn(w)!Trylock(t) \/ LocksOn(w)!Unlock(t)
           \/ LocksOn(w)!WaitReturns(t)
           \/ \E how \in {"wait", "timed"} : LocksOn(w)!Wait(t, how)
    PROVE  LocksTyped' /\ Matching(w)' /\ Excluding'
<1>0. own[t] \in 0 .. Depth /\ told[t] \in 0 .. Depth /\ 1 \in 0 .. Depth /\ 0 \in 0 .. Depth
  BY LocksAssumption DEF LocksTyped
<1>1. CASE LocksOn(w)!Lock(t)
  <2>1. own[t] + 1 \in 0 .. Depth /\ told[t] + 1 \in 0 .. Depth
    BY <1>0, <1>1, LocksAssumption DEF LocksOn!Lock
  <2> QED
    BY <1>1, <2>1, EntryKeeps DEF LocksOn!Lock, LocksOn!MayEnter, LocksOn!mutexRest, LocksTyped,
       Matching
<1>2. CASE LocksOn(w)!Trylock(t)
  <2>1. own[t] + 1 \in 0 .. Depth /\ told[t] + 1 \in 0 .. Depth
    BY <1>0, <1>2, LocksAssumption DEF LocksOn!Trylock
  <2>2. own = [own EXCEPT ![t] = own[t]] /\ told = [told EXCEPT ![t] = told[t]]
    BY DEF LocksTyped
  <2> DEFINE n == own'[t]
             m == told'[t]
  <2>3. /\ n \in 0 .. Depth /\ m \in 0 .. Depth
        /\ own' = [own EXCEPT ![t] = n] /\ told' = [told EXCEPT ![t] = m]
    BY <1>0, <1>2, <2>1, <2>2 DEF LocksOn!Trylock, LocksTyped
  <2>4. n > 0 => \A u \in Threads \ {t} : own[u] = 0
    BY <1>2, <1>0 DEF LocksOn!Trylock, LocksOn!MayEnter, LocksTyped, Excluding
  <2>5. w \/ ~tried' => n = m /\ (w \/ ~tried)
    BY <1>2, <1>0 DEF LocksOn!Trylock, LocksOn!AsBool, LocksOn!MayEnter, LocksTyped, Matching
  <2> HIDE DEF n, m
  <2> QED
    BY <1>2, <2>3, <2>4, <2>5, EntryKeeps DEF LocksOn!Trylock, LocksOn!mutexRest, LocksTyped
<1>3. CASE LocksOn(w)!WaitReturns(t)
  BY <1>0, <1>3, EntryKeeps DEF LocksOn!WaitReturns, LocksOn!MayEnter, LocksTyped
<1>4. ASSUME NEW how \in {"wait", "timed"}, LocksOn(w)!Wait(t, how)
      PROVE  LocksTyped' /\ Matching(w)' /\ Excluding'
  <2>1. sleep' \in [Threads -> {"no", "wait", "timed", "woken"}]
    BY <1>4 DEF LocksOn!Wait, LocksTyped
  <2>2. /\ own' = [own EXCEPT ![t] = 0] /\ told' = [told EXCEPT ![t] = 0]
        /\ UNCHANGED <<rw, rwtold, tried>>
    BY <1>4 DEF LocksOn!Wait
  <2>3. tried' \in BOOLEAN
    BY <2>2 DEF LocksTyped
  <2>4. ~(0 > 0) /\ (w \/ ~tried' => w \/ ~tried)
    BY <2>2
  <2> QED
    BY <1>0, <2>1, <2>2, <2>3, <2>4, EntryKeeps
<1> QED
  BY <1>1, <1>2, <1>3, <1>4, UnlockKeeps

LEMMA RwlockKeeps ==
    ASSUME NEW w \in BOOLEAN, LocksTyped, Matching(w), Excluding, NEW t \in Threads,
           \/ LocksOn(w)!UnlockRW(t)
           \/ \E how \in {"shared", "exclusive"} :
                 LocksOn(w)!LockRW(t, how) \/ LocksOn(w)!TrylockRW(t, how)
    PROVE  LocksTyped' /\ Matching(w)' /\ Excluding'
<1>1. CASE LocksOn(w)!UnlockRW(t)
  BY <1>1, HoldKeeps DEF LocksOn!UnlockRW, LocksOn!rwlockRest, LocksTyped
<1>2. ASSUME NEW how \in {"shared", "exclusive"}, LocksOn(w)!LockRW(t, how)
      PROVE  LocksTyped' /\ Matching(w)' /\ Excluding'
  BY <1>2, HoldKeeps DEF LocksOn!LockRW, LocksOn!MayShare, LocksOn!rwlockRest, LocksTyped
<1>3. ASSUME NEW how \in {"shared", "exclusive"}, LocksOn(w)!TrylockRW(t, how)
      PROVE  LocksTyped' /\ Matching(w)' /\ Excluding'
  <2> DEFINE h == rw'[t]
             g == rwtold'[t]
  <2>1. /\ h \in {"none", "shared", "exclusive"} /\ g \in {"none", "shared", "exclusive"}
        /\ rw' = [rw EXCEPT ![t] = h] /\ rwtold' = [rwtold EXCEPT ![t] = g]
    BY <1>3 DEF LocksOn!TrylockRW, LocksTyped
  <2>2. \A u \in Threads \ {t} :
           /\ h = "exclusive" => rw[u] = "none"
           /\ rw[u] = "exclusive" => h = "none"
    BY <1>3 DEF LocksOn!TrylockRW, LocksOn!MayShare, LocksTyped
  <2>3. w \/ ~tried' => h = g /\ (w \/ ~tried)
    BY <1>3 DEF LocksOn!TrylockRW, LocksOn!MayShare, LocksOn!AsBool, LocksTyped
  <2>4. tried' \in BOOLEAN /\ UNCHANGED <<own, told, sleep>>
    BY <1>3 DEF LocksOn!TrylockRW, LocksOn!rwlockRest
  <2> HIDE DEF h, g
  <2> QED
    BY <2>1, <2>2, <2>3, <2>4, HoldKeeps
<1> QED
  BY <1>1, <1>2, <1>3

LEMMA LocksStep ==
    ASSUME NEW w \in BOOLEAN, LocksInv(w), LocksOn(w)!LocksNext
    PROVE  LocksInv(w)'
<1>1. LocksTyped /\ Matching(w) /\ Excluding
  BY LocksTypes DEF LocksInv
<1>2. ASSUME LocksOn(w)!Signal \/ LocksOn(w)!Broadcast
      PROVE  LocksTyped' /\ Matching(w)' /\ Excluding'
  <2>1. /\ UNCHANGED <<own, told, rw, rwtold, tried>>
        /\ sleep' \in [Threads -> {"no", "wait", "timed", "woken"}]
    BY <1>1, <1>2 DEF LocksOn!Signal, LocksOn!Broadcast, LocksTyped
  <2>2. LocksTyped'
    BY <1>1, <2>1 DEF LocksTyped
  <2>3. Matching(w)' /\ Excluding'
    BY <1>1, <2>1 DEF Matching, Excluding
  <2> QED
    BY <2>2, <2>3
<1>3. ASSUME NEW t \in Threads, LocksOn(w)!ThreadStep(t)
      PROVE  LocksTyped' /\ Matching(w)' /\ Excluding'
  BY <1>1, <1>3, MutexKeeps, RwlockKeeps DEF LocksOn!ThreadStep
<1>4. LocksTyped' /\ Matching(w)' /\ Excluding'
  BY <1>2, <1>3 DEF LocksOn!LocksNext
<1> QED
  BY <1>4 DEF LocksInv, LocksOn!LocksTypeOK, LocksTyped, LocksOn!Holds

LEMMA LocksKept == ASSUME NEW w, UNCHANGED lockVars PROVE LocksInv(w) => LocksInv(w)'
BY DEF lockVars, LocksInv, LocksOn!LocksTypeOK, Matching, Excluding, LocksOn!Holds

\* The locks of the system the behaviour is about.
SubjectLocks == LocksInv(subject = "win32 locks")

LEMMA LocksInitial == LibInit => SubjectLocks
<1>1. LibInit => LocksOn(TRUE)!LocksInit
  BY DEF LibInit
<1>2. ASSUME LocksOn(TRUE)!LocksInit PROVE LocksTyped
  <2>1. 0 \in 0 .. Depth
    BY LocksAssumption
  <2>2. own \in [Threads -> 0 .. Depth] /\ told \in [Threads -> 0 .. Depth]
    BY <1>2, <2>1 DEF LocksOn!LocksInit
  <2> QED
    BY <1>2, <2>2 DEF LocksOn!LocksInit, LocksTyped
<1>3. LocksOn(TRUE)!LocksInit => own = told /\ rw = rwtold /\ Excluding
  BY DEF LocksOn!LocksInit, Excluding
<1> QED
  BY <1>1, <1>2, <1>3, LocksTypes DEF SubjectLocks, LocksInv, Matching

LEMMA SubjectLocksStep == SubjectLocks /\ [LibNext]_libVars => SubjectLocks'
<1> SUFFICES ASSUME SubjectLocks, [LibNext]_libVars PROVE SubjectLocks'
  OBVIOUS
<1>1. \/ subject = "win32 locks" /\ LocksOn(TRUE)!LocksNext
      \/ subject = "posix locks" /\ LocksOn(FALSE)!LocksNext
      \/ UNCHANGED lockVars
  BY DEF LibNext, Still, libVars
<1>2. subject' = subject
  BY DEF LibNext, Still, libVars
<1> DEFINE w == subject = "win32 locks"
<1>3. w \in BOOLEAN /\ w' = w
  BY <1>2
<1>4. LocksInv(w) => LocksInv(w)'
  BY <1>1, <1>3, LocksStep, LocksKept
<1> QED
  BY <1>2, <1>4 DEF SubjectLocks

\* The wrappers admit one thread to a mutex and to an exclusive lock at a time,
\* through recursive entries, waits of the condition variable, timeouts and failed
\* attempts, and leave no lock held that everybody has left: on Windows always, on
\* POSIX until the first trylock (thread_synch.cpp:27).  A named mutex excludes its
\* users as well.
THEOREM LocksExclude == LibSpec => []HoldersExclude
<1>1. ASSUME NEW w \in BOOLEAN, LocksTyped, Matching(w), Excluding
      PROVE  LocksOn(w)!HoldersExclude /\ LocksOn(w)!FreeWhenLeft
  BY <1>1 DEF LocksTyped, Matching, Excluding, LocksOn!HoldersExclude, LocksOn!FreeWhenLeft
<1>2. SubjectLocks /\ Kernel!MutexExcludes => HoldersExclude
  <2> SUFFICES ASSUME SubjectLocks, Kernel!MutexExcludes PROVE HoldersExclude
    OBVIOUS
  <2>1. CASE subject = "win32 locks"
    <3>1. LocksTyped /\ Matching(TRUE) /\ Excluding
      BY <2>1, LocksTypes DEF SubjectLocks, LocksInv
    <3> QED
      BY <2>1, <3>1, <1>1 DEF HoldersExclude
  <2>2. CASE subject # "win32 locks"
    <3>1. LocksTyped /\ Matching(FALSE) /\ Excluding
      BY <2>2, LocksTypes DEF SubjectLocks, LocksInv
    <3> QED
      BY <2>2, <3>1, <1>1 DEF HoldersExclude
  <2> QED
    BY <2>1, <2>2
<1> QED
  BY <1>2, LocksInitial, SubjectLocksStep, MutexHasOneUser, PTL DEF LibSpec

-----------------------------------------------------------------------------
(* The threads of an active object *)

ThreadsTyped ==
    /\ thread \in [Spawned -> {"none", "running", "ended"}]
    /\ list \in Seq(Spawned)
    /\ object \in {"alive", "waiting", "destroyed"}
    /\ killed \in BOOLEAN
    /\ let \subseteq Spawned

Running == {t \in Spawned : thread[t] = "running"}

InList == {list[i] : i \in DOMAIN list}

\* With pthreads a thread that runs is in the list until it is let go; what the
\* destructor finds in the list it ends, with the process.
Listed(win32) ==
    win32 \/ killed \/ Running \subseteq let \cup (IF object = "destroyed" THEN {} ELSE InList)

ThreadsInv(win32) == ThreadsTyped /\ Listed(win32)

LEMMA ThreadsStep ==
    ASSUME NEW w \in BOOLEAN, ThreadsInv(w), ThreadsOn(w)!ObjectNext
    PROVE  ThreadsInv(w)'
<1> USE DEF ThreadsInv
<1>1. ~killed /\ ThreadsOn(w)!ObjectStep
  BY DEF ThreadsOn!ObjectNext
<1>2. ASSUME NEW t \in Spawned, ThreadsOn(w)!Activate(t)
      PROVE  ThreadsTyped' /\ Listed(w)'
  <2>1. PICK created \in BOOLEAN :
           /\ thread' = IF created THEN [thread EXCEPT ![t] = "running"] ELSE thread
           /\ list' = IF created /\ ~w THEN Append(list, t) ELSE list
    BY <1>2 DEF ThreadsOn!Activate, ThreadsOn!SpawnSucceeds
  <2>2. UNCHANGED <<object, killed, let>> /\ object = "alive"
    BY <1>2 DEF ThreadsOn!Activate
  <2>3. ThreadsTyped'
    BY <2>1, <2>2 DEF ThreadsTyped
  <2>4. ASSUME ~w PROVE InList \subseteq InList' /\ (created => t \in InList')
    <3>1. CASE created
      <4>1. list' = Append(list, t) /\ Len(list') = Len(list) + 1 /\ Len(list) \in Nat
        BY <2>1, <2>4, <3>1 DEF ThreadsTyped
      <4>2. list'[Len(list) + 1] = t /\ \A i \in 1 .. Len(list) : list'[i] = list[i]
        BY <4>1 DEF ThreadsTyped
      <4> QED
        BY <4>1, <4>2, <2>3 DEF InList, ThreadsTyped
    <3>2. CASE ~created
      BY <2>1, <3>2 DEF InList
    <3> QED
      BY <3>1, <3>2
  <2>5. Running' \subseteq Running \cup (IF created THEN {t} ELSE {})
    BY <2>1 DEF Running, ThreadsTyped
  <2>6. Listed(w)'
    BY <1>1, <2>2, <2>4, <2>5 DEF Listed
  <2> QED
    BY <2>3, <2>6
<1>3. ASSUME NEW t \in Spawned, ThreadsOn(w)!End(t)
      PROVE  ThreadsTyped' /\ Listed(w)'
  BY <1>3 DEF ThreadsOn!End, ThreadsTyped, Listed, Running, InList
<1>4. ASSUME ThreadsOn(w)!WaitBegins \/ ThreadsOn(w)!WaitReturns \/ ThreadsOn(w)!Terminate
      PROVE  ThreadsTyped' /\ Listed(w)'
  <2>1. /\ UNCHANGED <<thread, list, let>> /\ object' \in {"alive", "waiting"}
        /\ object # "destroyed" /\ killed' \in BOOLEAN
    BY <1>4 DEF ThreadsOn!WaitBegins, ThreadsOn!WaitReturns, ThreadsOn!Terminate,
       ThreadsOn!Kills, ThreadsTyped
  <2> QED
    BY <1>1, <2>1 DEF ThreadsTyped, Listed, Running, InList
<1>5. ASSUME ThreadsOn(w)!Dispose PROVE ThreadsTyped' /\ Listed(w)'
  <2>1. let' = let \cup InList /\ list' = <<>> /\ UNCHANGED <<thread, object, killed>>
    BY <1>5 DEF ThreadsOn!Dispose, ThreadsOn!Range, InList
  <2>2. InList \subseteq Spawned
    BY DEF InList, ThreadsTyped
  <2>3. ThreadsTyped'
    BY <2>1, <2>2 DEF ThreadsTyped
  <2>4. Listed(w)'
    BY <1>1, <1>5, <2>1 DEF ThreadsOn!Dispose, Listed, Running
  <2> QED
    BY <2>3, <2>4
<1>6. ASSUME ThreadsOn(w)!Destroy PROVE ThreadsTyped' /\ Listed(w)'
  <2>1. /\ object = "alive" /\ object' = "destroyed" /\ list' = <<>> /\ UNCHANGED <<thread, let>>
        /\ killed' = (~w /\ \E t \in InList : thread[t] = "running")
    BY <1>6 DEF ThreadsOn!Destroy, ThreadsOn!Kills, ThreadsOn!Range, InList
  <2>2. ThreadsTyped'
    BY <2>1 DEF ThreadsTyped
  <2>3. Listed(w)'
    BY <1>1, <2>1 DEF Listed, Running
  <2> QED
    BY <2>2, <2>3
<1> QED
  BY <1>1, <1>2, <1>3, <1>4, <1>5, <1>6 DEF ThreadsOn!ObjectStep

LEMMA ThreadsKept == ASSUME NEW w, UNCHANGED objectVars PROVE ThreadsInv(w) => ThreadsInv(w)'
BY DEF objectVars, ThreadsInv, ThreadsTyped, Listed, Running, InList

SubjectThreads == ThreadsInv(subject = "win32 threads")

LEMMA ThreadsInitial == LibInit => SubjectThreads
<1>1. LibInit => ThreadsOn(TRUE)!ObjectInit
  BY DEF LibInit
<1>2. ASSUME ThreadsOn(TRUE)!ObjectInit PROVE ThreadsTyped
  <2>1. list \in Seq(Spawned) /\ thread \in [Spawned -> {"none", "running", "ended"}]
    BY <1>2 DEF ThreadsOn!ObjectInit
  <2> QED
    BY <1>2, <2>1 DEF ThreadsOn!ObjectInit, ThreadsTyped
<1>3. ThreadsOn(TRUE)!ObjectInit => Running = {}
  BY DEF ThreadsOn!ObjectInit, Running
<1> QED
  BY <1>1, <1>2, <1>3 DEF SubjectThreads, ThreadsInv, Listed

LEMMA SubjectThreadsStep == SubjectThreads /\ [LibNext]_libVars => SubjectThreads'
<1> SUFFICES ASSUME SubjectThreads, [LibNext]_libVars PROVE SubjectThreads'
  OBVIOUS
<1>1. \/ subject = "win32 threads" /\ ThreadsOn(TRUE)!ObjectNext
      \/ subject = "posix threads" /\ ThreadsOn(FALSE)!ObjectNext
      \/ UNCHANGED objectVars
  BY DEF LibNext, Still, libVars
<1>2. subject' = subject
  BY DEF LibNext, Still, libVars
<1> DEFINE w == subject = "win32 threads"
<1>3. w \in BOOLEAN /\ w' = w
  BY <1>2
<1>4. ThreadsInv(w) => ThreadsInv(w)'
  BY <1>1, <1>3, ThreadsStep, ThreadsKept
<1> QED
  BY <1>2, <1>4 DEF SubjectThreads

\* With pthreads no svc() runs on a destroyed object, whatever order activate, wait,
\* terminate, dispose and the destructor come in and however many threads there are:
\* it was let go by dispose before, or the process ended (thread_basic.cpp:81).
THEOREM NoThreadOutlives == LibSpec => []NoneOutlives
<1>1. SubjectThreads => NoneOutlives
  BY DEF SubjectThreads, ThreadsInv, Listed, Running, NoneOutlives, ThreadsOn!NoneOutlives
<1> QED
  BY <1>1, ThreadsInitial, SubjectThreadsStep, PTL DEF LibSpec

-----------------------------------------------------------------------------
(* The owning pointer *)

\* What a pointer wraps fits its deleter, unless it crossed over.
Fitting ==
    \A p \in Ptrs : ptr[p] \in Cells => Deleter[p] = Made[ptr[p]] \/ ptr[p] \in crossed

PointersInv == Pointers!PtrTypeOK /\ PointersOwn /\ Fitting

LEMMA PointersInitial == LibInit => PointersInv
<1>1. LibInit => Pointers!PtrInit
  BY DEF LibInit
<1>2. Pointers!PtrInit => Pointers!PtrTypeOK /\ Fitting
  BY PointerAssumption DEF Pointers!PtrInit, Pointers!PtrTypeOK, Pointers!Dead, Fitting
<1>3. Pointers!PtrInit => PointersOwn
  BY PointerAssumption DEF Pointers!PtrInit, PointersOwn, Pointers!OneHolder, Pointers!RightDeleter, Pointers!Dead
<1> QED
  BY <1>1, <1>2, <1>3 DEF PointersInv

LEMMA PointersKeep ==
    ASSUME PointersInv, NEW p \in Ptrs,
           \/ Pointers!Release(p) \/ Pointers!Destroy(p)
           \/ \E q \in Ptrs : Pointers!CopyConstruct(p, q) \/ Pointers!Assign(p, q)
           \/ \E x \in Cells \cup {Null} : Pointers!Construct(p, x) \/ Pointers!Reset(p, x)
    PROVE  PointersInv'
<1> USE PointerAssumption
    DEF PointersInv, PointersOwn, Pointers!PtrTypeOK, Pointers!OneHolder, Pointers!RightDeleter,
        Fitting, Pointers!Dead, Pointers!Lives
<1>1. CASE Pointers!Release(p)
  BY <1>1 DEF Pointers!Release
<1>2. CASE Pointers!Destroy(p)
  BY <1>2 DEF Pointers!Destroy, Pointers!Freed
<1>3. ASSUME NEW q \in Ptrs, Pointers!CopyConstruct(p, q) PROVE PointersInv'
  BY <1>3 DEF Pointers!CopyConstruct, Pointers!Crossing
<1>4. ASSUME NEW q \in Ptrs, Pointers!Assign(p, q) PROVE PointersInv'
  BY <1>4 DEF Pointers!Assign, Pointers!Crossing, Pointers!Freed
<1>5. ASSUME NEW x \in Cells \cup {Null}, Pointers!Construct(p, x) PROVE PointersInv'
  BY <1>5 DEF Pointers!Construct
<1>6. ASSUME NEW x \in Cells \cup {Null}, Pointers!Reset(p, x) PROVE PointersInv'
  BY <1>6 DEF Pointers!Reset, Pointers!Freed
<1> QED
  BY <1>1, <1>2, <1>3, <1>4, <1>5, <1>6

LEMMA PointersStep == PointersInv /\ [LibNext]_libVars => PointersInv'
<1> SUFFICES ASSUME PointersInv, [LibNext]_libVars PROVE PointersInv'
  OBVIOUS
<1>1. Pointers!PtrNext \/ UNCHANGED ptrVars
  BY DEF LibNext, Still, libVars
<1>2. CASE UNCHANGED ptrVars
  BY <1>2 DEF ptrVars, PointersInv, PointersOwn, Pointers!PtrTypeOK, Pointers!OneHolder,
     Pointers!RightDeleter, Fitting
<1> QED
  BY <1>1, <1>2, PointersKeep DEF Pointers!PtrNext

\* However pointers are copied, assigned, reset, released and destroyed, also to
\* themselves, an object is with one of them, with the program or destroyed, and
\* was destroyed as it was made unless it went between pointers of different
\* deleters (simple_ptr.h:51-68).
THEOREM PointersOwnAlone == LibSpec => []PointersOwn
<1>1. PointersInv => PointersOwn
  BY DEF PointersInv
<1> QED
  BY <1>1, PointersInitial, PointersStep, PTL DEF LibSpec
=============================================================================
