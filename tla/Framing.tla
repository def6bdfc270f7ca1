------------------------------- MODULE Framing -------------------------------
(***************************************************************************)
(* The frame header: encode_sftp_header on the client, decode_sftp_header  *)
(* on the server (transmission_def.h), over __bswap32 and __bswap64        *)
(* (xxbswap.h), on little-endian machines.                                 *)
(*                                                                         *)
(* A machine word is the function from byte number to byte, byte 0 the     *)
(* lowest address: sizes are not numbers here but the bytes they occupy.   *)
(* The bytes are any set with a zero.                                      *)
(***************************************************************************)
EXTENDS Integers

CONSTANTS
    Byte,       \* the values of a byte
    Zero,       \* the byte 0
    Leftovers   \* what the client's static buffer may hold before a frame

Word(n) == [0 .. n - 1 -> Byte]

HdrSize == 12   \* sftp_header::size

ASSUME ByteAssumption == Zero \in Byte

ASSUME BufferAssumption == Leftovers \subseteq Word(HdrSize)

-----------------------------------------------------------------------------
(* xxbswap.h *)

\* ror r, 8 and rol r, 8: the bytes go round by one place.
Ror8(w) == [i \in 0 .. 3 |-> w[(i + 1) % 4]]
Rol8_AsRor(w) == [i \in 0 .. 3 |-> w[(i + 1) % 4]]  \* mutated form: ror twice
Rol8(w) == [i \in 0 .. 3 |-> w[(i + 3) % 4]]

\* and r, mask: the bytes whose mask byte is FF are kept.
Keep(w, bytes) == [i \in 0 .. 3 |-> IF i \in bytes THEN w[i] ELSE Zero]

\* or, where no byte is non-zero on both sides.
Merge(v, w) == [i \in 0 .. 3 |-> IF v[i] = Zero THEN w[i] ELSE v[i]]

bswap32(w) == Merge(Keep(Ror8(w), {1, 3}), Keep(Rol8(w), {0, 2}))

LowHalf(w)  == [i \in 0 .. 3 |-> w[i]]
HighHalf(w) == [i \in 0 .. 3 |-> w[i + 4]]
Joined(low, high) == [i \in 0 .. 7 |-> IF i < 4 THEN low[i] ELSE high[i - 4]]

bswap64_InPlace(w) ==  \* mutated form: the halves are not exchanged
    Joined(bswap32(LowHalf(w)), bswap32(HighHalf(w)))

\* The high half's swap is the result's low half, and the other way round.
bswap64(w) == Joined(bswap32(HighHalf(w)), bswap32(LowHalf(w)))

-----------------------------------------------------------------------------
(* transmission_def.h *)

\* uint32_t converted to long long.
Extended(w) == [i \in 0 .. 7 |-> IF i < 4 THEN w[i] ELSE Zero]

\* *((long long*)(buf + off)) = w
Store_Misplaced(buf, off, w) ==  \* mutated form: the offset counted twice
    [i \in 0 .. (IF 2 * off + 8 > HdrSize THEN 2 * off + 8 ELSE HdrSize) - 1 |->
       IF i \in 2 * off .. 2 * off + 7 THEN w[i - 2 * off] ELSE
       IF i < HdrSize THEN buf[i] ELSE Zero]

Store(buf, off, w) ==
    [i \in 0 .. HdrSize - 1 |-> IF i \in off .. off + 7 THEN w[i - off] ELSE buf[i]]

\* *((const long long*)(buf + off))
Load(buf, off) == [i \in 0 .. 7 |-> buf[off + i]]

VARIABLES
    namesize, datasize,   \* the header the client fills in
    buffer,               \* the first HdrSize bytes of the frame
    decoded,              \* the header the server fills in
    step                  \* how far encoding, transport and decoding are

vars == <<namesize, datasize, buffer, decoded, step>>

EncodeSteps == {"encode namesize", "encode datasize", "decode namesize",
                "decode datasize", "decoded"}

NoWord(n) == [i \in 0 .. n - 1 |-> Zero]

TypeOK ==
    /\ namesize \in Word(4)
    /\ datasize \in Word(8)
    /\ buffer \in Word(HdrSize)
    /\ decoded \in [namesize : Word(4), datasize : Word(8)]
    /\ step \in EncodeSteps

Init ==
    /\ namesize \in Word(4)
    /\ datasize \in Word(8)
    /\ buffer \in Leftovers
    /\ decoded = [namesize |-> NoWord(4), datasize |-> NoWord(8)]
    /\ step = "encode namesize"

\* The first store is eight bytes wide and reaches into the data size's place.
EncodeNameSize ==
    /\ step = "encode namesize"
    /\ buffer' = Store(buffer, 0, Extended(bswap32(namesize)))
    /\ step' = "encode datasize"
    /\ UNCHANGED <<namesize, datasize, decoded>>

EncodeDataSize ==
    /\ step = "encode datasize"
    /\ buffer' = Store(buffer, 4, bswap64(datasize))
    /\ step' = "decode namesize"
    /\ UNCHANGED <<namesize, datasize, decoded>>

\* The server has the twelve bytes in its own buffer; the load is eight bytes
\* wide and its low half is what __bswap32 takes.
DecodeNameSize ==
    /\ step = "decode namesize"
    /\ decoded' = [decoded EXCEPT !.namesize = bswap32(LowHalf(Load(buffer, 0)))]
    /\ step' = "decode datasize"
    /\ UNCHANGED <<namesize, datasize, buffer>>

DecodeDataSize ==
    /\ step = "decode datasize"
    /\ decoded' = [decoded EXCEPT !.datasize = bswap64(Load(buffer, 4))]
    /\ step' = "decoded"
    /\ UNCHANGED <<namesize, datasize, buffer>>

Next == EncodeNameSize \/ EncodeDataSize \/ DecodeNameSize \/ DecodeDataSize

Spec == Init /\ [][Next]_vars

-----------------------------------------------------------------------------

\* What the server decodes is what the client encoded, whatever the buffer held
\* before, although the two stores of the encoder overlap.
RoundTrip ==
    step = "decoded" =>
        decoded = [namesize |-> namesize, datasize |-> datasize]

\* On the wire both sizes are in network byte order, most significant byte
\* first, the name's size before the data's.
NetworkOrder ==
    step \in {"decode namesize", "decode datasize", "decoded"} =>
        buffer = [i \in 0 .. HdrSize - 1 |->
                    IF i < 4 THEN namesize[3 - i] ELSE datasize[11 - i]]
=============================================================================
