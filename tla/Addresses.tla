------------------------------ MODULE Addresses ------------------------------
(***************************************************************************)
(* Addresses as text: compat::inet_ntop and compat::inet_pton              *)
(* (xxsocket.cpp) and the endpoint that is built from a text or filled in  *)
(* by the system (xxsocket.h).  Every connection is made to an endpoint    *)
(* built from a text.                                                      *)
(*                                                                         *)
(* A character is its value as a hexadecimal digit, or Colon, or Dot, or   *)
(* Other.  An address is the sequence of its 4 bytes or of its 8 words.    *)
(* The port that to_cstring appends to the address is left out.            *)
(***************************************************************************)
EXTENDS Integers, Sequences, SequencesExt

CONSTANTS
    Words,   \* the values of the words of the addresses the system fills in
    Octets,  \* the values of the bytes of the addresses the system fills in
    Typed    \* texts that a caller may pass

Colon == 16
Dot   == 17
Other == 18

None == <<>>   \* what inet_pton makes of a text it refuses

-----------------------------------------------------------------------------
(* inet_ntop *)

\* The digits of %u (radix 10) and %x (radix 16).
Digits(v, radix) ==
    LET place == <<1, radix, radix * radix, radix * radix * radix>>
        n     == CHOOSE k \in 1 .. 4 :
                     /\ k < 4 => v < place[k + 1]
                     /\ k > 1 => v >= place[k]
    IN  [i \in 1 .. n |-> (v \div place[n - i + 1]) % radix]

inet_ntop4(b) ==
    Digits(b[1], 10) \o <<Dot>> \o Digits(b[2], 10) \o <<Dot>> \o
    Digits(b[3], 10) \o <<Dot>> \o Digits(b[4], 10)

\* The zero words from `base' on, as many as there are.
ZeroesFrom(w, base) ==
    CHOOSE n \in 0 .. 9 - base :
        /\ base + n <= 8 => w[base + n] # 0
        /\ \A i \in base .. base + n - 1 : w[i] = 0

\* The longest run of zero words, the first of equals; a single word is no run.
Best(w) ==
    LET runs == {r \in (1 .. 8) \X (2 .. 8) : r[2] = ZeroesFrom(w, r[1])}
    IN  IF runs = {} THEN [base |-> 1, len |-> 0]
        ELSE LET best == CHOOSE r \in runs :
                     \A q \in runs : r[2] > q[2] \/ (r[2] = q[2] /\ r[1] <= q[1])
             IN  [base |-> best[1], len |-> best[2]]

\* An IPv4 address in the last two words is written as one.
Encapsulates(w, best) ==
    best.base = 1 /\ (best.len = 6 \/ (best.len = 5 /\ w[6] = 65535))

TwoBytes(v) == <<v \div 256, v % 256>>

TextOfWord(w, best, i) ==
    IF i \in best.base .. best.base + best.len - 1
    THEN IF i = best.base THEN <<Colon>> ELSE <<>>
    ELSE (IF i = 1 THEN <<>> ELSE <<Colon>>) \o
         (IF i = 7 /\ Encapsulates(w, best)
          THEN inet_ntop4(TwoBytes(w[7]) \o TwoBytes(w[8]))
          ELSE Digits(w[i], 16))

TrailingRun_Forgotten(best) == <<>>  \* mutated form: the run at the end has one colon

\* A run of zeroes at the end has its second colon.
TrailingRun(best) ==
    IF best.len > 0 /\ best.base + best.len = 9 THEN <<Colon>> ELSE <<>>

\* An encapsulated address takes the places of two words.
Joined(w, best) ==
    FlattenSeq([i \in 1 .. IF Encapsulates(w, best) THEN 7 ELSE 8 |->
                   TextOfWord(w, best, i)]) \o TrailingRun(best)

inet_ntop6(w) == Joined(w, Best(w))

-----------------------------------------------------------------------------
(* inet_pton *)

Octet_LeadingZeroes(st, ch) ==  \* mutated form: a leading zero is let through
    LET last == Len(st.bytes)
        new  == st.bytes[last] * 10 + ch
    IN  IF ~st.ok THEN st
        ELSE IF ch \in 0 .. 9 THEN
            [ok     |-> new <= 255 /\ (st.saw \/ st.octets < 4),
             bytes  |-> [st.bytes EXCEPT ![last] = new],
             octets |-> IF st.saw THEN st.octets ELSE st.octets + 1,
             saw    |-> TRUE]
        ELSE
            [st EXCEPT !.ok = ch = Dot /\ st.saw /\ st.octets # 4,
                       !.bytes = Append(@, 0), !.saw = FALSE]

\* One character of inet_pton4: `saw' is saw_digit.
Octet(st, ch) ==
    LET last == Len(st.bytes)
        new  == st.bytes[last] * 10 + ch
    IN  IF ~st.ok THEN st
        ELSE IF ch \in 0 .. 9 THEN
            [ok     |-> /\ ~(st.saw /\ st.bytes[last] = 0)
                        /\ new <= 255
                        /\ st.saw \/ st.octets < 4,
             bytes  |-> [st.bytes EXCEPT ![last] = new],
             octets |-> IF st.saw THEN st.octets ELSE st.octets + 1,
             saw    |-> TRUE]
        ELSE
            [st EXCEPT !.ok = ch = Dot /\ st.saw /\ st.octets # 4,
                       !.bytes = Append(@, 0), !.saw = FALSE]

FourBytes(end) == IF end.ok /\ end.octets = 4 THEN end.bytes ELSE None

\* What is known after the first i characters of s, for each i.
OctetsRead(s) ==
    LET after[i \in 0 .. Len(s)] ==
            IF i = 0 THEN [ok |-> TRUE, bytes |-> <<0>>, octets |-> 0, saw |-> FALSE]
            ELSE Octet(after[i - 1], s[i])
    IN  after

inet_pton4(s) == FourBytes(OctetsRead(s)[Len(s)])

\* The rest of the text is dotted, and takes the places of two words.
DottedTail(st, quad) ==
    IF quad = None THEN [st EXCEPT !.ok = FALSE]
    ELSE [st EXCEPT !.words = @ \o <<quad[1] * 256 + quad[2], quad[3] * 256 + quad[4]>>,
                    !.saw = FALSE, !.over = TRUE]

\* One character of inet_pton6.  colonp is the number of words before the
\* `::', or -1; cur is where the word that is being read began; over says that
\* inet_pton4 has taken the rest of the text.
WordStep(s, st, i) ==
    LET ch == s[i]
    IN  IF ~st.ok \/ st.over THEN st
        ELSE IF ch \in 0 .. 15 THEN
            [st EXCEPT !.val = @ * 16 + ch, !.saw = TRUE, !.ok = st.val * 16 + ch <= 65535]
        ELSE IF ch = Colon /\ ~st.saw THEN
            [st EXCEPT !.cur = i + 1, !.ok = st.colonp = -1, !.colonp = Len(st.words)]
        ELSE IF ch = Colon THEN
            [st EXCEPT !.cur = i + 1, !.ok = i < Len(s) /\ Len(st.words) < 8,
                       !.words = Append(@, st.val), !.saw = FALSE, !.val = 0]
        ELSE IF ch = Dot /\ Len(st.words) <= 6 THEN
            DottedTail(st, inet_pton4(SubSeq(s, st.cur, Len(s))))
        ELSE [st EXCEPT !.ok = FALSE]

\* The zeroes go where the `::' was, which a text of fewer than 8 words needs and
\* one of 8 may not have.
Filled8(words, colonp) ==
    LET n == Len(words) IN
    IF n > 8 \/ ~(colonp = -1 <=> n = 8) THEN None
    ELSE IF n = 8 THEN words
    ELSE SubSeq(words, 1, colonp) \o [i \in 1 .. 8 - n |-> 0] \o SubSeq(words, colonp + 1, n)

EightWords(end) ==
    IF ~end.ok THEN None
    ELSE Filled8(IF end.saw THEN Append(end.words, end.val) ELSE end.words, end.colonp)

WordsRead(s) ==
    LET after[i \in 0 .. Len(s)] ==
            IF i = 0 THEN [ok |-> TRUE, words |-> <<>>, colonp |-> -1, cur |-> 1,
                           saw |-> FALSE, val |-> 0, over |-> FALSE]
            ELSE WordStep(s, after[i - 1], i)
    IN  after

ReadWords(s) == EightWords(WordsRead(s)[Len(s)])

\* A colon in front has to be the first of two.
inet_pton6(text) ==
    IF text = <<>> \/ text[1] # Colon THEN ReadWords(text)
    ELSE IF Len(text) = 1 \/ text[2] # Colon THEN None
    ELSE ReadWords(Tail(text))

-----------------------------------------------------------------------------
(* endpoint *)

VARIABLES
    af,    \* family of the endpoint, 4 or 6 (0 before it is made)
    addr,  \* its address
    text,  \* the text last written from it or read into it
    kept,  \* what the text was written from, None for a typed text
    stage  \* "blank", "filled", "written", "read"

addressVars == <<af, addr, text, kept, stage>>

Zeroes(n) == [i \in 1 .. n |-> 0]

\* The result is not looked at: without one the address stays what memset made it.
Taken(got, n) == IF got # None THEN got ELSE Zeroes(n)

Read(s) ==
    /\ IF \E i \in DOMAIN s : s[i] = Dot
         THEN af' = 4 /\ addr' = Taken(inet_pton4(s), 4)
         ELSE af' = 6 /\ addr' = Taken(inet_pton6(s), 8)
    /\ text' = s
    /\ stage' = "read"

AddressInit ==
    /\ af = 0
    /\ addr = None
    /\ text = None
    /\ kept = None
    /\ stage = "blank"

\* getsockname, getpeername, accept and recvfrom fill the endpoint in.
Filled ==
    /\ stage = "blank"
    /\ \/ af' = 4 /\ addr' \in [1 .. 4 -> Octets]
       \/ af' = 6 /\ addr' \in [1 .. 8 -> Words]
    /\ stage' = "filled"
    /\ UNCHANGED <<text, kept>>

\* to_cstring, to_string: inet_ntop chooses by the family.
ToText ==
    /\ stage = "filled"
    /\ text' = IF af = 4 THEN inet_ntop4(addr) ELSE inet_ntop6(addr)
    /\ kept' = addr
    /\ stage' = "written"
    /\ UNCHANGED <<af, addr>>

\* endpoint(const char*, port) of a text that was written from an endpoint.
FromWritten ==
    /\ stage = "written"
    /\ Read(text)
    /\ UNCHANGED kept

\* endpoint(const char*, port) of a text that somebody typed.
FromTyped ==
    /\ stage = "blank"
    /\ \E s \in Typed : Read(s)
    /\ UNCHANGED kept

AddressNext == Filled \/ ToText \/ FromWritten \/ FromTyped

AddressSpec == AddressInit /\ [][AddressNext]_addressVars

AddressTypeOK ==
    /\ af \in {0, 4, 6}
    /\ Len(addr) = (CASE af = 0 -> 0 [] af = 4 -> 4 [] af = 6 -> 8)
    /\ \A i \in DOMAIN addr : addr[i] \in 0 .. (IF af = 4 THEN 255 ELSE 65535)
    /\ stage \in {"blank", "filled", "written", "read"}

-----------------------------------------------------------------------------

\* An endpoint built from the text of another has its address, wherever the run
\* of zeroes stands that the text leaves out.  The one exception is the IPv6
\* address whose text ends in dots: the dot makes the endpoint an IPv4 one, of
\* the address 0.0.0.0 and with no error.
AddressSurvivesText ==
    stage = "read" /\ kept # None =>
        IF Len(kept) = 8 /\ Encapsulates(kept, Best(kept)) THEN af = 4 /\ addr = Zeroes(4)
        ELSE addr = kept

\* A dotted text is taken for an address only when it is the text of that
\* address: no leading zero, no fifth byte, no byte above 255, nothing left out.
DottedTextIsExact ==
    stage = "read" /\ af = 4 =>
        \/ inet_ntop4(addr) = text
        \/ addr = Zeroes(4) /\ inet_pton4(text) = None
=============================================================================
