------------------------------- MODULE Strings -------------------------------
(***************************************************************************)
(* The helpers on text of nsconv.h, and get_short_name of                  *)
(* transmission_server.cpp.  Several of them exist in more than one form:  *)
(* the properties compare the forms with one another.                      *)
(*                                                                         *)
(* A text is a sequence of signed character codes without the final zero.  *)
(***************************************************************************)
EXTENDS Integers, FiniteSets, Sequences, SequencesExt

CONSTANTS
    Texts,      \* the texts a caller passes
    Delim       \* the delimiter it passes, a character

Digit0 == 48
Backslash == 92
Slash == 47

-----------------------------------------------------------------------------
(* strtrim *)

\* The characters _Is_visible_char holds of.
Visible == 33 .. 126

\* The first place from i on whose character is one of cs, or one past the end.
FirstFrom(s, i, cs) ==
    CHOOSE j \in i .. Len(s) + 1 :
        /\ j <= Len(s) => s[j] \in cs
        /\ \A k \in i .. j - 1 : s[k] \notin cs

\* The last place whose character is one of cs, 0 if there is none: find_last_of,
\* with 0 for npos.
find_last_of(s, cs) == CHOOSE i \in 0 .. Len(s) :
    /\ i > 0 => s[i] \in cs
    /\ \A j \in i + 1 .. Len(s) : s[j] \notin cs

\* strtrim(_Elem*): the text and the count that is returned.  A text of nothing
\* but blanks leaves First = Last at the final zero, and a count of one.
strtrim(s) ==
    LET first == FirstFrom(s, 1, Visible)
        last  == IF first > Len(s) THEN first ELSE find_last_of(s, Visible)
    IN  IF s = <<>> THEN [text |-> s, count |-> 0]
        ELSE [text |-> IF first > Len(s) THEN <<>> ELSE SubSeq(s, first, last),
              count |-> last - first + 1]

\* strtrim(_Elem*, int), whose count starts as the length and loses the blanks
\* on the left, then those on the right.
strtrimN_FromStart(s) ==  \* mutated form: the end is sought from the buffer's start
    LET first == FirstFrom(s, 1, Visible)
        count == Len(s) - first + 1
        end   == CHOOSE e \in 0 .. count :
                    /\ \A i \in e + 1 .. count : s[i] \notin Visible
                    /\ e > 0 => s[e] \in Visible
    IN  [text |-> SubSeq(s, first, first + end - 1), count |-> end]

strtrimN(s) ==
    LET first == FirstFrom(s, 1, Visible)
        count == Len(s) - first + 1
        end   == CHOOSE e \in 1 .. count :
                    /\ \A i \in e + 1 .. count : s[first + i - 1] \notin Visible
                    /\ s[first + e - 1] \in Visible
    IN  IF s = <<>> THEN [text |-> s, count |-> 0]
        \* _Ptr stops on the last blank; a single one is where the text begins
        \* and stays.
        ELSE IF count = 0 THEN [text |-> IF Len(s) = 1 THEN s ELSE <<>>, count |-> 0]
        ELSE [text |-> SubSeq(s, first, first + end - 1), count |-> end]

-----------------------------------------------------------------------------
(* split *)

Piece(s, from, to) == IF from = to THEN <<>> ELSE <<SubSeq(s, from, to - 1)>>

\* By one character.
Turn(s, d, st, i) ==
    IF s[i] # d THEN st ELSE [out |-> st.out \o Piece(s, st.start, i), start |-> i + 1]

\* What was put out, and _Start, behind each character.
Scan(s, d) ==
    LET st[i \in 0 .. Len(s)] ==
            IF i = 0 THEN [out |-> <<>>, start |-> 1] ELSE Turn(s, d, st[i - 1], i)
    IN  st

splitChar(s, d) ==
    LET end == Scan(s, d)[Len(s)] IN end.out \o Piece(s, end.start, Len(s) + 1)

\* By a string, with strstr.
StartsAt(s, d, i) == i + Len(d) - 1 <= Len(s) /\ SubSeq(s, i, i + Len(d) - 1) = d

FirstMatch(s, d, start) ==
    CHOOSE j \in start .. Len(s) + 1 :
        /\ j <= Len(s) => StartsAt(s, d, j)
        /\ \A k \in start .. j - 1 : ~StartsAt(s, d, k)

splitString(s, d) ==
    LET found(start) == FirstMatch(s, d, start)
        from[start \in 1 .. Len(s) + 1] ==
            Piece(s, start, found(start)) \o
                (IF found(start) > Len(s) THEN <<>> ELSE from[found(start) + Len(d)])
    IN  from[1]

\* By any of several characters, with find_first_of.
splitAny(s, ds) ==
    LET last(start) == FirstFrom(s, start, ds)
        from[start \in 1 .. Len(s) + 1] ==
            Piece(s, start, last(start)) \o
                (IF last(start) > Len(s) THEN <<>> ELSE from[last(start) + 1])
    IN  from[1]

-----------------------------------------------------------------------------
(* get_short_name *)

\* Slashes count only when there is no backslash.
get_short_name(s) ==
    LET pos == IF find_last_of(s, {Backslash}) > 0 THEN find_last_of(s, {Backslash})
               ELSE find_last_of(s, {Slash})
    IN  SubSeq(s, pos + 1, Len(s))

-----------------------------------------------------------------------------
(* char2hex, hex2char and the two conversions *)

Lower(c) == IF c \in 65 .. 90 THEN c + 32 ELSE c

char2hex(c) == IF c \in Digit0 .. Digit0 + 9 THEN c - Digit0 ELSE Lower(c) - 97 + 10

hex2char(h) == IF h < 10 THEN h + Digit0 ELSE h + 97 - 10

Signed(b) == IF b < 128 THEN b ELSE b - 256

\* ch >> 4 of a signed char keeps its sign: \div rounds down as the shift does.
charstring2hexstring(s) ==
    FlattenSeq([i \in 1 .. Len(s) |-> <<hex2char(s[i] \div 16), hex2char(s[i] % 16)>>])

hexstring2hexbinary(s) ==
    [i \in 1 .. Len(s) \div 2 |->
        Signed(((char2hex(s[2 * i - 1]) * 16) % 256) + char2hex(s[2 * i]))]

-----------------------------------------------------------------------------

VARIABLES text, result   \* the argument, and what the calls made of it

stringVars == <<text, result>>

StringInit == text \in Texts /\ result = [call |-> "none"]

Trim ==
    /\ result' = [call |-> "trim", byPointer |-> strtrim(text), byLength |-> strtrimN(text)]
    /\ UNCHANGED text

Split ==
    /\ result' = [call |-> "split", char |-> splitChar(text, Delim),
                  string |-> splitString(text, <<Delim>>), any |-> splitAny(text, {Delim}),
                  long |-> splitString(text, <<Delim, Delim>>)]
    /\ UNCHANGED text

ShortName ==
    /\ result' = [call |-> "name", text |-> get_short_name(text)]
    /\ UNCHANGED text

Hex ==
    /\ result' = [call |-> "hex",
                  text |-> hexstring2hexbinary(charstring2hexstring(text))]
    /\ UNCHANGED text

StringNext == Trim \/ Split \/ ShortName \/ Hex

StringSpec == StringInit /\ [][StringNext]_stringVars

-----------------------------------------------------------------------------

\* The two forms of strtrim make the same text and return its length.  They part
\* on a text of blanks alone: one returns 1 for the empty text it makes, the
\* other leaves a single blank where it is and returns 0.
TrimsAgree ==
    result.call = "trim" =>
        IF \E i \in DOMAIN text : text[i] \in Visible
        THEN /\ result.byPointer = result.byLength
             /\ result.byPointer.count = Len(result.byPointer.text)
        ELSE /\ result.byPointer = [text |-> <<>>, count |-> IF text = <<>> THEN 0 ELSE 1]
             /\ result.byLength.count = 0

\* The places where a field begins: at the start or behind a delimiter.
Begins(s, d) == {i \in 1 .. Len(s) : s[i] # d /\ (i > 1 => s[i - 1] = d)}

\* The texts of out are the fields of s in their order: the i-th goes from the
\* i-th place where one begins up to the next delimiter or the end.
Fields(out, s, d) ==
    /\ Len(out) = Cardinality(Begins(s, d))
    /\ \A i \in Begins(s, d) :
           out[Cardinality({j \in Begins(s, d) : j <= i})] =
               SubSeq(s, i, FirstFrom(s, i, {d}) - 1)

\* The forms of split find the same pieces, and these are the fields of the text,
\* each as long as it can be and none of them empty; splitting by two delimiters
\* in a row first makes no difference.
SplitsAgree ==
    result.call = "split" =>
        /\ result.char = result.string /\ result.string = result.any
        /\ Fields(result.char, text, Delim)
        /\ FlattenSeq([i \in DOMAIN result.long |-> splitChar(result.long[i], Delim)])
             = result.char

\* The name the server saves a file under names no directory that the client's
\* system would see in it: it is what follows the last backslash of a path that
\* has one, and of another path what follows the last slash.
NameIsInDirectory ==
    result.call = "name" =>
        /\ \A i \in DOMAIN result.text : result.text[i] # Backslash
        /\ \/ \E i \in DOMAIN text : text[i] = Backslash
           \/ \A i \in DOMAIN result.text : result.text[i] # Slash
        /\ IsSuffix(result.text, text)

\* Hexadecimal text read back is the text it was written from, as long as no
\* character is negative: then the high digit is not a digit.
HexReturns ==
    result.call = "hex" /\ (\A i \in DOMAIN text : text[i] >= 0) => result.text = text
=============================================================================
