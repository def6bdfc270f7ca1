------------------------------ MODULE TextProofs -----------------------------
(***************************************************************************)
(* What inet_pton4 and inet_pton6 make of a text and inet_ntop4 of an       *)
(* address, for every text and every address: by induction over the        *)
(* positions of the text.                                                  *)
(***************************************************************************)
EXTENDS StringProofs

(* inet_pton4 *)

OctetStates ==
    [ok : BOOLEAN, bytes : Seq(Nat) \ {<<>>}, octets : Nat, saw : BOOLEAN]

FirstOctet == [ok |-> TRUE, bytes |-> <<0>>, octets |-> 0, saw |-> FALSE]

LEMMA OctetTyped ==
    ASSUME NEW st \in OctetStates, NEW ch PROVE Address!Octet(st, ch) \in OctetStates
<1> DEFINE last == Len(st.bytes)
           new  == st.bytes[last] * 10 + ch
<1>1. last \in 1 .. Len(st.bytes) /\ st.bytes \in Seq(Nat) /\ st.bytes[last] \in Nat
  BY DEF OctetStates
<1>2. CASE ~st.ok
  BY <1>2 DEF Address!Octet
<1>3. CASE st.ok /\ ch \in 0 .. 9
  <2>1. new \in Nat
    BY <1>1, <1>3
  <2>2. [st.bytes EXCEPT ![last] = new] \in Seq(Nat) \ {<<>>}
    BY <1>1, <2>1, ExceptSeq
  <2> QED
    BY <1>3, <2>1, <2>2 DEF Address!Octet, OctetStates
<1>4. CASE st.ok /\ ch \notin 0 .. 9
  <2>1. Append(st.bytes, 0) \in Seq(Nat) \ {<<>>}
    BY <1>1
  <2> QED
    BY <1>4, <2>1 DEF Address!Octet, OctetStates
<1> QED
  BY <1>2, <1>3, <1>4

\* The recursion defines what it says.
LEMMA OctetsUnfold ==
    ASSUME NEW s, Len(s) \in Nat
    PROVE  /\ Address!OctetsRead(s) \in [0 .. Len(s) -> OctetStates]
           /\ Address!OctetsRead(s)[0] = FirstOctet
           /\ \A i \in 1 .. Len(s) :
                 Address!OctetsRead(s)[i] = Address!Octet(Address!OctetsRead(s)[i - 1], s[i])
<1> DEFINE n == Len(s)
           Step == [p \in OctetStates \X (1 .. n) |-> Address!Octet(p[1], s[p[2]])]
<1>1. FirstOctet \in OctetStates /\ n \in Nat
  BY DEF FirstOctet, OctetStates
<1>2. Step \in [OctetStates \X (1 .. n) -> OctetStates]
  BY OctetTyped
<1>3. PICK f : IsRun(f, OctetStates, FirstOctet, n, Step)
  <2> HIDE DEF Step, n
  <2> QED
    BY <1>1, <1>2, Runs
<1>4. ASSUME NEW i \in 1 .. n PROVE f[i] = Address!Octet(f[i - 1], s[i])
  <2>1. <<f[i - 1], i>> \in OctetStates \X (1 .. n)
    BY <1>1, <1>3 DEF IsRun
  <2>2. Step[<<f[i - 1], i>>] = Address!Octet(f[i - 1], s[i])
    BY <2>1
  <2> HIDE DEF Step
  <2> QED
    BY <1>3, <2>2 DEF IsRun
<1> DEFINE F(g) == [i \in 0 .. Len(s) |->
              IF i = 0 THEN FirstOctet ELSE Address!Octet(g[i - 1], s[i])]
<1>5. f = F(f)
  BY <1>3, <1>4 DEF IsRun
<1>6. Address!OctetsRead(s) = CHOOSE g : g = F(g)
  BY DEF Address!OctetsRead, FirstOctet
<1>7. Address!OctetsRead(s) = F(Address!OctetsRead(s))
  <2> HIDE DEF F
  <2> QED
    BY <1>5, <1>6
<1> DEFINE S == {i \in 0 .. n : Address!OctetsRead(s)[i] \in OctetStates}
<1>8. Address!OctetsRead(s)[0] = FirstOctet
        /\ \A i \in 1 .. n :
              Address!OctetsRead(s)[i] = Address!Octet(Address!OctetsRead(s)[i - 1], s[i])
  BY <1>1, <1>7
<1>9. 0 .. n \subseteq S
  <2>1. 0 \in S
    BY <1>1, <1>8
  <2>2. ASSUME NEW i \in 0 .. n - 1, i \in S PROVE i + 1 \in S
    BY <1>1, <1>8, <2>2, OctetTyped
  <2> HIDE DEF S
  <2> QED
    BY <1>1, <2>1, <2>2, UpTo
<1> QED
  BY <1>7, <1>8, <1>9

-----------------------------------------------------------------------------
(* inet_pton4 reads what inet_ntop4 writes, and nothing else *)

Chars == 0 .. Address!Other

Dec(v) == Address!Digits(v, 10)

LEMMA Tuple1 == ASSUME NEW f, f = [i \in 1 .. 1 |-> f[i]] PROVE f = <<f[1]>>
  OBVIOUS

LEMMA Tuple2 == ASSUME NEW f, f = [i \in 1 .. 2 |-> f[i]] PROVE f = <<f[1], f[2]>>
  OBVIOUS

LEMMA Tuple3 == ASSUME NEW f, f = [i \in 1 .. 3 |-> f[i]] PROVE f = <<f[1], f[2], f[3]>>
  OBVIOUS

LEMMA Tuple4 ==
    ASSUME NEW f, f = [i \in 1 .. 4 |-> f[i]] PROVE f = <<f[1], f[2], f[3], f[4]>>
  OBVIOUS

LEMMA DecimalDigits ==
    ASSUME NEW v \in Nat, v < 256
    PROVE  /\ v < 10 => Dec(v) = <<v>>
           /\ v >= 10 /\ v < 100 => Dec(v) = <<v \div 10, v % 10>>
           /\ v >= 100 => Dec(v) = <<v \div 100, (v \div 10) % 10, v % 10>>
<1> DEFINE place == <<1, 10, 100, 1000>>
           Fits(k) == (k < 4 => v < place[k + 1]) /\ (k > 1 => v >= place[k])
           n == CHOOSE k \in 1 .. 4 : Fits(k)
           F(k) == [i \in 1 .. k |-> (v \div place[k - i + 1]) % 10]
<1>1. Dec(v) = F(n)
  BY DEF Dec, Address!Digits
<1>2. CASE v < 10
  <2>1. n = 1
    BY <1>2
  <2>2. F(1) = <<v>>
    <3>1. F(1)[1] = v
      BY <1>2
    <3>2. F(1) = [i \in 1 .. 1 |-> F(1)[i]]
      OBVIOUS
    <3> QED
      BY <3>1, <3>2, Tuple1
  <2> HIDE DEF n, F
  <2> QED
    BY <1>1, <1>2, <2>1, <2>2
<1>3. CASE v >= 10 /\ v < 100
  <2>1. n = 2
    BY <1>3
  <2>2. F(2) = <<v \div 10, v % 10>>
    <3>1. F(2)[1] = v \div 10 /\ F(2)[2] = v % 10
      BY <1>3
    <3>2. F(2) = [i \in 1 .. 2 |-> F(2)[i]]
      OBVIOUS
    <3> HIDE DEF F
    <3> QED
      BY <3>1, <3>2, Tuple2
  <2> HIDE DEF n, F
  <2> QED
    BY <1>1, <1>3, <2>1, <2>2
<1>4. CASE v >= 100
  <2>1. n = 3
    BY <1>4
  <2>2. F(3) = <<v \div 100, (v \div 10) % 10, v % 10>>
    <3>1. F(3)[1] = v \div 100 /\ F(3)[2] = (v \div 10) % 10 /\ F(3)[3] = v % 10
      BY <1>4
    <3>2. F(3) = [i \in 1 .. 3 |-> F(3)[i]]
      OBVIOUS
    <3> HIDE DEF F
    <3> QED
      BY <3>1, <3>2, Tuple3
  <2> HIDE DEF n, F
  <2> QED
    BY <1>1, <1>4, <2>1, <2>2
<1> QED
  BY <1>2, <1>3, <1>4

\* The bytes but the last, as they stand in front of what is read of that.
Before(b) ==
    IF Len(b) = 1 THEN <<>>
    ELSE IF Len(b) = 2 THEN Dec(b[1]) \o <<Address!Dot>>
    ELSE IF Len(b) = 3 THEN Dec(b[1]) \o <<Address!Dot>> \o Dec(b[2]) \o <<Address!Dot>>
    ELSE Dec(b[1]) \o <<Address!Dot>> \o Dec(b[2]) \o <<Address!Dot>> \o
         Dec(b[3]) \o <<Address!Dot>>

OctetValues == 0 .. 255

LEMMA OctetIsNat == \A v : v \in OctetValues <=> v \in Nat /\ v < 256
  BY DEF OctetValues

\* The state behind the text p, which is then the text of the bytes so far.
Spells(st, p) ==
    LET last == st.bytes[Len(st.bytes)] IN
    /\ st.bytes \in Seq(OctetValues)
    /\ Len(st.bytes) > 0 /\ Len(st.bytes) < 5
    /\ Len(st.bytes) = st.octets + (IF st.saw THEN 0 ELSE 1)
    /\ p = IF st.saw THEN Before(st.bytes) \o Dec(last) ELSE Before(st.bytes)
    /\ ~st.saw => last = 0

LEMMA DecTyped ==
    ASSUME NEW v \in OctetValues PROVE Dec(v) \in Seq(Chars) /\ Len(Dec(v)) \in 1 .. 3
<1>0. v \in Nat /\ v < 256
  BY DEF OctetValues
<1>1. CASE v < 10
  <2>1. Dec(v) = <<v>>
    BY <1>0, <1>1, DecimalDigits
  <2>2. v \in Chars
    BY <1>0, <1>1 DEF Chars, Address!Other
  <2> QED
    BY <2>1, <2>2
<1>2. CASE v >= 10 /\ v < 100
  <2>1. Dec(v) = <<v \div 10, v % 10>>
    BY <1>0, <1>2, DecimalDigits
  <2>2. v \div 10 \in Chars /\ v % 10 \in Chars
    BY <1>0, <1>2 DEF Chars, Address!Other
  <2> QED
    BY <2>1, <2>2
<1>3. CASE v >= 100
  <2>1. Dec(v) = <<v \div 100, (v \div 10) % 10, v % 10>>
    BY <1>0, <1>3, DecimalDigits
  <2>2. v \div 100 \in Chars /\ (v \div 10) % 10 \in Chars /\ v % 10 \in Chars
    BY <1>0, <1>3 DEF Chars, Address!Other
  <2> QED
    BY <2>1, <2>2
<1> QED
  BY <1>0, <1>1, <1>2, <1>3

LEMMA DecGrows ==
    ASSUME NEW v \in Nat \ {0}, NEW c \in Nat, c < 10, v * 10 + c < 256
    PROVE  Dec(v * 10 + c) = Append(Dec(v), c)
<1> DEFINE w == v * 10 + c
<1>1. w \in Nat /\ w < 256 /\ w >= 10 /\ w \div 10 = v /\ w % 10 = c /\ v <= 25
  OBVIOUS
<1>2. CASE v < 10
  <2>1. Dec(v) = <<v>>
    BY <1>2, DecimalDigits
  <2>2. Dec(w) = <<v, c>>
    BY <1>1, <1>2, DecimalDigits
  <2> QED
    BY <2>1, <2>2
<1>3. CASE v >= 10
  <2>1. Dec(v) = <<v \div 10, v % 10>>
    BY <1>1, <1>3, DecimalDigits
  <2>2. w \div 100 = v \div 10
    BY <1>1
  <2>3. Dec(w) = <<w \div 100, v % 10, c>>
    BY <1>1, <1>3, DecimalDigits
  <2> QED
    BY <2>1, <2>2, <2>3
<1> QED
  BY <1>2, <1>3

LEMMA FewCases ==
    ASSUME NEW n \in Nat, n > 0, n < 5 PROVE n = 1 \/ n = 2 \/ n = 3 \/ n = 4
  OBVIOUS

LEMMA BeforeTyped ==
    ASSUME NEW b \in Seq(OctetValues), Len(b) > 0, Len(b) < 5 PROVE Before(b) \in Seq(Chars)
<1> DEFINE dot == <<Address!Dot>>
           one == Dec(b[1]) \o dot
           two == one \o Dec(b[2]) \o dot
           three == two \o Dec(b[3]) \o dot
<1>1. dot \in Seq(Chars) /\ <<>> \in Seq(Chars)
  BY DEF Chars, Address!Dot, Address!Other
<1>2. \A i \in 1 .. Len(b) : Dec(b[i]) \in Seq(Chars)
  BY DecTyped
<1>3. CASE Len(b) = 1
  BY <1>1, <1>3 DEF Before
<1>4. CASE Len(b) = 2
  <2>1. Before(b) = one
    BY <1>4 DEF Before
  <2> QED
    BY <1>1, <1>2, <1>4, <2>1, ConcatProperties
<1>5. CASE Len(b) = 3
  <2>1. Before(b) = two
    BY <1>5 DEF Before
  <2>2. one \in Seq(Chars)
    BY <1>1, <1>2, <1>5, ConcatProperties
  <2> HIDE DEF one
  <2> QED
    BY <1>1, <1>2, <1>5, <2>1, <2>2, ConcatProperties
<1>6. CASE Len(b) = 4
  <2>1. Before(b) = three
    BY <1>6 DEF Before
  <2>2. one \in Seq(Chars)
    BY <1>1, <1>2, <1>6, ConcatProperties
  <2> HIDE DEF one
  <2>3. two \in Seq(Chars)
    BY <1>1, <1>2, <1>6, <2>2, ConcatProperties
  <2> HIDE DEF two
  <2> QED
    BY <1>1, <1>2, <1>6, <2>1, <2>3, ConcatProperties
<1> DEFINE n == Len(b)
<1>7. n \in Nat /\ n > 0 /\ n < 5
  BY LenProperties
<1>8. n = 1 \/ n = 2 \/ n = 3 \/ n = 4
  <2> HIDE DEF n
  <2> QED
    BY <1>7, FewCases
<1> QED
  BY <1>3, <1>4, <1>5, <1>6, <1>8

LEMMA BeforeIgnoresLast ==
    ASSUME NEW b \in Seq(OctetValues), Len(b) > 0, Len(b) < 5, NEW x \in OctetValues
    PROVE  Before([b EXCEPT ![Len(b)] = x]) = Before(b)
<1> DEFINE c == [b EXCEPT ![Len(b)] = x]
<1>1. Len(c) = Len(b) /\ \A i \in 1 .. Len(b) - 1 : c[i] = b[i]
  BY ExceptSeq
<1> HIDE DEF c
<1> QED
  BY <1>1 DEF Before

LEMMA BeforeNext ==
    ASSUME NEW b \in Seq(OctetValues), Len(b) > 0, Len(b) < 4
    PROVE  Before(Append(b, 0)) = Before(b) \o Dec(b[Len(b)]) \o <<Address!Dot>>
<1> DEFINE c == Append(b, 0)
<1>1. Len(c) = Len(b) + 1 /\ \A i \in 1 .. Len(b) : c[i] = b[i]
  BY AppendProperties
<1>2. CASE Len(b) = 1
  <2>1. <<>> \o Dec(b[1]) = Dec(b[1])
    BY <1>2, DecTyped, ConcatEmptySeq
  <2>2. Before(b) = <<>> /\ Before(c) = Dec(c[1]) \o <<Address!Dot>>
    BY <1>1, <1>2 DEF Before
  <2> QED
    BY <1>1, <1>2, <2>1, <2>2
<1>3. CASE Len(b) = 2
  <2>1. /\ Before(b) = Dec(b[1]) \o <<Address!Dot>>
        /\ Before(c) = Dec(c[1]) \o <<Address!Dot>> \o Dec(c[2]) \o <<Address!Dot>>
    BY <1>1, <1>3 DEF Before
  <2>2. c[1] = b[1] /\ c[2] = b[2]
    BY <1>1, <1>3
  <2> QED
    BY <1>3, <2>1, <2>2
<1>4. CASE Len(b) = 3
  <2>0. Len(c) = 4
    BY <1>1, <1>4
  <2>1. /\ Before(b) = Dec(b[1]) \o <<Address!Dot>> \o Dec(b[2]) \o <<Address!Dot>>
        /\ Before(c) = Dec(c[1]) \o <<Address!Dot>> \o Dec(c[2]) \o <<Address!Dot>> \o
                       Dec(c[3]) \o <<Address!Dot>>
    <3> HIDE DEF c
    <3> QED
      BY <1>4, <2>0 DEF Before
  <2>2. c[1] = b[1] /\ c[2] = b[2] /\ c[3] = b[3]
    BY <1>1, <1>4
  <2> QED
    BY <1>4, <2>1, <2>2
<1> DEFINE n == Len(b)
<1>7. n \in Nat /\ n > 0 /\ n < 4
  BY LenProperties
<1>8. n = 1 \/ n = 2 \/ n = 3
  <2> HIDE DEF n
  <2> QED
    BY <1>7
<1> QED
  BY <1>2, <1>3, <1>4, <1>8

LEMMA OctetSpells ==
    ASSUME NEW st \in OctetStates, NEW p \in Seq(Chars), NEW ch \in Chars,
           st.ok => Spells(st, p), Address!Octet(st, ch).ok
    PROVE  Spells(Address!Octet(st, ch), Append(p, ch))
<1> DEFINE b == st.bytes
           last == b[Len(b)]
           new == last * 10 + ch
           next == Address!Octet(st, ch)
<1>1. st.ok /\ Spells(st, p)
  BY DEF Address!Octet, OctetStates
<1>2. b \in Seq(OctetValues) /\ Len(b) > 0 /\ Len(b) < 5 /\ last \in OctetValues
  BY <1>1 DEF Spells, OctetStates
<1>7. st.saw \in BOOLEAN /\ st.octets \in Nat
        /\ Len(b) = st.octets + (IF st.saw THEN 0 ELSE 1)
  BY <1>1 DEF Spells, OctetStates
<1>0. last \in Nat /\ last < 256
  BY <1>2, OctetIsNat
<1>3. Before(b) \in Seq(Chars) /\ Dec(last) \in Seq(Chars)
  BY <1>2, BeforeTyped, DecTyped
<1>4. Append(p, ch) = p \o <<ch>>
  BY AppendIsConcat
<1>5. CASE ch \in 0 .. 9
  <2>1. next.bytes = [b EXCEPT ![Len(b)] = new] /\ next.saw /\ new <= 255
          /\ ~(st.saw /\ last = 0) /\ (st.saw \/ st.octets < 4)
          /\ next.octets = IF st.saw THEN st.octets ELSE st.octets + 1
    BY <1>1, <1>5 DEF Address!Octet
  <2>2. new \in OctetValues
    <3>1. new \in Nat /\ new < 256
      <4> HIDE DEF last
      <4> QED
        BY <1>0, <1>5, <2>1
    <3> QED
      BY <3>1, OctetIsNat
  <2>3. next.bytes \in Seq(OctetValues) /\ Len(next.bytes) = Len(b) /\ next.bytes[Len(b)] = new
          /\ Before(next.bytes) = Before(b)
    <3> HIDE DEF new, next, last
    <3> HIDE DEF b
    <3>1. Len(b) \in 1 .. Len(b)
      BY <1>2, LenProperties
    <3> QED
      BY <1>2, <2>1, <2>2, <3>1, ExceptSeq, BeforeIgnoresLast
  <2>4. Len(next.bytes) = next.octets
    BY <1>2, <1>7, <2>1, <2>3
  <2>5. Append(p, ch) = Before(b) \o Dec(new)
    <3>1. CASE ~st.saw
      <4>1. last = 0 /\ p = Before(b)
        BY <1>1, <3>1 DEF Spells
      <4>2. new = ch /\ ch \in Nat /\ ch < 10
        BY <1>5, <4>1
      <4>3. Dec(ch) = <<ch>>
        BY SMTT(30), <4>2, DecimalDigits
      <4> QED
        BY <1>4, <4>1, <4>2, <4>3
    <3>2. CASE st.saw
      <4>1. last # 0 /\ p = Before(b) \o Dec(last)
        BY <1>1, <2>1, <3>2 DEF Spells
      <4>2. last \in Nat \ {0} /\ ch \in Nat /\ ch < 10 /\ last * 10 + ch < 256
        BY SMTT(30), <1>0, <1>5, <2>1, <4>1
      <4>3. Dec(new) = Append(Dec(last), ch)
        BY <4>2, DecGrows
      <4>4. Append(Dec(last), ch) = Dec(last) \o <<ch>>
        BY <1>3, AppendIsConcat
      <4>5. (Before(b) \o Dec(last)) \o <<ch>> = Before(b) \o (Dec(last) \o <<ch>>)
        <5>1. <<ch>> \in Seq(Chars)
          OBVIOUS
        <5> QED
          BY <1>3, <5>1, ConcatAssociative
      <4> QED
        BY <1>4, <4>1, <4>3, <4>4, <4>5
    <3> QED
      BY <1>7, <3>1, <3>2
  <2> HIDE DEF next, new, last, b
  <2>6. Spells(next, Append(p, ch))
    <3> DEFINE c == next.bytes
    <3>1. c \in Seq(OctetValues) /\ Len(c) > 0 /\ Len(c) < 5 /\ c[Len(c)] = new
      BY <1>2, <2>3
    <3>2. Len(c) = next.octets + (IF next.saw THEN 0 ELSE 1)
      BY <1>7, <2>1, <2>4
    <3>3. Append(p, ch) = Before(c) \o Dec(c[Len(c)])
      BY <2>3, <2>5
    <3> QED
      BY <2>1, <3>1, <3>2, <3>3 DEF Spells
  <2> QED
    BY <2>6 DEF next
<1>6. CASE ch \notin 0 .. 9
  <2>1. ch = Address!Dot /\ st.saw /\ st.octets # 4
          /\ next.bytes = Append(b, 0) /\ ~next.saw /\ next.octets = st.octets
    BY <1>1, <1>6 DEF Address!Octet, OctetStates
  <2>2. Len(b) > 0 /\ Len(b) < 4 /\ Len(b) = st.octets
    BY <1>2, <1>7, <2>1
  <2>3. next.bytes \in Seq(OctetValues) /\ Len(next.bytes) = Len(b) + 1
          /\ next.bytes[Len(b) + 1] = 0
    <3>1. 0 \in OctetValues
      BY DEF OctetValues
    <3> QED
      BY <1>2, <2>1, <3>1, AppendProperties
  <2>4. Append(p, ch) = Before(next.bytes)
    <3>1. p = Before(b) \o Dec(last)
      BY <1>1, <2>1 DEF Spells
    <3> QED
      BY <1>2, <1>4, <2>1, <2>2, <3>1, BeforeNext
  <2> HIDE DEF next, new, last, b
  <2>5. Spells(next, Append(p, ch))
    BY <2>1, <2>2, <2>3, <2>4 DEF Spells
  <2> QED
    BY <2>5 DEF next
<1> QED
  BY <1>5, <1>6

\* What inet_pton4 takes is the text of what it makes of it.
LEMMA OctetsExact ==
    ASSUME NEW s \in Seq(Chars), Address!inet_pton4(s) # Address!None
    PROVE  /\ Address!inet_pton4(s) \in Seq(OctetValues)
           /\ Len(Address!inet_pton4(s)) = 4
           /\ Address!inet_ntop4(Address!inet_pton4(s)) = s
<1> DEFINE O == Address!OctetsRead(s)
           n == Len(s)
           Front(i) == SubSeq(s, 1, i)
           S == {i \in 0 .. n : O[i].ok => Spells(O[i], Front(i))}
<1>1. n \in Nat
  BY LenProperties
<1>2. /\ O \in [0 .. n -> OctetStates]
      /\ O[0] = FirstOctet
      /\ \A i \in 1 .. n : O[i] = Address!Octet(O[i - 1], s[i])
  BY <1>1, OctetsUnfold
<1> HIDE DEF O, n
<1>3. 0 \in S
  <2>1. SubSeq(s, 1, 0) = <<>> /\ Before(<<0>>) = <<>>
    BY SubSeqEmpty DEF Before
  <2>2. <<0>> \in Seq(OctetValues)
    BY OctetIsNat
  <2>3. Spells(FirstOctet, <<>>)
    BY <2>1, <2>2 DEF Spells, FirstOctet
  <2>4. Front(0) = <<>>
    BY <2>1
  <2> HIDE DEF Front
  <2> QED
    BY <1>1, <1>2, <2>3, <2>4
<1>4. ASSUME NEW i \in 0 .. n - 1, i \in S PROVE i + 1 \in S
  <2> DEFINE p == Front(i)
  <2>1. SubSeq(s, 1, i + 1) = Append(p, s[i + 1]) /\ p \in Seq(Chars) /\ s[i + 1] \in Chars
    <3>1. \A j \in 1 .. n : s[j] \in Chars
      BY ElementOfSeq DEF n
    <3>2. p \in Seq(Chars) /\ s[i + 1] \in Chars
      BY <1>1, <3>1, SubSeqProperties
    <3>3. SubSeq(s, 1, i + 1) = SubSeq(s, 1, i + 1 - 1) \o <<s[i + 1]>>
      BY <1>1, SubSeqRecursiveSecond DEF n
    <3>4. i + 1 - 1 = i
      BY <1>1
    <3>5. p \o <<s[i + 1]>> = Append(p, s[i + 1])
      <4> HIDE DEF p
      <4> QED
        BY <3>2, AppendIsConcat
    <3>6. SubSeq(s, 1, i + 1) = p \o <<s[i + 1]>>
      BY <3>3, <3>4
    <3> HIDE DEF p
    <3> QED
      BY <3>2, <3>5, <3>6
  <2>2. O[i] \in OctetStates /\ O[i + 1] = Address!Octet(O[i], s[i + 1])
    <3>1. i + 1 \in 1 .. n /\ i \in 0 .. n /\ i + 1 - 1 = i
      BY <1>1
    <3> QED
      BY <1>2, <3>1
  <2>3. O[i].ok => Spells(O[i], p)
    BY <1>4
  <2>5. Front(i + 1) = Append(p, s[i + 1])
    BY <2>1
  <2> HIDE DEF p, Front
  <2>4. O[i + 1].ok => Spells(O[i + 1], Append(p, s[i + 1]))
    BY <2>1, <2>2, <2>3, OctetSpells
  <2>6. i + 1 \in 0 .. n
    BY <1>1
  <2> QED
    BY <2>4, <2>5, <2>6
<1>5. n \in S
  <2> HIDE DEF S, Front
  <2>1. 0 .. n \subseteq S
    BY <1>1, <1>3, <1>4, UpTo
  <2> QED
    BY <1>1, <2>1
<1> DEFINE st == O[n]
           b == st.bytes
<1>6. st.ok /\ st.octets = 4 /\ Address!inet_pton4(s) = b
  BY DEF Address!inet_pton4, Address!FourBytes, O, n
<1>7. Spells(st, s) /\ st \in OctetStates
  <2>1. SubSeq(s, 1, n) = s
    BY SubSeqFull DEF n
  <2>2. n \in 0 .. n /\ O[n] \in OctetStates
    BY <1>1, <1>2
  <2> QED
    BY <1>5, <1>6, <2>1, <2>2
<1> HIDE DEF st
<1>8. st.saw /\ b \in Seq(OctetValues) /\ Len(b) = 4 /\ s = Before(b) \o Dec(b[Len(b)])
  BY <1>6, <1>7 DEF Spells, OctetStates
<1>9. Before(b) \o Dec(b[4]) = Address!inet_ntop4(b)
  <2> HIDE DEF b
  <2>1. Before(b) = Dec(b[1]) \o <<Address!Dot>> \o Dec(b[2]) \o <<Address!Dot>> \o
                    Dec(b[3]) \o <<Address!Dot>>
    BY <1>8 DEF Before
  <2> QED
    BY <2>1 DEF Address!inet_ntop4, Dec
<1> HIDE DEF b
<1> QED
  BY <1>6, <1>8, <1>9

\* The text s begins with p.
Starts(s, p) == Len(p) <= Len(s) /\ \A i \in 1 .. Len(p) : s[i] = p[i]

LEMMA StartsFront ==
    ASSUME NEW s \in Seq(Chars), NEW p \in Seq(Chars), NEW q \in Seq(Chars), Starts(s, p \o q)
    PROVE  Starts(s, p)
<1>1. Len(p) \in Nat /\ Len(q) \in Nat /\ Len(s) \in Nat
  BY LenProperties
<1>2. Len(p \o q) = Len(p) + Len(q) /\ \A i \in 1 .. Len(p) + Len(q) : (p \o q)[i] =
         IF i <= Len(p) THEN p[i] ELSE q[i - Len(p)]
  BY ConcatProperties
<1> DEFINE r == p \o q
<1> HIDE DEF r
<1>3. Len(r) <= Len(s) /\ \A i \in 1 .. Len(r) : s[i] = r[i]
  BY DEF Starts, r
<1>4. Len(r) = Len(p) + Len(q) /\ \A i \in 1 .. Len(p) : r[i] = p[i]
  BY <1>1, <1>2 DEF r
<1> QED
  BY <1>1, <1>3, <1>4 DEF Starts

\* The text q is p and one more character.
Longer(q, p, c) == p \in Seq(Chars) /\ c \in Chars /\ q = p \o <<c>>

LEMMA Longest ==
    ASSUME NEW s \in Seq(Chars), NEW p, NEW q, NEW c, Longer(q, p, c), Starts(s, q)
    PROVE  q \in Seq(Chars) /\ Starts(s, p)
<1>1. <<c>> \in Seq(Chars) /\ p \in Seq(Chars) /\ q = p \o <<c>>
  BY DEF Longer
<1> DEFINE d == <<c>>
<1> HIDE DEF d
<1>2. d \in Seq(Chars) /\ q = p \o d
  BY <1>1 DEF d
<1> QED
  BY <1>1, <1>2, ConcatProperties, StartsFront

\* What inet_pton4 knows once it is through p.
Behind(s, p) == Address!OctetsRead(s)[Len(p)]

LEMMA NextOctet ==
    ASSUME NEW s \in Seq(Chars), NEW p, NEW r, NEW c, Longer(r, p, c), Starts(s, r)
    PROVE  Behind(s, r) = Address!Octet(Behind(s, p), c)
<1> DEFINE n == Len(p)
<1>1. n \in Nat /\ Len(s) \in Nat /\ p \in Seq(Chars) /\ c \in Chars
  BY LenProperties DEF Longer
<1>3. Len(r) = n + 1 /\ r[n + 1] = c
  <2>1. r = Append(p, c)
    BY <1>1, AppendIsConcat DEF Longer
  <2> QED
    BY <1>1, <2>1, AppendProperties
<1> HIDE DEF n
<1>4. n + 1 \in 1 .. Len(s) /\ s[n + 1] = c /\ n \in Nat
  <2>1. Len(r) <= Len(s) /\ \A i \in 1 .. Len(r) : s[i] = r[i]
    BY DEF Starts
  <2> QED
    BY <1>1, <1>3, <2>1 DEF n
<1>5. Address!OctetsRead(s)[n + 1] = Address!Octet(Address!OctetsRead(s)[n + 1 - 1], s[n + 1])
  BY <1>1, <1>4, OctetsUnfold
<1>6. n + 1 - 1 = n
  BY <1>4
<1> QED
  BY <1>3, <1>4, <1>5, <1>6 DEF Behind, n

\* The state behind the text of the bytes b, the last of which is being read.
Reading(b, saw) ==
    [ok |-> TRUE, bytes |-> b, octets |-> IF saw THEN Len(b) ELSE Len(b) - 1, saw |-> saw]

LEMMA ReadsDigit ==
    ASSUME NEW b \in Seq(OctetValues), Len(b) < 4, NEW v \in Nat, NEW c \in Nat, c < 10,
           v * 10 + c < 256, NEW saw \in BOOLEAN, saw <=> v # 0
    PROVE  Address!Octet(Reading(Append(b, v), saw), c) = Reading(Append(b, v * 10 + c), TRUE)
<1> DEFINE w == v * 10 + c
           d == Append(b, v)
           e == Append(b, w)
           st == Reading(d, saw)
           n == Len(b)
<1>0. n \in Nat /\ n < 4
  BY LenProperties
<1>1. v \in OctetValues /\ w \in OctetValues /\ c \in 0 .. 9 /\ w <= 255
  BY OctetIsNat
<1>2. /\ d \in Seq(OctetValues) /\ Len(d) = n + 1 /\ d[n + 1] = v
      /\ \A i \in 1 .. n : d[i] = b[i]
  BY <1>1, AppendProperties
<1>3. /\ e \in Seq(OctetValues) /\ Len(e) = n + 1 /\ e[n + 1] = w
      /\ \A i \in 1 .. n : e[i] = b[i]
  BY <1>1, AppendProperties
<1> HIDE DEF d, e, n, w
<1>4. [d EXCEPT ![n + 1] = w] = e
  <2> DEFINE x == [d EXCEPT ![n + 1] = w]
  <2>1. n + 1 \in 1 .. Len(d)
    BY <1>0, <1>2
  <2>2. x \in Seq(OctetValues) /\ Len(x) = Len(d)
          /\ \A j \in 1 .. Len(d) : x[j] = IF j = n + 1 THEN w ELSE d[j]
    BY <1>1, <1>2, <2>1, ExceptSeq
  <2> HIDE DEF x
  <2>3. Len(x) = Len(e) /\ \A j \in 1 .. Len(x) : x[j] = e[j]
    BY <1>0, <1>2, <1>3, <2>2
  <2>4. x = e
    BY <1>3, <2>2, <2>3, SeqEqual
  <2> QED
    BY <2>4 DEF x
<1>5. st.ok /\ st.bytes = d /\ st.saw = saw /\ st.octets = (IF saw THEN n + 1 ELSE n)
  BY <1>0, <1>2 DEF Reading
<1> HIDE DEF st
<1>6. st.bytes[Len(st.bytes)] = v /\ Len(st.bytes) = n + 1
  BY <1>2, <1>5
<1>7. st.bytes[Len(st.bytes)] * 10 + c = w
  BY <1>6 DEF w
<1>8. Address!Octet(st, c) =
        [ok |-> ~(saw /\ v = 0) /\ w <= 255 /\ (saw \/ st.octets < 4),
         bytes |-> e, octets |-> IF saw THEN st.octets ELSE st.octets + 1, saw |-> TRUE]
  BY <1>1, <1>4, <1>5, <1>6, <1>7 DEF Address!Octet
<1>9. ~(saw /\ v = 0) /\ w <= 255 /\ (saw \/ st.octets < 4)
  BY <1>0, <1>1, <1>5
<1>10. (IF saw THEN st.octets ELSE st.octets + 1) = n + 1
  BY <1>0, <1>5
<1>11. Address!Octet(st, c) = [ok |-> TRUE, bytes |-> e, octets |-> n + 1, saw |-> TRUE]
  BY <1>8, <1>9, <1>10
<1> QED
  BY <1>3, <1>11 DEF Reading, st, d, e, w

\* Before the digits of the number behind the bytes b, and after some of them.
Short(b) == b \in Seq(OctetValues) /\ Len(b) < 4
Waiting(b) == Reading(Append(b, 0), FALSE)
Got(b, v) == Reading(Append(b, v), TRUE)

LEMMA FirstDigit ==
    ASSUME NEW s \in Seq(Chars), NEW p, NEW q, NEW b, NEW c \in Nat, c < 10, Short(b),
           Longer(q, p, c), Starts(s, q), Behind(s, p) = Waiting(b)
    PROVE  Behind(s, q) = Got(b, c)
<1>1. Behind(s, q) = Address!Octet(Behind(s, p), c)
  BY NextOctet
<1>2. 0 * 10 + c = c /\ 0 * 10 + c < 256
  OBVIOUS
<1>3. Address!Octet(Reading(Append(b, 0), FALSE), c) = Reading(Append(b, 0 * 10 + c), TRUE)
  BY <1>2, ReadsDigit DEF Short
<1> QED
  BY <1>1, <1>2, <1>3 DEF Waiting, Got

LEMMA NextDigit ==
    ASSUME NEW s \in Seq(Chars), NEW p, NEW q, NEW b, NEW c \in Nat, c < 10, Short(b),
           NEW v \in Nat \ {0}, NEW w, w = v * 10 + c, w < 256,
           Longer(q, p, c), Starts(s, q), Behind(s, p) = Got(b, v)
    PROVE  Behind(s, q) = Got(b, w)
<1>1. Behind(s, q) = Address!Octet(Behind(s, p), c)
  BY NextOctet
<1>3. Address!Octet(Reading(Append(b, v), TRUE), c) = Reading(Append(b, v * 10 + c), TRUE)
  BY ReadsDigit DEF Short
<1> QED
  BY <1>1, <1>3 DEF Got

LEMMA CatText ==
    ASSUME NEW p \in Seq(Chars), NEW q \in Seq(Chars) PROVE Cat(p, q) \in Seq(Chars)
BY ConcatProperties DEF Cat

LEMMA CatCat ==
    ASSUME NEW p \in Seq(Chars), NEW q \in Seq(Chars), NEW r \in Seq(Chars)
    PROVE  Cat(p, Cat(q, r)) = Cat(Cat(p, q), r)
BY SMTT(30), ConcatAssociative DEF Cat

LEMMA CatStarts ==
    ASSUME NEW s \in Seq(Chars), NEW p \in Seq(Chars), NEW q \in Seq(Chars), Starts(s, Cat(p, q))
    PROVE  Starts(s, p)
BY StartsFront DEF Cat

LEMMA OneText ==
    ASSUME NEW p \in Seq(Chars), NEW c \in Chars
    PROVE  <<c>> \in Seq(Chars) /\ Longer(Cat(p, <<c>>), p, c) /\ Append(p, c) = Cat(p, <<c>>)
<1>1. <<c>> \in Seq(Chars) /\ Append(p, c) = p \o <<c>>
  BY AppendIsConcat
<1> QED
  BY <1>1 DEF Longer, Cat

LEMMA TwoText ==
    ASSUME NEW c \in Chars, NEW d \in Chars
    PROVE  <<c, d>> = Cat(<<c>>, <<d>>) /\ <<c, d>> \in Seq(Chars)
<1> DEFINE p == <<c>>
           f == Append(p, d)
<1>1. p \in Seq(Chars) /\ Len(p) = 1 /\ p[1] = c
  OBVIOUS
<1> HIDE DEF p
<1>2. f \in Seq(Chars) /\ Len(f) = 2 /\ f[1] = c /\ f[2] = d /\ f = Cat(p, <<d>>)
  BY <1>1, OneText, AppendProperties
<1> HIDE DEF f
<1>3. f = [i \in 1 .. 2 |-> f[i]]
  BY <1>2, LenProperties
<1>4. f = <<c, d>>
  BY <1>2, <1>3, Tuple2
<1> QED
  BY <1>2, <1>4 DEF p

LEMMA ThreeText ==
    ASSUME NEW c \in Chars, NEW d \in Chars, NEW e \in Chars
    PROVE  <<c, d, e>> = Cat(Cat(<<c>>, <<d>>), <<e>>) /\ <<c, d, e>> \in Seq(Chars)
<1> DEFINE p == <<c, d>>
           f == Append(p, e)
<1>1. p \in Seq(Chars) /\ Len(p) = 2 /\ p[1] = c /\ p[2] = d /\ p = Cat(<<c>>, <<d>>)
  BY TwoText
<1> HIDE DEF p
<1>2. /\ f \in Seq(Chars) /\ Len(f) = 3 /\ f[1] = c /\ f[2] = d /\ f[3] = e
      /\ f = Cat(p, <<e>>)
  <2> DEFINE n == Len(p)
  <2>0. n = 2
    BY <1>1
  <2>1. f \in Seq(Chars) /\ Len(f) = n + 1 /\ f[n + 1] = e /\ \A i \in 1 .. n : f[i] = p[i]
    <3>1. p \in Seq(Chars)
      BY <1>1
    <3> QED
      BY <3>1, AppendProperties
  <2> HIDE DEF n
  <2>2. f = Cat(p, <<e>>)
    BY <1>1, OneText
  <2> HIDE DEF f
  <2>3. n + 1 = 3 /\ 1 \in 1 .. n /\ 2 \in 1 .. n
    BY <2>0
  <2> QED
    BY <1>1, <2>1, <2>2, <2>3
<1> HIDE DEF f
<1>3. f = [i \in 1 .. 3 |-> f[i]]
  BY <1>2, LenProperties
<1>4. f = <<c, d, e>>
  BY <1>2, <1>3, Tuple3
<1> QED
  BY <1>1, <1>2, <1>4

LEMMA ReadsDec ==
    ASSUME NEW s \in Seq(Chars), NEW p \in Seq(Chars), NEW b, Short(b), NEW v \in OctetValues,
           NEW t, t = Cat(p, Dec(v)), Starts(s, t), Behind(s, p) = Waiting(b)
    PROVE  Behind(s, t) = Got(b, v)
<1>0. v \in Nat /\ v < 256
  BY OctetIsNat
<1>1. \A c : c \in Nat /\ c < 10 => c \in Chars
  BY DEF Chars, Address!Other
<1>3. CASE v < 10
  <2>1. Dec(v) = <<v>> /\ v \in Chars
    BY <1>0, <1>1, <1>3, DecimalDigits
  <2>2. Longer(t, p, v)
    BY <2>1, OneText
  <2> QED
    BY <1>0, <1>3, <2>2, FirstDigit
<1>4. CASE v >= 10 /\ v < 100
  <2> DEFINE c == v \div 10
             d == v % 10
             q == Cat(p, <<c>>)
  <2>1. c \in Nat \ {0} /\ c < 10 /\ d \in Nat /\ d < 10 /\ v = c * 10 + d
    BY <1>0, <1>4
  <2>2. Dec(v) = <<c, d>>
    BY <1>0, <1>4, DecimalDigits
  <2> HIDE DEF c, d
  <2>3. c \in Chars /\ d \in Chars
    BY <1>1, <2>1
  <2>0. <<c>> \in Seq(Chars) /\ <<d>> \in Seq(Chars) /\ q \in Seq(Chars)
    BY <2>3, OneText, CatText
  <2>4. t = Cat(q, <<d>>)
    <3>1. Dec(v) = Cat(<<c>>, <<d>>)
      BY <2>2, <2>3, TwoText
    <3>2. Cat(p, Cat(<<c>>, <<d>>)) = Cat(q, <<d>>)
      BY <2>0, CatCat
    <3> QED
      BY <3>1, <3>2
  <2>5. Longer(t, q, d) /\ Longer(q, p, c)
    BY <2>0, <2>3, <2>4, OneText
  <2> HIDE DEF q
  <2>6. Starts(s, q)
    BY <2>5, Longest
  <2>7. Behind(s, q) = Got(b, c)
    BY <2>1, <2>5, <2>6, FirstDigit
  <2> QED
    BY <1>0, <2>1, <2>5, <2>7, NextDigit
<1>5. CASE v >= 100
  <2> DEFINE c == v \div 100
             d == (v \div 10) % 10
             e == v % 10
             f == c * 10 + d
             q == Cat(p, <<c>>)
             r == Cat(q, <<d>>)
  <2>1. /\ c \in Nat \ {0} /\ c < 10 /\ d \in Nat /\ d < 10 /\ e \in Nat /\ e < 10
        /\ f = v \div 10 /\ v = f * 10 + e /\ f \in Nat \ {0} /\ f < 256
    <3>1. c \in Nat \ {0} /\ c < 10 /\ d \in Nat /\ d < 10 /\ e \in Nat /\ e < 10
      BY <1>0, <1>5
    <3>2. v \div 10 \in Nat \ {0} /\ v \div 10 < 256 /\ v = (v \div 10) * 10 + e
      BY <1>0, <1>5
    <3>3. c = (v \div 10) \div 10
      BY <1>0, <1>5
    <3>4. f = v \div 10
      BY <3>2, <3>3
    <3> QED
      BY <3>1, <3>2, <3>4
  <2>2. Dec(v) = <<c, d, e>>
    BY <1>0, <1>5, DecimalDigits
  <2> HIDE DEF c, d, e
  <2>3. c \in Chars /\ d \in Chars /\ e \in Chars
    BY <1>1, <2>1
  <2>0. /\ <<c>> \in Seq(Chars) /\ <<d>> \in Seq(Chars) /\ <<e>> \in Seq(Chars)
        /\ q \in Seq(Chars) /\ r \in Seq(Chars)
    BY <2>3, OneText, CatText
  <2>4. t = Cat(r, <<e>>)
    <3>1. Dec(v) = Cat(Cat(<<c>>, <<d>>), <<e>>) /\ Cat(<<c>>, <<d>>) \in Seq(Chars)
      BY <2>0, <2>2, <2>3, ThreeText, CatText
    <3>2. Cat(p, Cat(Cat(<<c>>, <<d>>), <<e>>)) = Cat(Cat(p, Cat(<<c>>, <<d>>)), <<e>>)
      <4> DEFINE y == Cat(<<c>>, <<d>>)
                 z == <<e>>
      <4>1. y \in Seq(Chars) /\ z \in Seq(Chars)
        BY <2>0, <3>1
      <4> HIDE DEF y, z
      <4>2. Cat(p, Cat(y, z)) = Cat(Cat(p, y), z)
        BY <4>1, CatCat
      <4> QED
        BY <4>2 DEF y, z
    <3>3. Cat(p, Cat(<<c>>, <<d>>)) = Cat(q, <<d>>)
      BY ZenonT(40), <2>0, CatCat
    <3> QED
      BY <3>1, <3>2, <3>3
  <2>5. Longer(t, r, e) /\ Longer(r, q, d) /\ Longer(q, p, c)
    BY <2>0, <2>3, <2>4, OneText
  <2> HIDE DEF r
  <2>6. Starts(s, r)
    BY <2>5, Longest
  <2> HIDE DEF q
  <2>7. Starts(s, q)
    BY <2>5, <2>6, Longest
  <2>8. Behind(s, q) = Got(b, c)
    BY <2>1, <2>5, <2>7, FirstDigit
  <2>9. f = c * 10 + d
    OBVIOUS
  <2> HIDE DEF f
  <2>10. Behind(s, r) = Got(b, f)
    <3>1. Longer(r, q, d) /\ f < 256 /\ c \in Nat \ {0} /\ d \in Nat /\ d < 10
      BY <2>1, <2>5
    <3> QED
      BY <2>6, <2>8, <2>9, <3>1, NextDigit
  <2> QED
    BY <1>0, <2>1, <2>5, <2>10, NextDigit
<1> QED
  BY <1>0, <1>3, <1>4, <1>5

\* Another number may follow the one behind the bytes b.
Room(b) == Len(b) < 3

LEMMA ReadsDot ==
    ASSUME NEW s \in Seq(Chars), NEW p \in Seq(Chars), NEW b, Short(b), NEW v \in OctetValues,
           NEW t, Longer(t, p, Address!Dot), Room(b), Starts(s, t), Behind(s, p) = Got(b, v)
    PROVE  Behind(s, t) = Waiting(Append(b, v))
<1> DEFINE c == Append(b, v)
           st == Reading(c, TRUE)
           n == Len(b)
           dot == Address!Dot
<1>0. n \in Nat /\ n < 3 /\ b \in Seq(OctetValues)
  BY LenProperties DEF Short, Room
<1>1. dot \in Chars /\ dot \notin 0 .. 9
  BY DEF Chars, Address!Dot, Address!Other
<1>2. Behind(s, t) = Address!Octet(st, dot)
  <2>1. Longer(t, p, dot)
    OBVIOUS
  <2> HIDE DEF dot, st
  <2>2. Behind(s, t) = Address!Octet(Behind(s, p), dot)
    BY <2>1, NextOctet
  <2> QED
    BY <2>2 DEF Got, st
<1>3. c \in Seq(OctetValues) /\ Len(c) = n + 1
  BY <1>0, AppendProperties
<1> DEFINE e == Append(c, 0)
<1>4. Len(e) = n + 2
  <2>1. 0 \in OctetValues
    BY DEF OctetValues
  <2> HIDE DEF c, n
  <2>2. Len(e) = n + 1 + 1
    BY <1>3, <2>1, AppendProperties
  <2> QED
    BY <1>0, <2>2
<1>5. st.ok /\ st.bytes = c /\ st.saw /\ st.octets = n + 1
  <2> HIDE DEF c, n
  <2> QED
    BY <1>3 DEF Reading
<1>6. st \in OctetStates
  <2>1. v \in Nat /\ n + 1 \in Nat
    BY <1>0, OctetIsNat
  <2>2. b \in Seq(Nat)
    BY <1>0, OctetIsNat, SeqMonotonic
  <2>3. c \in Seq(Nat) \ {<<>>}
    BY <2>1, <2>2, AppendProperties
  <2> HIDE DEF c, n
  <2> QED
    BY <1>3, <2>1, <2>3 DEF Reading, OctetStates
<1> DEFINE next == Address!Octet(st, dot)
<1>7. next = [ok |-> TRUE, bytes |-> e, octets |-> n + 1, saw |-> FALSE]
  <2>1. n + 1 # 4
    BY <1>0
  <2>2. next \in OctetStates
    BY <1>6, OctetTyped
  <2> HIDE DEF c, n, st
  <2>3. next.ok /\ next.bytes = e /\ ~next.saw /\ next.octets = n + 1
    BY <1>1, <1>5, <1>6, <2>1 DEF Address!Octet, OctetStates
  <2> HIDE DEF next, e
  <2> QED
    BY <2>2, <2>3 DEF OctetStates
<1>8. Reading(e, FALSE) = [ok |-> TRUE, bytes |-> e, octets |-> n + 1, saw |-> FALSE]
  <2> DEFINE m == Len(e)
  <2>0. m = n + 2
    BY <1>4
  <2> HIDE DEF e, n, m
  <2>1. m - 1 = n + 1
    BY <1>0, <2>0
  <2>2. Len(e) - 1 = n + 1
    BY <2>1 DEF m
  <2> QED
    BY <2>2 DEF Reading
<1> QED
  BY <1>2, <1>7, <1>8 DEF Waiting

\* The sequence c is what b begins with.
Agrees(c, b, k) == c \in Seq(OctetValues) /\ Len(c) = k /\ \A i \in 1 .. k : c[i] = b[i]

LEMMA AgreesNext ==
    ASSUME NEW c, NEW b, NEW k \in Nat, Agrees(c, b, k), b[k + 1] \in OctetValues
    PROVE  Agrees(Append(c, b[k + 1]), b, k + 1)
BY AppendProperties DEF Agrees

LEMMA DotIsChar == Address!Dot \in Chars
BY DEF Chars, Address!Dot, Address!Other

\* What the endpoint tells the families apart by.
HasDot(p) == \E i \in DOMAIN p : p[i] = Address!Dot

LEMMA DotStays ==
    ASSUME NEW p \in Seq(Chars), NEW q \in Seq(Chars), HasDot(p) \/ HasDot(q)
    PROVE  HasDot(Cat(p, q))
<1> DEFINE r == p \o q
           m == Len(p)
           n == Len(q)
<1>1. m \in Nat /\ n \in Nat /\ DOMAIN p = 1 .. m /\ DOMAIN q = 1 .. n
  BY LenProperties
<1>2. r \in Seq(Chars) /\ Len(r) = m + n
      /\ \A i \in 1 .. m + n : r[i] = IF i <= m THEN p[i] ELSE q[i - m]
  BY ConcatProperties
<1> HIDE DEF r, m, n
<1>3. DOMAIN r = 1 .. m + n
  BY <1>2, LenProperties
<1>4. CASE HasDot(p)
  <2>1. PICK i \in 1 .. m : p[i] = Address!Dot
    BY <1>1, <1>4 DEF HasDot
  <2>2. i \in 1 .. m + n /\ i <= m
    BY <1>1
  <2> QED
    BY <1>2, <1>3, <2>1, <2>2 DEF HasDot, Cat, r
<1>5. CASE HasDot(q)
  <2>1. PICK i \in 1 .. n : q[i] = Address!Dot
    BY <1>1, <1>5 DEF HasDot
  <2> DEFINE k == i + m
  <2>2. k \in 1 .. m + n /\ ~(k <= m) /\ k - m = i
    BY <1>1
  <2> HIDE DEF k
  <2>3. r[k] = Address!Dot
    BY <1>2, <2>1, <2>2
  <2> QED
    BY <1>3, <2>2, <2>3 DEF HasDot, Cat, r
<1> QED
  BY <1>4, <1>5

\* What inet_ntop4 writes inet_pton4 reads.
LEMMA OctetsReturn ==
    ASSUME NEW b \in [1 .. 4 -> OctetValues]
    PROVE  /\ Address!inet_ntop4(b) \in Seq(Chars) /\ HasDot(Address!inet_ntop4(b))
           /\ Address!inet_pton4(Address!inet_ntop4(b)) = b
<1> DEFINE dot == <<Address!Dot>>
           p1 == Dec(b[1])
           q1 == Cat(p1, dot)
           p2 == Cat(q1, Dec(b[2]))
           q2 == Cat(p2, dot)
           p3 == Cat(q2, Dec(b[3]))
           q3 == Cat(p3, dot)
           s  == Cat(q3, Dec(b[4]))
<1>1. Address!inet_ntop4(b) = s
  BY DEF Address!inet_ntop4, Dec, Cat
<1>2. \A i \in 1 .. 4 : b[i] \in OctetValues /\ Dec(b[i]) \in Seq(Chars)
  BY DecTyped
<1>3. dot \in Seq(Chars) /\ <<>> \in Seq(Chars)
  BY DotIsChar, OneText
<1>d. HasDot(dot)
  BY DEF HasDot
<1> HIDE DEF dot
<1>4. p1 \in Seq(Chars)
  BY <1>2
<1>5. q1 \in Seq(Chars)
  BY <1>3, <1>4, CatText
<1> HIDE DEF q1
<1>6. p2 \in Seq(Chars)
  BY <1>2, <1>5, CatText
<1> HIDE DEF p2
<1>7. q2 \in Seq(Chars)
  BY <1>3, <1>6, CatText
<1> HIDE DEF q2
<1>8. p3 \in Seq(Chars)
  BY <1>2, <1>7, CatText
<1> HIDE DEF p3
<1>9. q3 \in Seq(Chars)
  BY <1>3, <1>8, CatText
<1> HIDE DEF q3
<1>10. s \in Seq(Chars)
  BY <1>2, <1>9, CatText
<1>e. HasDot(s)
  <2>1. HasDot(q3)
    BY <1>3, <1>d, <1>8, DotStays DEF q3
  <2> QED
    BY <1>2, <1>9, <2>1, DotStays
<1> HIDE DEF s, p1
<1>11. /\ Starts(s, s) /\ Starts(s, q3) /\ Starts(s, p3) /\ Starts(s, q2) /\ Starts(s, p2)
       /\ Starts(s, q1) /\ Starts(s, p1)
  <2>1. Starts(s, s)
    BY <1>10, LenProperties DEF Starts
  <2>2. Starts(s, q3)
    <3>1. 4 \in 1 .. 4
      OBVIOUS
    <3> QED
      BY <1>2, <1>9, <1>10, <2>1, <3>1, CatStarts DEF s
  <2>3. Starts(s, p3)
    BY <1>3, <1>8, <1>10, <2>2, CatStarts DEF q3
  <2>4. Starts(s, q2)
    BY <1>2, <1>7, <1>10, <2>3, CatStarts DEF p3
  <2>5. Starts(s, p2)
    BY <1>3, <1>6, <1>10, <2>4, CatStarts DEF q2
  <2>6. Starts(s, q1)
    BY <1>2, <1>5, <1>10, <2>5, CatStarts DEF p2
  <2>7. Starts(s, p1)
    BY <1>3, <1>4, <1>10, <2>6, CatStarts DEF q1
  <2> QED
    BY <2>1, <2>2, <2>3, <2>4, <2>5, <2>6, <2>7
<1> DEFINE b0 == <<>>
           b1 == Append(b0, b[1])
           b2 == Append(b1, b[2])
           b3 == Append(b2, b[3])
           b4 == Append(b3, b[4])
<1>12. b[1] \in OctetValues /\ b[2] \in OctetValues /\ b[3] \in OctetValues /\ b[4] \in OctetValues
  BY <1>2
<1>13. Agrees(b0, b, 0)
  BY DEF Agrees
<1>14. Agrees(b1, b, 1) /\ Agrees(b2, b, 2) /\ Agrees(b3, b, 3) /\ Agrees(b4, b, 4)
  <2> HIDE DEF b0
  <2>1. Agrees(b1, b, 1)
    <3>1. Agrees(Append(b0, b[0 + 1]), b, 0 + 1)
      BY <1>12, <1>13, AgreesNext
    <3> QED
      BY <3>1
  <2> HIDE DEF b1
  <2>2. Agrees(b2, b, 2)
    <3>1. Agrees(Append(b1, b[1 + 1]), b, 1 + 1)
      BY <1>12, <2>1, AgreesNext
    <3> QED
      BY <3>1
  <2> HIDE DEF b2
  <2>3. Agrees(b3, b, 3)
    <3>1. Agrees(Append(b2, b[2 + 1]), b, 2 + 1)
      BY <1>12, <2>2, AgreesNext
    <3> QED
      BY <3>1
  <2> HIDE DEF b3
  <2>4. Agrees(b4, b, 4)
    <3>1. Agrees(Append(b3, b[3 + 1]), b, 3 + 1)
      BY <1>12, <2>3, AgreesNext
    <3> QED
      BY <3>1
  <2> QED
    BY <2>1, <2>2, <2>3, <2>4
<1> HIDE DEF b1, b2, b3, b4
<1>15. Short(b0) /\ Room(b0) /\ Short(b1) /\ Room(b1) /\ Short(b2) /\ Room(b2) /\ Short(b3)
  BY <1>13, <1>14 DEF Short, Room, Agrees
<1>16. b4 = b /\ Len(b4) = 4
  BY SMTT(30), <1>14, LenProperties DEF Agrees
<1>17. Behind(s, <<>>) = Waiting(b0)
  <2>1. Address!OctetsRead(s)[0] = FirstOctet
    BY <1>10, OctetsUnfold, LenProperties
  <2>2. Append(b0, 0) = <<0>> /\ Len(<<0>>) = 1 /\ Len(<<>>) = 0
    OBVIOUS
  <2> QED
    BY <2>1, <2>2 DEF Behind, Reading, FirstOctet, Waiting
<1> HIDE DEF b0
<1>18. Behind(s, p1) = Got(b0, b[1])
  <2>1. p1 = Cat(<<>>, Dec(b[1]))
    BY <1>2, ConcatEmptySeq DEF p1, Cat
  <2> DEFINE e == <<>>
  <2>2. e \in Seq(Chars) /\ p1 = Cat(e, Dec(b[1])) /\ Behind(s, e) = Waiting(b0)
    BY <1>3, <1>17, <2>1
  <2> HIDE DEF e
  <2> QED
    BY <1>10, <1>11, <1>12, <1>15, <2>2, ReadsDec
<1>19. Behind(s, q1) = Waiting(b1)
  <2>1. Longer(q1, p1, Address!Dot)
    BY <1>4, OneText, DotIsChar DEF q1, dot
  <2> QED
    BY <1>4, <1>10, <1>11, <1>12, <1>15, <1>18, <2>1, ReadsDot DEF b1
<1>20. Behind(s, p2) = Got(b1, b[2])
  BY <1>5, <1>10, <1>11, <1>12, <1>15, <1>19, ReadsDec DEF p2
<1>21. Behind(s, q2) = Waiting(b2)
  <2>1. Longer(q2, p2, Address!Dot)
    BY <1>6, OneText, DotIsChar DEF q2, dot
  <2> QED
    BY <1>6, <1>10, <1>11, <1>12, <1>15, <1>20, <2>1, ReadsDot DEF b2
<1>22. Behind(s, p3) = Got(b2, b[3])
  BY <1>7, <1>10, <1>11, <1>12, <1>15, <1>21, ReadsDec DEF p3
<1>23. Behind(s, q3) = Waiting(b3)
  <2>1. Longer(q3, p3, Address!Dot)
    BY <1>8, OneText, DotIsChar DEF q3, dot
  <2> QED
    BY <1>8, <1>10, <1>11, <1>12, <1>15, <1>22, <2>1, ReadsDot DEF b3
<1>24. Behind(s, s) = Got(b3, b[4])
  BY <1>9, <1>10, <1>11, <1>12, <1>15, <1>23, ReadsDec DEF s
<1>25. Address!inet_pton4(s) = b4
  BY <1>16, <1>24 DEF Address!inet_pton4, Address!FourBytes, Behind, Reading, Got, b4
<1> QED
  BY <1>1, <1>10, <1>16, <1>25, <1>e

\* No dotted text begins with a colon.
LEMMA ColonRefused ==
    ASSUME NEW s \in Seq(Chars), Len(s) > 0, s[1] = Address!Colon
    PROVE  Address!inet_pton4(s) = Address!None
<1> DEFINE O == Address!OctetsRead(s)
           n == Len(s)
           S == {i \in 0 .. n - 1 : ~O[i + 1].ok}
<1>1. n \in Nat /\ n > 0
  BY LenProperties
<1>2. /\ O \in [0 .. n -> OctetStates]
      /\ O[0] = FirstOctet
      /\ \A i \in 1 .. n : O[i] = Address!Octet(O[i - 1], s[i])
  BY <1>1, OctetsUnfold
<1> HIDE DEF O, n
<1>3. 0 \in S
  <2>1. 1 \in 1 .. n /\ 1 - 1 = 0
    BY <1>1
  <2>2. O[1] = Address!Octet(FirstOctet, Address!Colon)
    BY <1>2, <2>1
  <2>3. Address!Colon \notin 0 .. 9 /\ Address!Colon # Address!Dot
    BY DEF Address!Colon, Address!Dot
  <2>4. FirstOctet \in OctetStates
    BY DEF FirstOctet, OctetStates
  <2>5. ~Address!Octet(FirstOctet, Address!Colon).ok
    BY <2>3, <2>4 DEF Address!Octet, OctetStates
  <2> QED
    BY <1>1, <2>2, <2>5
<1>4. ASSUME NEW i \in 0 .. n - 1 - 1, i \in S PROVE i + 1 \in S
  <2>1. i + 1 + 1 \in 1 .. n /\ i + 1 + 1 - 1 = i + 1 /\ i + 1 \in 0 .. n - 1
    BY <1>1
  <2>2. O[i + 1 + 1] = Address!Octet(O[i + 1], s[i + 1 + 1])
    BY <1>2, <2>1
  <2>3. ~O[i + 1].ok
    BY <1>4
  <2>4. ~O[i + 1 + 1].ok
    BY <2>2, <2>3 DEF Address!Octet
  <2> QED
    BY <2>1, <2>4
<1>5. n - 1 \in S
  <2> DEFINE m == n - 1
  <2>1. m \in Nat
    BY <1>1
  <2>2. \A i \in 0 .. m - 1 : i \in S => i + 1 \in S
    BY <1>4
  <2> HIDE DEF S, m
  <2>3. 0 .. m \subseteq S
    BY <1>3, <2>1, <2>2, UpTo
  <2>4. m \in S
    BY <2>1, <2>3
  <2> QED
    BY <2>4 DEF m
<1>6. ~O[n].ok
  BY <1>1, <1>5
<1> QED
  BY <1>6 DEF Address!inet_pton4, Address!FourBytes, O, n

-----------------------------------------------------------------------------
(* inet_pton6 *)

WordValues == 0 .. 65535

LEMMA WordIsNat == \A v : v \in WordValues <=> v \in Nat /\ v < 65536
<1> DEFINE m == 65535
<1>1. m \in Nat /\ \A v : v \in Nat /\ v < 65536 <=> v \in Nat /\ v <= m
  OBVIOUS
<1>2. WordValues = 0 .. m
  BY DEF WordValues
<1> HIDE DEF m
<1> QED
  BY <1>1, <1>2

WordStates ==
    [ok : BOOLEAN, words : Seq(WordValues), colonp : Int, cur : Nat,
     saw : BOOLEAN, val : Nat, over : BOOLEAN]

\* The double colon is within the words, and the word that is read fits.
Inside(words, colonp) == colonp >= -1 /\ colonp <= Len(words)

Within(st, n) ==
    /\ st.ok => st.val \in WordValues
    /\ Inside(st.words, st.colonp)
    /\ st.cur > 0 /\ st.cur <= n + 1

LEMMA InsideLonger ==
    ASSUME NEW w \in Seq(WordValues), NEW c \in Int, Inside(w, c), NEW x \in Seq(WordValues),
           Len(w) <= Len(x)
    PROVE  Inside(x, c)
BY LenProperties DEF Inside

LEMMA InsideEnd ==
    ASSUME NEW w \in Seq(WordValues) PROVE Len(w) \in Nat /\ Inside(w, Len(w))
BY LenProperties DEF Inside

LEMMA QuadWords ==
    ASSUME NEW b \in Seq(OctetValues), Len(b) = 4
    PROVE  b[1] * 256 + b[2] \in WordValues /\ b[3] * 256 + b[4] \in WordValues
<1>1. \A i \in 1 .. 4 : b[i] \in Nat /\ b[i] < 256
  BY OctetIsNat, ElementOfSeq
<1>2. \A x, y \in Nat : x < 256 /\ y < 256 => x * 256 + y \in Nat /\ x * 256 + y < 65536
  OBVIOUS
<1>3. 1 \in 1 .. 4 /\ 2 \in 1 .. 4 /\ 3 \in 1 .. 4 /\ 4 \in 1 .. 4
  OBVIOUS
<1> QED
  BY SMTT(30), <1>1, <1>2, <1>3, WordIsNat

LEMMA WordTyped ==
    ASSUME NEW s \in Seq(Chars), NEW n \in Nat, n = Len(s), NEW i \in 1 .. n,
           NEW st \in WordStates, Within(st, n)
    PROVE  /\ Address!WordStep(s, st, i) \in WordStates
           /\ Within(Address!WordStep(s, st, i), n)
<1> DEFINE ch == s[i]
           next == Address!WordStep(s, st, i)
           v == st.val * 16 + ch
<1>1. CASE ~st.ok \/ st.over
  BY <1>1 DEF Address!WordStep
<1>2. CASE ~(~st.ok \/ st.over) /\ ch \in 0 .. 15
  <2> DEFINE o == v <= 65535
  <2>1. next = [st EXCEPT !.val = v, !.saw = TRUE, !.ok = o]
    BY <1>2 DEF Address!WordStep, WordStates
  <2>2. v \in Nat /\ (o => v \in WordValues) /\ o \in BOOLEAN
    <3>1. v \in Nat
      <4>1. ch \in Nat /\ st.val \in Nat
        BY SMTT(30), <1>2 DEF WordStates
      <4> HIDE DEF ch
      <4> QED
        BY <4>1
    <3>2. o <=> v < 65536
      BY <3>1
    <3>3. o \in BOOLEAN
      OBVIOUS
    <3> HIDE DEF v, o
    <3> QED
      BY <3>1, <3>2, <3>3, WordIsNat
  <2> HIDE DEF v, o, next
  <2>3. next \in WordStates /\ Within(next, n)
    BY <2>1, <2>2 DEF WordStates, Within
  <2> QED
    BY <2>3 DEF next
<1>3. CASE ~(~st.ok \/ st.over) /\ ch \notin 0 .. 15 /\ ch = Address!Colon /\ ~st.saw
  <2>1. next = [st EXCEPT !.cur = i + 1, !.ok = st.colonp = -1, !.colonp = Len(st.words)]
    BY <1>3 DEF Address!WordStep
  <2> DEFINE k == i + 1
             e == Len(st.words)
             o == st.colonp = -1
  <2>2. k \in Nat /\ k > 0 /\ k <= n + 1 /\ e \in Int /\ Inside(st.words, e) /\ o \in BOOLEAN
    BY InsideEnd DEF WordStates
  <2>3. next = [st EXCEPT !.cur = k, !.ok = o, !.colonp = e]
    BY <2>1
  <2> HIDE DEF k, e, o, next
  <2>4. next \in WordStates /\ Within(next, n)
    BY <1>3, <2>2, <2>3 DEF WordStates, Within
  <2> QED
    BY <2>4 DEF next
<1>4. CASE ~(~st.ok \/ st.over) /\ ch \notin 0 .. 15 /\ ch = Address!Colon /\ st.saw
  <2>1. next = [st EXCEPT !.cur = i + 1, !.ok = i < Len(s) /\ Len(st.words) < 8,
                       !.words = Append(@, st.val), !.saw = FALSE, !.val = 0]
    BY <1>4 DEF Address!WordStep
  <2> DEFINE k == i + 1
             e == Append(st.words, st.val)
             o == i < Len(s) /\ Len(st.words) < 8
  <2>2. k \in Nat /\ k > 0 /\ k <= n + 1 /\ o \in BOOLEAN
    OBVIOUS
  <2>3. e \in Seq(WordValues) /\ Inside(e, st.colonp)
    <3>1. st.words \in Seq(WordValues) /\ st.val \in WordValues /\ Inside(st.words, st.colonp)
            /\ st.colonp \in Int
      BY <1>4 DEF WordStates, Within
    <3>2. e \in Seq(WordValues) /\ Len(e) = Len(st.words) + 1 /\ Len(st.words) \in Nat
      BY <3>1, AppendProperties, LenProperties
    <3> HIDE DEF e
    <3> QED
      BY <3>1, <3>2, InsideLonger
  <2>4. 0 \in WordValues
    BY WordIsNat
  <2>5. next = [st EXCEPT !.cur = k, !.ok = o, !.words = e, !.saw = FALSE, !.val = 0]
    BY <2>1
  <2> HIDE DEF k, e, o, next
  <2>6. next \in WordStates /\ Within(next, n)
    BY <1>4, <2>2, <2>3, <2>4, <2>5 DEF WordStates, Within
  <2> QED
    BY <2>6 DEF next
<1>5. CASE ~(~st.ok \/ st.over) /\ ch = Address!Dot /\ Len(st.words) <= 6
  <2> DEFINE rest == SubSeq(s, st.cur, Len(s))
             b == Address!inet_pton4(rest)
             more == <<b[1] * 256 + b[2], b[3] * 256 + b[4]>>
  <2>1. next = Address!DottedTail(st, b)
    BY <1>5 DEF Address!WordStep, Address!Dot, Address!Colon
  <2>2. rest \in Seq(Chars)
    <3>1. \A j \in st.cur .. Len(s) : s[j] \in Chars
      BY ElementOfSeq DEF WordStates, Within
    <3> QED
      BY <3>1, SubSeqProperties DEF WordStates
  <2> HIDE DEF rest
  <2>3. CASE b = Address!None
    BY <2>1, <2>3 DEF Address!DottedTail, WordStates, Within
  <2>4. CASE b # Address!None
    <3>1. b \in Seq(OctetValues) /\ Len(b) = 4
      BY <2>2, <2>4, OctetsExact
    <3> HIDE DEF b
    <3>2. more \in Seq(WordValues) /\ Len(more) = 2
      BY <3>1, QuadWords
    <3>3. next = [st EXCEPT !.words = @ \o more, !.saw = FALSE, !.over = TRUE]
      BY <2>1, <2>4 DEF Address!DottedTail
    <3> HIDE DEF more
    <3> DEFINE e == st.words \o more
    <3>4. e \in Seq(WordValues) /\ Inside(e, st.colonp)
      <4>1. st.words \in Seq(WordValues) /\ Inside(st.words, st.colonp) /\ st.colonp \in Int
        BY DEF WordStates, Within
      <4>2. Len(st.words) \in Nat /\ Len(more) \in Nat
        BY <3>2, <4>1, LenProperties
      <4>3. e \in Seq(WordValues) /\ Len(e) = Len(st.words) + Len(more)
        BY <3>2, <4>1, ConcatProperties
      <4> HIDE DEF e
      <4> QED
        BY <4>1, <4>2, <4>3, InsideLonger
    <3>5. next = [st EXCEPT !.words = e, !.saw = FALSE, !.over = TRUE]
      BY <3>3
    <3> HIDE DEF e, next
    <3>6. next \in WordStates /\ Within(next, n)
      BY <1>5, <3>4, <3>5 DEF WordStates, Within
    <3> QED
      BY <3>6 DEF next
  <2> QED
    BY <2>3, <2>4
<1>6. CASE ~(~st.ok \/ st.over) /\ ch \notin 0 .. 15 /\ ch # Address!Colon
             /\ ~(ch = Address!Dot /\ Len(st.words) <= 6)
  <2>1. next = [st EXCEPT !.ok = FALSE]
    BY <1>6 DEF Address!WordStep
  <2> QED
    BY <2>1 DEF WordStates, Within
<1>7. Address!Dot \notin 0 .. 15 /\ Address!Dot # Address!Colon /\ st.saw \in BOOLEAN
  BY DEF Address!Dot, Address!Colon, WordStates
<1> QED
  BY <1>1, <1>2, <1>3, <1>4, <1>5, <1>6, <1>7

FirstWord ==
    [ok |-> TRUE, words |-> <<>>, colonp |-> -1, cur |-> 1,
     saw |-> FALSE, val |-> 0, over |-> FALSE]

LEMMA WordsUnfold ==
    ASSUME NEW s \in Seq(Chars)
    PROVE  /\ Address!WordsRead(s)[0] = FirstWord
           /\ \A i \in 1 .. Len(s) :
                 Address!WordsRead(s)[i] = Address!WordStep(s, Address!WordsRead(s)[i - 1], i)
           /\ \A i \in 0 .. Len(s) :
                 Address!WordsRead(s)[i] \in WordStates /\ Within(Address!WordsRead(s)[i], Len(s))
<1> DEFINE n == Len(s)
           States == {st \in WordStates : Within(st, n)}
           Step == [p \in States \X (1 .. n) |-> Address!WordStep(s, p[1], p[2])]
<1>0. n \in Nat
  BY LenProperties
<1>1. FirstWord \in States
  <2>1. <<>> \in Seq(WordValues) /\ 0 \in WordValues /\ Len(<<>>) = 0
    BY WordIsNat
  <2> QED
    BY <1>0, <2>1 DEF FirstWord, WordStates, Within, Inside
<1>2. Step \in [States \X (1 .. n) -> States]
  <2>1. ASSUME NEW st \in States, NEW i \in 1 .. n PROVE Address!WordStep(s, st, i) \in States
    BY <1>0, WordTyped
  <2> HIDE DEF States, n
  <2> QED
    BY <2>1
<1> HIDE DEF States
<1>3. PICK f : IsRun(f, States, FirstWord, n, Step)
  <2> HIDE DEF Step, n
  <2> QED
    BY <1>0, <1>1, <1>2, Runs
<1>4. ASSUME NEW i \in 1 .. n PROVE f[i] = Address!WordStep(s, f[i - 1], i)
  <2>1. <<f[i - 1], i>> \in States \X (1 .. n)
    BY <1>0, <1>3 DEF IsRun
  <2>2. Step[<<f[i - 1], i>>] = Address!WordStep(s, f[i - 1], i)
    BY <2>1
  <2> HIDE DEF Step
  <2> QED
    BY <1>3, <2>2 DEF IsRun
<1> DEFINE F(g) == [i \in 0 .. Len(s) |->
              IF i = 0 THEN FirstWord ELSE Address!WordStep(s, g[i - 1], i)]
<1>5. f = F(f)
  BY <1>3, <1>4 DEF IsRun
<1>6. Address!WordsRead(s) = CHOOSE g : g = F(g)
  BY DEF Address!WordsRead, FirstWord
<1>7. Address!WordsRead(s) = F(Address!WordsRead(s))
  <2> HIDE DEF F
  <2> QED
    BY <1>5, <1>6
<1> DEFINE W == Address!WordsRead(s)
           S == {i \in 0 .. n : W[i] \in States}
<1>8. W[0] = FirstWord /\ \A i \in 1 .. n : W[i] = Address!WordStep(s, W[i - 1], i)
  BY <1>0, <1>7
<1>9. 0 .. n \subseteq S
  <2>1. 0 \in S
    BY <1>0, <1>1, <1>8
  <2>2. ASSUME NEW i \in 0 .. n - 1, i \in S PROVE i + 1 \in S
    <3>1. i + 1 \in 1 .. n /\ i + 1 - 1 = i
      BY <1>0
    <3>2. W[i + 1] = Address!WordStep(s, W[i], i + 1)
      BY <1>8, <3>1
    <3>3. W[i] \in States
      BY <2>2
    <3> HIDE DEF W
    <3>4. Address!WordStep(s, W[i], i + 1) \in States
      BY <1>0, <3>1, <3>3, WordTyped DEF States
    <3> QED
      BY <3>1, <3>2, <3>4
  <2> HIDE DEF S
  <2> QED
    BY <1>0, <2>1, <2>2, UpTo
<1>10. \A i \in 0 .. n : W[i] \in States
  BY <1>9
<1> QED
  BY <1>8, <1>10 DEF States

LEMMA Fewer == ASSUME NEW m \in Nat, m < 8 PROVE ~(m > 8) /\ m # 8
OBVIOUS

\* A text of m words with zeroes for those that the double colon leaves out.
Filling(r, x, c, m) ==
    /\ r \in Seq(WordValues) /\ Len(r) = 8
    /\ \A i \in 1 .. 8 : r[i] = IF i <= c THEN x[i]
                                 ELSE IF i <= c + 8 - m THEN 0 ELSE x[i - (8 - m)]

LEMMA Filled ==
    ASSUME NEW w \in Seq(WordValues), NEW m \in Nat, m = Len(w), m < 8, NEW c \in 0 .. m,
           NEW r, r = Address!Filled8(w, c)
    PROVE  Filling(r, w, c, m)
<1> DEFINE x == SubSeq(w, 1, c)
           z == [i \in 1 .. 8 - m |-> 0]
           y == SubSeq(w, c + 1, m)
<1>1. r = x \o z \o y
  <2>1. ~(m > 8) /\ m # 8
    BY Fewer
  <2>2. c # -1
    OBVIOUS
  <2> QED
    BY <2>1, <2>2 DEF Address!Filled8
<1>2. \A i \in 1 .. m : w[i] \in WordValues
  BY ElementOfSeq
<1>3. x \in Seq(WordValues) /\ Len(x) = c /\ \A i \in 1 .. c : x[i] = w[i]
  <2>1. \A i \in 1 .. c : w[i] \in WordValues
    BY <1>2
  <2> QED
    BY <2>1, SubSeqProperties
<1>4. y \in Seq(WordValues) /\ Len(y) = m - c /\ \A i \in 1 .. m - c : y[i] = w[c + i]
  <2>1. \A i \in c + 1 .. m : w[i] \in WordValues
    BY <1>2
  <2>2. /\ y \in Seq(WordValues)
        /\ Len(y) = IF c + 1 <= m THEN m - (c + 1) + 1 ELSE 0
        /\ \A i \in 1 .. m - (c + 1) + 1 : y[i] = w[c + 1 + i - 1]
    BY <2>1, SubSeqProperties
  <2> HIDE DEF y
  <2> QED
    BY <2>2
<1>5. z \in Seq(WordValues) /\ Len(z) = 8 - m /\ \A i \in 1 .. 8 - m : z[i] = 0
  BY WordIsNat
<1> HIDE DEF x, y, z
<1> DEFINE xz == x \o z
<1>6. xz \in Seq(WordValues) /\ Len(xz) = c + (8 - m)
        /\ \A i \in 1 .. c + (8 - m) : xz[i] = IF i <= c THEN x[i] ELSE z[i - c]
  BY <1>3, <1>5, ConcatProperties
<1>7. r = xz \o y
  BY <1>1
<1> HIDE DEF xz
<1>8. r \in Seq(WordValues) /\ Len(r) = c + (8 - m) + (m - c)
        /\ \A i \in 1 .. c + (8 - m) + (m - c) : r[i] =
               IF i <= c + (8 - m) THEN xz[i] ELSE y[i - (c + (8 - m))]
  <2> DEFINE a == c + (8 - m)
             b == m - c
  <2>1. Len(xz) = a /\ Len(y) = b
    BY <1>4, <1>6
  <2> HIDE DEF a, b
  <2>2. r \in Seq(WordValues) /\ Len(r) = a + b
          /\ \A i \in 1 .. a + b : r[i] = IF i <= a THEN xz[i] ELSE y[i - a]
    BY SMTT(30), <1>4, <1>6, <1>7, <2>1, ConcatProperties
  <2> QED
    BY <2>2 DEF a, b
<1>9. c + (8 - m) + (m - c) = 8
  OBVIOUS
<1>10. ASSUME NEW i \in 1 .. 8
       PROVE  r[i] = IF i <= c THEN w[i] ELSE IF i <= c + 8 - m THEN 0 ELSE w[i - (8 - m)]
  <2>1. CASE i <= c
    BY <1>3, <1>6, <1>8, <1>9, <2>1
  <2>2. CASE i > c /\ i <= c + 8 - m
    BY SMTT(30), <1>5, <1>6, <1>8, <1>9, <2>2
  <2>3. CASE i > c + 8 - m
    <3>1. i - (c + (8 - m)) \in 1 .. m - c /\ c + (i - (c + (8 - m))) = i - (8 - m)
      BY <2>3
    <3>2. r[i] = y[i - (c + (8 - m))]
      BY <1>8, <1>9, <2>3
    <3> QED
      BY SMTT(30), <1>4, <2>3, <3>1, <3>2
  <2> QED
    BY <2>1, <2>2, <2>3
<1>11. r \in Seq(WordValues) /\ Len(r) = 8
  BY <1>8, <1>9
<1> QED
  BY <1>10, <1>11 DEF Filling

LEMMA WordsTyped ==
    ASSUME NEW s \in Seq(Chars), Address!ReadWords(s) # Address!None
    PROVE  Address!ReadWords(s) \in Seq(WordValues) /\ Len(Address!ReadWords(s)) = 8
<1> DEFINE st == Address!WordsRead(s)[Len(s)]
           w  == IF st.saw THEN Append(st.words, st.val) ELSE st.words
<1>1. st \in WordStates /\ Within(st, Len(s))
  BY WordsUnfold, LenProperties
<1>2. Address!ReadWords(s) = IF ~st.ok THEN Address!None ELSE Address!Filled8(w, st.colonp)
  BY DEF Address!ReadWords, Address!EightWords
<1> HIDE DEF st
<1>3. st.ok /\ st.val \in WordValues /\ st.words \in Seq(WordValues) /\ Len(st.words) \in Nat
        /\ st.colonp \in Int /\ st.colonp >= -1 /\ st.colonp <= Len(st.words)
  BY <1>1, <1>2, LenProperties DEF Within, Inside, WordStates
<1>4. w \in Seq(WordValues) /\ Len(w) \in Nat /\ st.colonp <= Len(w)
  BY <1>3, AppendProperties, LenProperties
<1> HIDE DEF w
<1> DEFINE m == Len(w)
           c == st.colonp
<1>5. CASE m = 8
  BY <1>2, <1>3, <1>4, <1>5 DEF Address!Filled8
<1>6. CASE m # 8
  <2>1. m < 8 /\ c # -1
    <3>1. m \in Nat /\ Address!Filled8(w, c) # Address!None
      BY <1>2, <1>3, <1>4
    <3>2. ~(m > 8) /\ (c = -1 <=> m = 8)
      BY <3>1 DEF Address!Filled8
    <3> HIDE DEF m, c
    <3> QED
      BY <1>6, <3>1, <3>2
  <2>2. c \in 0 .. m /\ Address!ReadWords(s) = Address!Filled8(w, c)
    BY <1>2, <1>3, <1>4, <2>1
  <2> HIDE DEF c
  <2> QED
    BY <1>4, <2>1, <2>2, Filled DEF Filling
<1> QED
  BY <1>5, <1>6

LEMMA AddressTyped ==
    ASSUME NEW s \in Seq(Chars), Address!inet_pton6(s) # Address!None
    PROVE  Address!inet_pton6(s) \in Seq(WordValues) /\ Len(Address!inet_pton6(s)) = 8
<1>1. s = <<>> \/ Tail(s) \in Seq(Chars)
  BY HeadTailProperties
<1> QED
  BY <1>1, WordsTyped DEF Address!inet_pton6
=============================================================================
