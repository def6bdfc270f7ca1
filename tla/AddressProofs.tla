---------------------------- MODULE AddressProofs ---------------------------
(***************************************************************************)
(* The text of an IPv6 address: what inet_ntop6 writes, and that           *)
(* inet_pton6 makes of it the address it was written from; and with that   *)
(* what Library keeps true of the endpoint, and of all its types.          *)
(***************************************************************************)
EXTENDS TextProofs, SocketProofs

(* What inet_ntop6 writes *)

LEMMA ZeroesThere ==
    ASSUME NEW w, NEW head \in 1 .. 8, NEW n, n = Address!ZeroesFrom(w, head)
    PROVE  n \in 0 .. 9 - head /\ \A i \in head .. head + n - 1 : w[i] = 0
<1> DEFINE T == {k \in 0 .. 9 - head : head + k > 8 \/ w[head + k] # 0}
           Run(k) == /\ head + k <= 8 => w[head + k] # 0
                     /\ \A i \in head .. head + k - 1 : w[i] = 0
<1>1. 9 - head \in T /\ T \in SUBSET Nat
  OBVIOUS
<1>2. PICK m \in T : \A k \in T : m <= k
  <2> HIDE DEF T
  <2> QED
    BY <1>1, LeastMember
<1>3. Run(m)
  <2>1. head + m <= 8 => w[head + m] # 0
    BY <1>2
  <2>2. ASSUME NEW i \in head .. head + m - 1 PROVE w[i] = 0
    <3>1. i - head \in 0 .. 9 - head /\ i - head < m /\ head + (i - head) = i /\ i <= 8
      BY <1>2
    <3>2. i - head \notin T
      <4> DEFINE j == i - head
      <4>1. j \in Int /\ m \in Int /\ j < m
        BY <1>2, <3>1
      <4> HIDE DEF T, j
      <4>2. j \notin T
        BY <1>2, <4>1
      <4> QED
        BY <4>2 DEF j
    <3> QED
      BY <3>1, <3>2
  <2> QED
    BY <2>1, <2>2
<1>4. n = CHOOSE k \in 0 .. 9 - head : Run(k)
  BY DEF Address!ZeroesFrom
<1>5. m \in 0 .. 9 - head
  BY <1>2
<1> HIDE DEF Run
<1>6. n \in 0 .. 9 - head /\ Run(n)
  BY <1>3, <1>4, <1>5
<1> QED
  BY <1>6 DEF Run

\* Words that have a run of zeroes: `head' and `len' as Best finds them.
IsBest(w, head, len) ==
    /\ head \in 1 .. 8 /\ len \in 0 .. 8 /\ head + len <= 9
    /\ len = 0 => head = 1
    /\ \A i \in head .. head + len - 1 : w[i] = 0

LEMMA BestRun ==
    ASSUME NEW w
    PROVE  IsBest(w, Address!Best(w).base, Address!Best(w).len)
<1> DEFINE runs == {r \in (1 .. 8) \X (2 .. 8) : r[2] = Address!ZeroesFrom(w, r[1])}
           best == CHOOSE r \in runs :
                       \A q \in runs : r[2] > q[2] \/ (r[2] = q[2] /\ r[1] <= q[1])
<1>1. CASE runs = {}
  <2>1. Address!Best(w) = [base |-> 1, len |-> 0]
    BY <1>1 DEF Address!Best
  <2> QED
    BY <2>1 DEF IsBest
<1>2. CASE runs # {}
  <2> DEFINE key(r) == 9 * (8 - r[2]) + r[1]
             T == {key(r) : r \in runs}
  <2>1. \A r \in runs : r[1] \in 1 .. 8 /\ r[2] \in 2 .. 8
    OBVIOUS
  <2>2. T \in SUBSET Nat /\ T # {}
    <3> HIDE DEF runs
    <3> QED
      BY <1>2, <2>1
  <2>3. PICK m \in T : \A k \in T : m <= k
    <3> HIDE DEF T
    <3> QED
      BY <2>2, LeastMember
  <2>4. PICK r \in runs : m = key(r)
    BY <2>3
  <2>5. ASSUME NEW q \in runs PROVE r[2] > q[2] \/ (r[2] = q[2] /\ r[1] <= q[1])
    <3>1. key(r) <= key(q)
      BY <2>3, <2>4
    <3>2. r[1] \in 1 .. 8 /\ r[2] \in 2 .. 8 /\ q[1] \in 1 .. 8 /\ q[2] \in 2 .. 8
      BY <2>1, <2>4
    <3> HIDE DEF runs
    <3> QED
      BY <3>1, <3>2
  <2>6. best \in runs
    <3> HIDE DEF runs
    <3> QED
      BY <2>4, <2>5
  <2>7. Address!Best(w) = [base |-> best[1], len |-> best[2]]
    <3> DEFINE R == runs
    <3>1. R # {}
      BY <1>2
    <3> QED
      BY <3>1 DEF Address!Best
  <2> DEFINE b == best[1]
             l == best[2]
  <2>8. b \in 1 .. 8 /\ l \in 2 .. 8 /\ l = Address!ZeroesFrom(w, b)
    <3> HIDE DEF best
    <3> QED
      BY <2>6
  <2>9. Address!Best(w).base = b /\ Address!Best(w).len = l
    <3> HIDE DEF best
    <3> QED
      BY <2>7
  <2> HIDE DEF b, l
  <2>10. l \in 0 .. 9 - b /\ \A i \in b .. b + l - 1 : w[i] = 0
    BY <2>8, ZeroesThere
  <2>11. IsBest(w, b, l)
    BY <2>8, <2>10 DEF IsBest
  <2> QED
    BY <2>9, <2>11
<1> QED
  BY <1>1, <1>2

Hex(v) == Address!Digits(v, 16)

\* The characters of an IPv6 address without dots.
Plain == 0 .. Address!Colon

LEMMA PlainIsNat == \A c : c \in Plain <=> c \in Nat /\ c < 17
BY DEF Plain, Address!Colon

LEMMA PlainChars == Plain \subseteq Chars /\ Address!Dot \notin Plain /\ Address!Colon \in Plain
BY DEF Plain, Chars, Address!Colon, Address!Dot, Address!Other

LEMMA HexDigits ==
    ASSUME NEW v \in Nat, v < 65536
    PROVE  /\ v < 16 => Hex(v) = <<v>>
           /\ v >= 16 /\ v < 256 => Hex(v) = <<v \div 16, v % 16>>
           /\ v >= 256 /\ v < 4096 => Hex(v) = <<v \div 256, (v \div 16) % 16, v % 16>>
           /\ v >= 4096 =>
                 Hex(v) = <<v \div 4096, (v \div 256) % 16, (v \div 16) % 16, v % 16>>
<1> DEFINE place == <<1, 16, 256, 4096>>
           Fits(k) == (k < 4 => v < place[k + 1]) /\ (k > 1 => v >= place[k])
           n == CHOOSE k \in 1 .. 4 : Fits(k)
           F(k) == [i \in 1 .. k |-> (v \div place[k - i + 1]) % 16]
<1>1. Hex(v) = F(n)
  BY DEF Hex, Address!Digits
<1>2. CASE v < 16
  <2>1. n = 1
    BY <1>2
  <2>2. F(1) = <<v>>
    <3>1. F(1)[1] = v
      BY <1>2
    <3>2. F(1) = [i \in 1 .. 1 |-> F(1)[i]]
      OBVIOUS
    <3> QED
      BY <3>1, <3>2, Tuple1
  <2> HIDE DEF n, F
  <2> QED
    BY <1>1, <1>2, <2>1, <2>2
<1>3. CASE v >= 16 /\ v < 256
  <2>1. n = 2
    BY <1>3
  <2>2. F(2) = <<v \div 16, v % 16>>
    <3>1. F(2)[1] = v \div 16 /\ F(2)[2] = v % 16
      BY <1>3
    <3>2. F(2) = [i \in 1 .. 2 |-> F(2)[i]]
      OBVIOUS
    <3> HIDE DEF F
    <3> QED
      BY <3>1, <3>2, Tuple2
  <2> HIDE DEF n, F
  <2> QED
    BY <1>1, <1>3, <2>1, <2>2
<1>4. CASE v >= 256 /\ v < 4096
  <2>1. n = 3
    BY <1>4
  <2>2. F(3) = <<v \div 256, (v \div 16) % 16, v % 16>>
    <3>1. F(3)[1] = v \div 256 /\ F(3)[2] = (v \div 16) % 16 /\ F(3)[3] = v % 16
      BY <1>4
    <3>2. F(3) = [i \in 1 .. 3 |-> F(3)[i]]
      OBVIOUS
    <3> HIDE DEF F
    <3> QED
      BY <3>1, <3>2, Tuple3
  <2> HIDE DEF n, F
  <2> QED
    BY <1>1, <1>4, <2>1, <2>2
<1>5. CASE v >= 4096
  <2>1. n = 4
    BY <1>5
  <2>2. F(4) = <<v \div 4096, (v \div 256) % 16, (v \div 16) % 16, v % 16>>
    <3>1. F(4)[1] = v \div 4096 /\ F(4)[2] = (v \div 256) % 16 /\ F(4)[3] = (v \div 16) % 16
            /\ F(4)[4] = v % 16
      BY <1>5
    <3>2. F(4) = [i \in 1 .. 4 |-> F(4)[i]]
      OBVIOUS
    <3> HIDE DEF F
    <3> QED
      BY <3>1, <3>2, Tuple4
  <2> HIDE DEF n, F
  <2> QED
    BY <1>1, <1>5, <2>1, <2>2
<1> QED
  BY <1>2, <1>3, <1>4, <1>5

\* The digits of a word, the first of which is no colon.
LEMMA HexTyped ==
    ASSUME NEW v \in WordValues
    PROVE  Hex(v) \in Seq(Plain) /\ Len(Hex(v)) > 0 /\ Hex(v)[1] # Address!Colon
<1>0. v \in Nat /\ v < 65536
  BY WordIsNat
<1>6. \A c : c \in Nat /\ c < 16 => c \in Plain /\ c # Address!Colon
  BY PlainIsNat DEF Address!Colon
<1>1. CASE v < 16
  <2>1. Hex(v) = <<v>>
    BY <1>0, <1>1, HexDigits
  <2> QED
    BY <1>0, <1>1, <1>6, <2>1
<1>2. CASE v >= 16 /\ v < 256
  <2>1. Hex(v) = <<v \div 16, v % 16>>
    BY <1>0, <1>2, HexDigits
  <2>2. v \div 16 \in Nat /\ v \div 16 < 16 /\ v % 16 \in Nat /\ v % 16 < 16
    BY <1>0, <1>2
  <2> QED
    BY <1>6, <2>1, <2>2
<1>3. CASE v >= 256 /\ v < 4096
  <2>1. Hex(v) = <<v \div 256, (v \div 16) % 16, v % 16>>
    BY <1>0, <1>3, HexDigits
  <2>2. v \div 256 \in Nat /\ v \div 256 < 16 /\ (v \div 16) % 16 \in Nat /\ (v \div 16) % 16 < 16
          /\ v % 16 \in Nat /\ v % 16 < 16
    BY <1>0, <1>3
  <2> QED
    BY <1>6, <2>1, <2>2
<1>4. CASE v >= 4096
  <2>1. Hex(v) = <<v \div 4096, (v \div 256) % 16, (v \div 16) % 16, v % 16>>
    BY <1>0, <1>4, HexDigits
  <2>2. v \div 4096 \in Nat /\ v \div 4096 < 16 /\ (v \div 256) % 16 \in Nat /\ (v \div 256) % 16 < 16
          /\ (v \div 16) % 16 \in Nat /\ (v \div 16) % 16 < 16 /\ v % 16 \in Nat /\ v % 16 < 16
    BY <1>0, <1>4
  <2> QED
    BY <1>6, <2>1, <2>2
<1> QED
  BY <1>0, <1>1, <1>2, <1>3, <1>4

-----------------------------------------------------------------------------
(* inet_pton6 reads the words inet_ntop6 writes *)

\* What inet_pton6 knows once it is through p.
Known(s, p) == Address!WordsRead(s)[Len(p)]

\* Behind some digits of a word of value v, and between words: the words before
\* are x, and the double colon stands behind the first c of them.
Mid(st, x, v, c) ==
    /\ st \in WordStates /\ st.ok /\ ~st.over
    /\ st.saw /\ st.val = v /\ st.words = x /\ st.colonp = c

Between(st, x, c) ==
    /\ st \in WordStates /\ st.ok /\ ~st.over
    /\ ~st.saw /\ st.val = 0 /\ st.words = x /\ st.colonp = c

LEMMA LongerLen ==
    ASSUME NEW p, NEW r, NEW c, Longer(r, p, c)
    PROVE  Len(p) \in Nat /\ Len(r) = Len(p) + 1 /\ r[Len(p) + 1] = c
<1>1. p \in Seq(Chars) /\ c \in Chars /\ r = Append(p, c)
  BY AppendIsConcat DEF Longer
<1> QED
  BY <1>1, AppendProperties, LenProperties

LEMMA NextKnown ==
    ASSUME NEW s \in Seq(Chars), NEW p, NEW r, NEW ch, Longer(r, p, ch), Starts(s, r)
    PROVE  /\ Len(r) \in 1 .. Len(s) /\ s[Len(r)] = ch
           /\ Known(s, r) = Address!WordStep(s, Known(s, p), Len(r))
           /\ Known(s, r) \in WordStates
<1> DEFINE n == Len(p)
           m == Len(r)
           l == Len(s)
<1>1. n \in Nat /\ m = n + 1 /\ r[n + 1] = ch /\ l \in Nat
  BY LongerLen, LenProperties
<1> HIDE DEF n, m, l
<1>2. m \in 1 .. l /\ s[m] = ch /\ m - 1 = n /\ m \in 0 .. l
  <2>1. m <= l /\ \A i \in 1 .. m : s[i] = r[i]
    BY DEF Starts, m, l
  <2> QED
    BY <1>1, <2>1
<1>3. Address!WordsRead(s)[m] = Address!WordStep(s, Address!WordsRead(s)[m - 1], m)
        /\ Address!WordsRead(s)[m] \in WordStates
  BY <1>2, WordsUnfold DEF l
<1> QED
  BY <1>2, <1>3 DEF Known, n, m, l

LEMMA DigitMid ==
    ASSUME NEW s \in Seq(Chars), NEW p, NEW r, NEW ch \in Nat, ch < 16, Longer(r, p, ch), Starts(s, r),
           NEW x, NEW v \in Nat, NEW c, NEW w, w = v * 16 + ch, w < 65536,
           Mid(Known(s, p), x, v, c)
    PROVE  Mid(Known(s, r), x, w, c)
<1> DEFINE st == Known(s, p)
           next == Known(s, r)
<1>1. next = Address!WordStep(s, st, Len(r)) /\ s[Len(r)] = ch /\ next \in WordStates
  BY NextKnown
<1>2. ch \in 0 .. 15 /\ w <= 65535
  OBVIOUS
<1> HIDE DEF st, next
<1>3. Mid(st, x, v, c)
  BY DEF st
<1>4. next = [st EXCEPT !.val = st.val * 16 + ch, !.saw = TRUE, !.ok = st.val * 16 + ch <= 65535]
  BY <1>1, <1>2, <1>3 DEF Address!WordStep, Mid
<1> DEFINE o == st.val * 16 + ch <= 65535
           e == st.val * 16 + ch
<1>5. o = TRUE /\ e = w
  BY <1>2, <1>3 DEF Mid
<1>8. next = [st EXCEPT !.val = e, !.saw = TRUE, !.ok = o]
  BY <1>4
<1> HIDE DEF o, e
<1>6. next.ok /\ next.val = e /\ next.saw /\ next.words = st.words /\ next.over = st.over
        /\ next.colonp = st.colonp
  BY <1>3, <1>5, <1>8 DEF Mid, WordStates
<1>9. Mid(next, x, w, c)
  BY <1>1, <1>3, <1>5, <1>6 DEF Mid
<1> QED
  BY <1>9 DEF next

LEMMA DigitBetween ==
    ASSUME NEW s \in Seq(Chars), NEW p, NEW r, NEW ch \in Nat, ch < 16, Longer(r, p, ch), Starts(s, r),
           NEW x, NEW c, Between(Known(s, p), x, c)
    PROVE  Mid(Known(s, r), x, ch, c)
<1> DEFINE st == Known(s, p)
           next == Known(s, r)
<1>1. next = Address!WordStep(s, st, Len(r)) /\ s[Len(r)] = ch /\ next \in WordStates
  BY NextKnown
<1>2. ch \in 0 .. 15 /\ ch <= 65535 /\ 0 * 16 + ch = ch
  OBVIOUS
<1> HIDE DEF st, next
<1>3. Between(st, x, c)
  BY DEF st
<1>4. next = [st EXCEPT !.val = st.val * 16 + ch, !.saw = TRUE, !.ok = st.val * 16 + ch <= 65535]
  BY <1>1, <1>2, <1>3 DEF Address!WordStep, Between
<1> DEFINE o == st.val * 16 + ch <= 65535
           e == st.val * 16 + ch
<1>5. o = TRUE /\ e = ch
  BY <1>2, <1>3 DEF Between
<1>8. next = [st EXCEPT !.val = e, !.saw = TRUE, !.ok = o]
  BY <1>4
<1> HIDE DEF o, e
<1>6. next.ok /\ next.val = e /\ next.saw /\ next.words = st.words /\ next.over = st.over
        /\ next.colonp = st.colonp
  BY <1>3, <1>5, <1>8 DEF Between, WordStates
<1>9. Mid(next, x, ch, c)
  BY <1>1, <1>3, <1>5, <1>6 DEF Mid, Between
<1> QED
  BY <1>9 DEF next

LEMMA ColonEndsWord ==
    ASSUME NEW s \in Seq(Chars), NEW p, NEW r, Longer(r, p, Address!Colon), Starts(s, r),
           Len(r) < Len(s),
           NEW x, Len(x) < 8, NEW v, NEW c, Mid(Known(s, p), x, v, c)
    PROVE  Between(Known(s, r), Append(x, v), c)
<1> DEFINE st == Known(s, p)
           next == Known(s, r)
           i == Len(r)
<1>1. next = Address!WordStep(s, st, i) /\ s[i] = Address!Colon /\ next \in WordStates
  BY NextKnown
<1>2. Address!Colon \notin 0 .. 15 /\ i < Len(s)
  BY DEF Address!Colon
<1> HIDE DEF st, next, i
<1>3. Mid(st, x, v, c)
  BY DEF st
<1>4. next = [st EXCEPT !.cur = i + 1, !.ok = i < Len(s) /\ Len(st.words) < 8,
                       !.words = Append(@, st.val), !.saw = FALSE, !.val = 0]
  BY <1>1, <1>2, <1>3 DEF Address!WordStep, Mid
<1> DEFINE o == i < Len(s) /\ Len(st.words) < 8
           e == Append(st.words, st.val)
<1>5. o = TRUE /\ e = Append(x, v)
  BY <1>2, <1>3 DEF Mid
<1>6. next = [st EXCEPT !.cur = i + 1, !.ok = o, !.words = e, !.saw = FALSE, !.val = 0]
  BY <1>4
<1> HIDE DEF o, e
<1>7. next.ok /\ next.words = e /\ ~next.saw /\ next.val = 0 /\ next.over = st.over
        /\ next.colonp = st.colonp
  BY <1>3, <1>5, <1>6 DEF Mid, WordStates
<1>8. Between(next, Append(x, v), c)
  BY <1>1, <1>3, <1>5, <1>7 DEF Mid, Between
<1> QED
  BY <1>8 DEF next

LEMMA ColonBetween ==
    ASSUME NEW s \in Seq(Chars), NEW p, NEW r, Longer(r, p, Address!Colon), Starts(s, r),
           NEW x, Between(Known(s, p), x, -1)
    PROVE  Between(Known(s, r), x, Len(x))
<1> DEFINE st == Known(s, p)
           next == Known(s, r)
           i == Len(r)
<1>1. next = Address!WordStep(s, st, i) /\ s[i] = Address!Colon /\ next \in WordStates
  BY NextKnown
<1>2. Address!Colon \notin 0 .. 15
  BY DEF Address!Colon
<1> HIDE DEF st, next, i
<1>3. Between(st, x, -1)
  BY DEF st
<1>4. next = [st EXCEPT !.cur = i + 1, !.ok = st.colonp = -1, !.colonp = Len(st.words)]
  BY <1>1, <1>2, <1>3 DEF Address!WordStep, Between
<1> DEFINE o == st.colonp = -1
           e == Len(st.words)
<1>5. o = TRUE /\ e = Len(x)
  BY <1>3 DEF Between
<1>6. next = [st EXCEPT !.cur = i + 1, !.ok = o, !.colonp = e]
  BY <1>4
<1> HIDE DEF o, e
<1>7. next.ok /\ next.words = st.words /\ next.saw = st.saw /\ next.val = st.val
        /\ next.over = st.over /\ next.colonp = e
  BY <1>3, <1>5, <1>6 DEF Between, WordStates
<1>8. Between(next, x, Len(x))
  BY <1>1, <1>3, <1>5, <1>7 DEF Between
<1> QED
  BY <1>8 DEF next

LEMMA FourText ==
    ASSUME NEW c \in Chars, NEW d \in Chars, NEW e \in Chars, NEW g \in Chars
    PROVE  <<c, d, e, g>> = Cat(Cat(Cat(<<c>>, <<d>>), <<e>>), <<g>>)
             /\ <<c, d, e, g>> \in Seq(Chars)
<1> DEFINE p == <<c, d, e>>
           f == Append(p, g)
<1>1. p \in Seq(Chars) /\ Len(p) = 3 /\ p[1] = c /\ p[2] = d /\ p[3] = e
        /\ p = Cat(Cat(<<c>>, <<d>>), <<e>>)
  BY ThreeText
<1> HIDE DEF p
<1>2. /\ f \in Seq(Chars) /\ Len(f) = 4 /\ f[1] = c /\ f[2] = d /\ f[3] = e /\ f[4] = g
      /\ f = Cat(p, <<g>>)
  <2> DEFINE n == Len(p)
  <2>0. n = 3
    BY <1>1
  <2>1. f \in Seq(Chars) /\ Len(f) = n + 1 /\ f[n + 1] = g /\ \A i \in 1 .. n : f[i] = p[i]
    <3>1. p \in Seq(Chars)
      BY <1>1
    <3> QED
      BY <3>1, AppendProperties
  <2> HIDE DEF n
  <2>2. f = Cat(p, <<g>>)
    BY <1>1, OneText
  <2> HIDE DEF f
  <2>3. n + 1 = 4 /\ 1 \in 1 .. n /\ 2 \in 1 .. n /\ 3 \in 1 .. n
    BY <2>0
  <2> QED
    BY <1>1, <2>1, <2>2, <2>3
<1> HIDE DEF f
<1>3. f = [i \in 1 .. 4 |-> f[i]]
  BY <1>2, LenProperties
<1>4. f = <<c, d, e, g>>
  BY <1>2, <1>3, Tuple4
<1> QED
  BY <1>1, <1>2, <1>4

\* One digit behind what is known.
LEMMA LastDigit ==
    ASSUME NEW s \in Seq(Chars), NEW p \in Seq(Chars), NEW ch \in Nat, ch < 16,
           NEW t, t = Cat(p, <<ch>>), Starts(s, t)
    PROVE  t \in Seq(Chars) /\ Longer(t, p, ch) /\ Starts(s, p)
<1>1. ch \in Chars
  BY DEF Chars, Address!Other
<1>2. Longer(t, p, ch)
  BY <1>1, OneText
<1> QED
  BY <1>2, Longest

LEMMA ReadsHex ==
    ASSUME NEW s \in Seq(Chars), NEW p \in Seq(Chars), NEW v \in WordValues,
           NEW t, t = Cat(p, Hex(v)), Starts(s, t), NEW x, NEW k, Between(Known(s, p), x, k)
    PROVE  Mid(Known(s, t), x, v, k)
<1>0. v \in Nat /\ v < 65536
  BY WordIsNat
<1>1. \A c : c \in Nat /\ c < 16 => c \in Chars /\ <<c>> \in Seq(Chars)
  BY DEF Chars, Address!Other
<1>2. CASE v < 16
  <2>1. Hex(v) = <<v>>
    BY <1>0, <1>2, HexDigits
  <2> QED
    BY SMTT(30), <1>0, <1>2, <2>1, LastDigit, DigitBetween
<1>3. CASE v >= 16 /\ v < 256
  <2> DEFINE a == v \div 16
             b == v % 16
             q == Cat(p, <<a>>)
  <2>1. a \in Nat /\ a < 16 /\ b \in Nat /\ b < 16 /\ v = a * 16 + b
    BY <1>0, <1>3
  <2>2. Hex(v) = <<a, b>>
    BY <1>0, <1>3, HexDigits
  <2> HIDE DEF a, b
  <2>3. q \in Seq(Chars) /\ t = Cat(q, <<b>>)
    <3>1. a \in Chars /\ b \in Chars /\ <<a>> \in Seq(Chars) /\ <<b>> \in Seq(Chars)
      BY <1>1, <2>1
    <3>2. Hex(v) = Cat(<<a>>, <<b>>)
      BY <2>2, <3>1, TwoText
    <3>3. Cat(p, Cat(<<a>>, <<b>>)) = Cat(q, <<b>>)
      BY <3>1, CatCat
    <3> QED
      BY <3>1, <3>2, <3>3, CatText
  <2>4. Longer(t, q, b) /\ Starts(s, q)
    <3> HIDE DEF q
    <3> QED
      BY <2>1, <2>3, LastDigit
  <2>5. Longer(q, p, a)
    BY <2>1, <2>4, LastDigit
  <2> HIDE DEF q
  <2>6. Mid(Known(s, q), x, a, k)
    BY <2>1, <2>4, <2>5, DigitBetween
  <2> QED
    BY <1>0, <2>1, <2>4, <2>6, DigitMid
<1>4. CASE v >= 256 /\ v < 4096
  <2> DEFINE a == v \div 256
             b == (v \div 16) % 16
             c == v % 16
             ab == v \div 16
             q == Cat(p, <<a>>)
             r == Cat(q, <<b>>)
  <2>1. /\ a \in Nat /\ a < 16 /\ b \in Nat /\ b < 16 /\ c \in Nat /\ c < 16
        /\ v = ab * 16 + c /\ ab = a * 16 + b /\ ab \in Nat /\ ab < 65536
    BY <1>0, <1>4
  <2>2. Hex(v) = <<a, b, c>>
    BY <1>0, <1>4, HexDigits
  <2> HIDE DEF a, b, c, ab
  <2>3. q \in Seq(Chars) /\ r \in Seq(Chars) /\ t = Cat(r, <<c>>)
    <3>1. a \in Chars /\ b \in Chars /\ c \in Chars
            /\ <<a>> \in Seq(Chars) /\ <<b>> \in Seq(Chars) /\ <<c>> \in Seq(Chars)
      BY <1>1, <2>1
    <3> DEFINE y == Cat(<<a>>, <<b>>)
               z == <<c>>
    <3>2. Hex(v) = Cat(y, z)
      BY <2>2, <3>1, ThreeText
    <3>3. y \in Seq(Chars) /\ z \in Seq(Chars) /\ q \in Seq(Chars) /\ r \in Seq(Chars)
      BY <3>1, CatText
    <3>4. Cat(p, y) = r
      BY <3>1, CatCat
    <3> HIDE DEF y, z, r
    <3>5. Cat(p, Cat(y, z)) = Cat(Cat(p, y), z)
      BY <3>3, CatCat
    <3> QED
      BY <3>2, <3>3, <3>4, <3>5 DEF z
  <2>4. Longer(t, r, c) /\ Starts(s, r)
    <3>1. c \in Nat /\ c < 16 /\ r \in Seq(Chars) /\ t = Cat(r, <<c>>)
      BY <2>1, <2>3
    <3> HIDE DEF q, r
    <3> QED
      BY <3>1, LastDigit
  <2>5. Longer(r, q, b) /\ Starts(s, q)
    <3>1. b \in Nat /\ b < 16 /\ q \in Seq(Chars) /\ r = Cat(q, <<b>>)
      BY <2>1, <2>3
    <3> HIDE DEF q, r
    <3> QED
      BY <2>4, <3>1, LastDigit
  <2>6. Longer(q, p, a)
    BY <2>1, <2>5, LastDigit
  <2> HIDE DEF q, r
  <2>7. Mid(Known(s, q), x, a, k)
    BY <2>1, <2>5, <2>6, DigitBetween
  <2>8. Mid(Known(s, r), x, ab, k)
    BY <2>1, <2>4, <2>5, <2>7, DigitMid
  <2> QED
    BY <1>0, <2>1, <2>4, <2>8, DigitMid
<1>5. CASE v >= 4096
  <2> DEFINE a == v \div 4096
             b == (v \div 256) % 16
             c == (v \div 16) % 16
             d == v % 16
             ab == v \div 256
             abc == v \div 16
             q == Cat(p, <<a>>)
             r == Cat(q, <<b>>)
             u == Cat(r, <<c>>)
  <2>1. /\ a \in Nat /\ a < 16 /\ b \in Nat /\ b < 16 /\ c \in Nat /\ c < 16 /\ d \in Nat /\ d < 16
        /\ v = abc * 16 + d /\ abc = ab * 16 + c /\ ab = a * 16 + b
        /\ ab \in Nat /\ ab < 65536 /\ abc \in Nat /\ abc < 65536
    BY <1>0, <1>5
  <2>2. Hex(v) = <<a, b, c, d>>
    BY <1>0, <1>5, HexDigits
  <2> HIDE DEF a, b, c, d, ab, abc
  <2>3. q \in Seq(Chars) /\ r \in Seq(Chars) /\ u \in Seq(Chars) /\ t = Cat(u, <<d>>)
    <3>1. a \in Chars /\ b \in Chars /\ c \in Chars /\ d \in Chars /\ <<a>> \in Seq(Chars)
            /\ <<b>> \in Seq(Chars) /\ <<c>> \in Seq(Chars) /\ <<d>> \in Seq(Chars)
      BY <1>1, <2>1
    <3> DEFINE y == Cat(<<a>>, <<b>>)
               z == <<c>>
               o == <<d>>
    <3>2. Hex(v) = Cat(Cat(y, z), o)
      BY SMTT(30), <2>2, <3>1, FourText
    <3>3. y \in Seq(Chars) /\ z \in Seq(Chars) /\ o \in Seq(Chars)
            /\ q \in Seq(Chars) /\ r \in Seq(Chars) /\ u \in Seq(Chars)
      BY <3>1, CatText
    <3>4. Cat(p, y) = r
      BY <3>1, CatCat
    <3>5. u = Cat(r, z)
      OBVIOUS
    <3> HIDE DEF y, z, o, r, u
    <3>6. Cat(p, Cat(y, z)) = Cat(Cat(p, y), z)
      BY <3>3, CatCat
    <3>7. Cat(y, z) \in Seq(Chars)
      BY <3>3, CatText
    <3>8. Cat(p, Cat(Cat(y, z), o)) = Cat(Cat(p, Cat(y, z)), o)
      BY <3>3, <3>7, CatCat
    <3> QED
      BY <3>2, <3>3, <3>4, <3>5, <3>6, <3>8 DEF o
  <2>4. Longer(t, u, d) /\ Starts(s, u)
    <3>1. d \in Nat /\ d < 16 /\ u \in Seq(Chars) /\ t = Cat(u, <<d>>)
      BY <2>1, <2>3
    <3> HIDE DEF q, r, u
    <3> QED
      BY <3>1, LastDigit
  <2>5. Longer(u, r, c) /\ Starts(s, r)
    <3>1. c \in Nat /\ c < 16 /\ r \in Seq(Chars) /\ u = Cat(r, <<c>>)
      BY <2>1, <2>3
    <3> HIDE DEF q, r, u
    <3> QED
      BY <2>4, <3>1, LastDigit
  <2>6. Longer(r, q, b) /\ Starts(s, q)
    <3>1. b \in Nat /\ b < 16 /\ q \in Seq(Chars) /\ r = Cat(q, <<b>>)
      BY <2>1, <2>3
    <3> HIDE DEF q, r, u
    <3> QED
      BY <2>5, <3>1, LastDigit
  <2>7. Longer(q, p, a)
    BY <2>1, <2>6, LastDigit
  <2> HIDE DEF q, r, u
  <2>8. Mid(Known(s, q), x, a, k)
    BY <2>1, <2>6, <2>7, DigitBetween
  <2>9. Mid(Known(s, r), x, ab, k)
    BY <2>1, <2>5, <2>6, <2>8, DigitMid
  <2>10. Mid(Known(s, u), x, abc, k)
    BY <2>1, <2>4, <2>5, <2>9, DigitMid
  <2> QED
    BY <1>0, <2>1, <2>4, <2>10, DigitMid
<1> QED
  BY <1>0, <1>2, <1>3, <1>4, <1>5

-----------------------------------------------------------------------------
(* The words around a run of zeroes *)

\* Word i is one of the run.
InRun(head, len, i) == i >= head /\ i < head + len

\* The words before word k that are written, and where the double colon is then.
Kept(head, len, k) == IF k < head THEN k - 1 ELSE k - 1 - len
DoubleAt(head, len, k) == IF len = 0 \/ k < head THEN -1 ELSE head - 1

\* The first m of the words that are written.
Gathered(w, head, len, x, m) ==
    /\ x \in Seq(WordValues) /\ Len(x) = m
    /\ \A j \in 1 .. m : x[j] = IF j < head THEN w[j] ELSE w[j + len]

\* What is known behind the text of the words up to k.
Shape(w, head, len, st, k) ==
    IF InRun(head, len, k)
    THEN \E x : Gathered(w, head, len, x, head - 1) /\ Between(st, x, -1)
    ELSE \E x : Gathered(w, head, len, x, Kept(head, len, k))
                /\ Mid(st, x, w[k], DoubleAt(head, len, k))

\* The text of word i.
WordText(w, head, len, i) ==
    IF InRun(head, len, i) THEN IF i = head THEN <<Address!Colon>> ELSE <<>>
    ELSE IF i = 1 THEN Hex(w[1]) ELSE Cat(<<Address!Colon>>, Hex(w[i]))

\* The same where the first colon is left out, which inet_pton6 skips.
Skipped(w, head, len) ==
    [i \in 1 .. 8 |-> IF i = 1 /\ InRun(head, len, 1) THEN <<>> ELSE WordText(w, head, len, i)]

Trail(head, len) == IF len > 0 /\ head + len = 9 THEN <<Address!Colon>> ELSE <<>>

LEMMA GatheredNext ==
    ASSUME NEW w, NEW head \in Nat, NEW len \in Nat, NEW x, NEW m \in Nat,
           Gathered(w, head, len, x, m), NEW v \in WordValues,
           v = IF m + 1 < head THEN w[m + 1] ELSE w[m + 1 + len]
    PROVE  Gathered(w, head, len, Append(x, v), m + 1)
<1> DEFINE y == Append(x, v)
<1>1. y \in Seq(WordValues) /\ Len(y) = Len(x) + 1
        /\ (\A i \in 1 .. Len(x) : y[i] = x[i]) /\ y[Len(x) + 1] = v
  BY AppendProperties DEF Gathered
<1>2. Len(x) = m
  BY DEF Gathered
<1> HIDE DEF y
<1>3. y \in Seq(WordValues) /\ Len(y) = m + 1 /\ (\A i \in 1 .. m : y[i] = x[i]) /\ y[m + 1] = v
  BY <1>1, <1>2
<1>4. ASSUME NEW j \in 1 .. m + 1 PROVE y[j] = IF j < head THEN w[j] ELSE w[j + len]
  <2>1. CASE j = m + 1
    BY <1>3, <2>1
  <2>2. CASE j \in 1 .. m
    BY <1>3, <2>2 DEF Gathered
  <2> QED
    BY <2>1, <2>2
<1>5. Gathered(w, head, len, y, m + 1)
  BY <1>3, <1>4 DEF Gathered
<1> QED
  BY <1>5 DEF y

LEMMA WordTextTyped ==
    ASSUME NEW w \in [1 .. 8 -> WordValues], NEW head, NEW len, NEW i \in 1 .. 8
    PROVE  WordText(w, head, len, i) \in Seq(Plain) /\ Skipped(w, head, len)[i] \in Seq(Plain)
<1>1. <<Address!Colon>> \in Seq(Plain) /\ <<>> \in Seq(Plain)
  BY PlainChars
<1>2. w[i] \in WordValues /\ w[1] \in WordValues
  OBVIOUS
<1>3. Hex(w[i]) \in Seq(Plain) /\ Hex(w[1]) \in Seq(Plain)
  BY <1>2, HexTyped
<1>4. Cat(<<Address!Colon>>, Hex(w[i])) \in Seq(Plain)
  BY <1>1, <1>3, ConcatProperties DEF Cat
<1> QED
  BY <1>1, <1>3, <1>4 DEF WordText, Skipped

LEMMA PlainText == ASSUME NEW p \in Seq(Plain) PROVE p \in Seq(Chars)
BY PlainChars, SeqMonotonic

LEMMA CatNothing == ASSUME NEW p \in Seq(Chars) PROVE Cat(p, <<>>) = p /\ Cat(<<>>, p) = p
BY ConcatEmptySeq DEF Cat

LEMMA CatLen ==
    ASSUME NEW p \in Seq(Chars), NEW q \in Seq(Chars) PROVE Len(Cat(p, q)) = Len(p) + Len(q)
BY ConcatProperties DEF Cat

LEMMA MoreToCome ==
    ASSUME NEW s \in Seq(Chars), NEW p \in Seq(Chars), NEW q \in Seq(Chars), Len(q) > 0,
           NEW r, r = Cat(p, q), Starts(s, r)
    PROVE  Len(p) < Len(s)
<1> DEFINE k == Len(p)
           l == Len(q)
           m == Len(r)
           n == Len(s)
<1>1. k \in Nat /\ l \in Nat /\ n \in Nat /\ l > 0 /\ m = k + l
  BY CatLen, LenProperties
<1>2. m <= n
  BY DEF Starts
<1> HIDE DEF k, l, m, n
<1>3. k < n
  BY <1>1, <1>2
<1> QED
  BY <1>3 DEF k, n

\* A text and what stands behind the words up to each: s is the last of them and
\* the colon behind a run at the end.
Written(s, g, w, head, len) ==
    /\ w \in [1 .. 8 -> WordValues]
    /\ IsBest(w, head, len)
    /\ Together(g, Skipped(w, head, len), 8, Plain)
    /\ s = Cat(g[8], Trail(head, len))

LEMMA BestNat ==
    ASSUME NEW w, NEW head, NEW len, IsBest(w, head, len)
    PROVE  /\ head \in Nat /\ len \in Nat /\ head > 0 /\ head < 9 /\ head + len <= 9
           /\ len = 0 => head = 1
           /\ \A i \in Nat : InRun(head, len, i) => w[i] = 0
<1>1. head \in Nat /\ len \in Nat /\ head > 0 /\ head < 9 /\ head + len <= 9
      /\ (len = 0 => head = 1)
  BY DEF IsBest
<1>2. ASSUME NEW i \in Nat, InRun(head, len, i) PROVE w[i] = 0
  <2>1. i \in head .. head + len - 1
    BY <1>1, <1>2 DEF InRun
  <2> QED
    BY <2>1 DEF IsBest
<1> QED
  BY <1>1, <1>2

LEMMA WrittenText ==
    ASSUME NEW s, NEW g, NEW w, NEW head, NEW len, Written(s, g, w, head, len)
    PROVE  /\ s \in Seq(Chars) /\ Starts(s, s) /\ Starts(s, g[8])
           /\ \A i \in 1 .. 8 : g[i] \in Seq(Chars) /\ Starts(s, g[i])
           /\ \A i \in 1 .. 7 : g[i + 1] = Cat(g[i], Skipped(w, head, len)[i + 1])
           /\ \A i \in 1 .. 8 : Skipped(w, head, len)[i] \in Seq(Chars)
<1>1. \A i \in 1 .. 8 : g[i] \in Seq(Chars)
  BY PlainText DEF Written, Together
<1>2. \A i \in 1 .. 7 : g[i + 1] = Cat(g[i], Skipped(w, head, len)[i + 1])
  BY SMTT(30) DEF Written, Together
<1>3. \A i \in 1 .. 8 : Skipped(w, head, len)[i] \in Seq(Chars)
  BY WordTextTyped, PlainText DEF Written
<1>4. Trail(head, len) \in Seq(Chars)
  BY PlainChars DEF Trail
<1>5. s \in Seq(Chars) /\ s = Cat(g[8], Trail(head, len)) /\ g[8] \in Seq(Chars)
  BY <1>1, <1>4, CatText DEF Written
<1>6. Starts(s, s)
  BY <1>5, LenProperties DEF Starts
<1>7. Starts(s, g[8])
  BY <1>4, <1>5, <1>6, CatStarts
<1> DEFINE S == {i \in 0 .. 7 : Starts(s, g[8 - i])}
<1>8. 0 \in S
  BY <1>7
<1>9. ASSUME NEW i \in 0 .. 7 - 1, i \in S PROVE i + 1 \in S
  <2> DEFINE k == 8 - (i + 1)
  <2>1. k \in 1 .. 7 /\ k \in 1 .. 8 /\ k + 1 \in 1 .. 8 /\ k + 1 = 8 - i /\ i + 1 \in 0 .. 7
    OBVIOUS
  <2>2. Starts(s, g[k + 1])
    BY <1>9, <2>1
  <2> HIDE DEF k
  <2>3. g[k + 1] = Cat(g[k], Skipped(w, head, len)[k + 1]) /\ g[k] \in Seq(Chars)
          /\ Skipped(w, head, len)[k + 1] \in Seq(Chars)
    BY <1>1, <1>2, <1>3, <2>1
  <2>4. Starts(s, g[k])
    BY <1>5, <2>2, <2>3, CatStarts
  <2> QED
    BY <2>1, <2>4 DEF k
<1>10. 0 .. 7 \subseteq S
  <2> HIDE DEF S
  <2> QED
    BY <1>8, <1>9, UpTo
<1>11. ASSUME NEW i \in 1 .. 8 PROVE Starts(s, g[i])
  <2>1. 8 - i \in S /\ 8 - (8 - i) = i
    BY <1>10
  <2> QED
    BY <2>1
<1> QED
  BY <1>1, <1>2, <1>3, <1>5, <1>6, <1>7, <1>11

\* Nothing is written for a run but the first colon, and there is more behind it.
LEMMA RunIsShort ==
    ASSUME NEW s, NEW g, NEW w, NEW head, NEW len, Written(s, g, w, head, len), len > 0
    PROVE  /\ \A i \in 1 .. 8 : InRun(head, len, i) => g[i] = g[head]
           /\ Starts(s, Cat(g[head], <<Address!Colon>>)) /\ Len(g[head]) < Len(s)
<1>1. head \in Nat /\ len \in Nat /\ head > 0 /\ head < 9 /\ head + len <= 9
  BY BestNat DEF Written
<1>2. /\ s \in Seq(Chars) /\ Starts(s, s)
      /\ \A i \in 1 .. 8 : g[i] \in Seq(Chars) /\ Starts(s, g[i])
      /\ \A i \in 1 .. 7 : g[i + 1] = Cat(g[i], Skipped(w, head, len)[i + 1])
  BY WrittenText
<1> DEFINE S == {i \in 0 .. len - 1 : g[head + i] = g[head]}
           m == len - 1
<1>3. 0 \in S
  BY <1>1
<1>4. ASSUME NEW i \in 0 .. m - 1, i \in S PROVE i + 1 \in S
  <2> DEFINE k == head + i
  <2>1. k \in 1 .. 7 /\ k \in 1 .. 8 /\ k + 1 \in 1 .. 8 /\ k + 1 = head + (i + 1)
          /\ InRun(head, len, k + 1) /\ k + 1 # head /\ k + 1 # 1 /\ i + 1 \in 0 .. len - 1
    BY <1>1 DEF InRun
  <2>2. g[k] = g[head]
    BY <1>4
  <2> HIDE DEF k
  <2>3. Skipped(w, head, len)[k + 1] = <<>>
    BY <2>1 DEF Skipped, WordText
  <2>4. g[k + 1] = g[k]
    BY <1>2, <2>1, <2>3, CatNothing
  <2> QED
    BY <2>1, <2>2, <2>4
<1>5. 0 .. m \subseteq S
  <2>1. m \in Nat
    BY <1>1
  <2> HIDE DEF S, m
  <2> QED
    BY <1>3, <1>4, <2>1, UpTo
<1>6. ASSUME NEW i \in 1 .. 8, InRun(head, len, i) PROVE g[i] = g[head]
  <2>1. i - head \in 0 .. m /\ head + (i - head) = i
    BY <1>1, <1>6 DEF InRun
  <2>2. i - head \in S
    BY <1>5, <2>1
  <2> QED
    BY <2>1, <2>2
<1> DEFINE colon == <<Address!Colon>>
<1>7. colon \in Seq(Chars) /\ Len(colon) > 0
  BY PlainChars
<1>8. head \in 1 .. 8 /\ g[head] \in Seq(Chars)
  <2>1. head \in 1 .. 8
    BY <1>1
  <2> QED
    BY <1>2, <2>1
<1>9. head + len - 1 \in 1 .. 8 /\ g[head + len - 1] = g[head]
  <2>1. head + len - 1 \in 1 .. 8 /\ InRun(head, len, head + len - 1)
    BY <1>1 DEF InRun
  <2> QED
    BY <1>6, <2>1
<1> HIDE DEF colon
<1>10. Starts(s, Cat(g[head], colon))
  <2>1. CASE head + len = 9
    <3>1. head + len - 1 = 8 /\ Trail(head, len) = colon
      BY <1>1, <2>1 DEF Trail, colon
    <3> QED
      BY <1>2, <1>9, <3>1 DEF Written
  <2>2. CASE head + len # 9
    <3> DEFINE j == head + len
    <3>1. j \in 1 .. 8 /\ ~InRun(head, len, j) /\ j # 1 /\ j - 1 \in 1 .. 7 /\ j - 1 + 1 = j
      BY <1>1, <2>2 DEF InRun
    <3>2. g[j - 1] = g[head]
      <4> DEFINE k == head + len - 1
      <4>1. g[k] = g[head]
        BY <1>9
      <4>2. j - 1 = k
        BY <1>1
      <4> HIDE DEF k, j
      <4> QED
        BY <4>1, <4>2
    <3> HIDE DEF j
    <3>3. Skipped(w, head, len)[j] = Cat(colon, Hex(w[j])) /\ Starts(s, g[j])
      BY <1>2, <3>1 DEF Skipped, WordText, colon
    <3>4. g[j] = Cat(g[head], Cat(colon, Hex(w[j])))
      BY <1>2, <3>1, <3>2, <3>3
    <3>5. Hex(w[j]) \in Seq(Chars)
      BY <3>1, HexTyped, PlainText DEF Written
    <3>6. g[j] = Cat(Cat(g[head], colon), Hex(w[j])) /\ Cat(g[head], colon) \in Seq(Chars)
      BY ZenonT(40), <1>7, <1>8, <3>4, <3>5, CatCat, CatText
    <3> DEFINE r == Cat(g[head], colon)
    <3> HIDE DEF r
    <3>7. g[j] = Cat(r, Hex(w[j])) /\ r \in Seq(Chars)
      BY <3>6 DEF r
    <3>8. Starts(s, r)
      BY <1>2, <3>3, <3>5, <3>7, CatStarts
    <3> QED
      BY <3>8 DEF r
  <2> QED
    BY <2>1, <2>2
<1>11. Len(g[head]) < Len(s)
  BY <1>2, <1>7, <1>8, <1>10, MoreToCome
<1> QED
  BY <1>6, <1>10, <1>11 DEF colon

LEMMA FirstBetween ==
    ASSUME NEW s \in Seq(Chars), NEW e, e = <<>> PROVE Between(Known(s, e), <<>>, -1)
<1>1. Known(s, e) = FirstWord /\ Known(s, e) \in WordStates
  <2>1. Len(e) = 0 /\ 0 \in 0 .. Len(s)
    BY LenProperties
  <2> QED
    BY <2>1, WordsUnfold DEF Known
<1> QED
  BY <1>1 DEF FirstWord, Between

LEMMA FirstShape ==
    ASSUME NEW s, NEW g, NEW w, NEW head, NEW len, Written(s, g, w, head, len)
    PROVE  Shape(w, head, len, Known(s, g[1]), 1)
<1>1. head \in Nat /\ len \in Nat /\ head > 0 /\ (len = 0 => head = 1)
  BY BestNat DEF Written
<1>2. s \in Seq(Chars) /\ g[1] \in Seq(Chars) /\ Starts(s, g[1])
  BY WrittenText
<1> DEFINE e == <<>>
<1>3. e \in Seq(Chars) /\ e \in Seq(WordValues) /\ Len(e) = 0 /\ Between(Known(s, e), e, -1)
  BY <1>2, FirstBetween
<1>4. Gathered(w, head, len, e, 0)
  BY DEF Gathered
<1>5. g[1] = Skipped(w, head, len)[1]
  BY DEF Written, Together
<1>6. CASE InRun(head, len, 1)
  <2>1. g[1] = e /\ head - 1 = 0
    BY <1>1, <1>5, <1>6 DEF Skipped, InRun
  <2> HIDE DEF e
  <2> QED
    BY <1>3, <1>4, <1>6, <2>1 DEF Shape
<1>7. CASE ~InRun(head, len, 1)
  <2>1. g[1] = Hex(w[1]) /\ w[1] \in WordValues
    BY <1>5, <1>7 DEF Skipped, WordText, Written
  <2>2. Kept(head, len, 1) = 0 /\ DoubleAt(head, len, 1) = -1
    BY <1>1, <1>7 DEF Kept, DoubleAt, InRun
  <2>3. g[1] = Cat(e, Hex(w[1]))
    BY <1>2, <2>1, CatNothing
  <2> HIDE DEF e
  <2>4. Mid(Known(s, g[1]), e, w[1], -1)
    BY <1>2, <1>3, <2>1, <2>3, ReadsHex
  <2> QED
    BY <1>4, <1>7, <2>2, <2>4 DEF Shape
<1> QED
  BY <1>6, <1>7

\* A word behind a colon.
LEMMA ReadsColonWord ==
    ASSUME NEW s \in Seq(Chars), NEW p \in Seq(Chars), NEW v \in WordValues,
           NEW t, t = Cat(p, Cat(<<Address!Colon>>, Hex(v))), Starts(s, t)
    PROVE  \E r : /\ Longer(r, p, Address!Colon) /\ r \in Seq(Chars) /\ Starts(s, r)
                  /\ Len(r) < Len(s) /\ t = Cat(r, Hex(v))
<1> DEFINE colon == <<Address!Colon>>
           r == Cat(p, colon)
           h == Hex(v)
<1>1. colon \in Seq(Chars) /\ h \in Seq(Chars) /\ Len(h) > 0 /\ Address!Colon \in Chars
  BY PlainChars, HexTyped, PlainText
<1>2. Longer(r, p, Address!Colon)
  BY <1>1, OneText
<1> HIDE DEF colon, h
<1>3. r \in Seq(Chars) /\ t = Cat(r, h)
  BY <1>1, CatText, CatCat DEF colon, h
<1> HIDE DEF r
<1>4. Starts(s, r) /\ Len(r) < Len(s)
  BY <1>1, <1>3, CatStarts, MoreToCome
<1> QED
  BY <1>2, <1>3, <1>4 DEF h

LEMMA NextShape ==
    ASSUME NEW s, NEW g, NEW w, NEW head, NEW len, Written(s, g, w, head, len),
           NEW k \in 1 .. 7, Shape(w, head, len, Known(s, g[k]), k)
    PROVE  Shape(w, head, len, Known(s, g[k + 1]), k + 1)
<1> DEFINE i == k + 1
           q == Skipped(w, head, len)[i]
<1>1. /\ head \in Nat /\ len \in Nat /\ head > 0 /\ head + len <= 9 /\ (len = 0 => head = 1)
      /\ k \in Nat /\ i \in Nat /\ i = k + 1 /\ k > 0 /\ k < 8
  BY BestNat DEF Written
<1>2. k \in 1 .. 8 /\ i \in 1 .. 8 /\ i # 1
  OBVIOUS
<1>3. /\ s \in Seq(Chars) /\ g[k] \in Seq(Chars) /\ g[i] \in Seq(Chars)
      /\ Starts(s, g[k]) /\ Starts(s, g[i]) /\ g[i] = Cat(g[k], q)
  BY SMTT(30), <1>2, WrittenText
<1>4. w[k] \in WordValues /\ w[i] \in WordValues
  BY <1>2 DEF Written
<1>5. q = WordText(w, head, len, i)
  BY <1>2 DEF Skipped
<1> HIDE DEF i, q
<1>6. CASE InRun(head, len, i) /\ i # head
  <2>1. InRun(head, len, k)
    BY <1>1, <1>6 DEF InRun
  <2>2. g[i] = g[k]
    BY <1>3, <1>5, <1>6, CatNothing DEF WordText
  <2>3. Shape(w, head, len, Known(s, g[i]), i)
    BY <1>6, <2>1, <2>2 DEF Shape
  <2> QED
    BY <2>3 DEF i
<1>7. CASE InRun(head, len, i) /\ i = head
  <2>1. ~InRun(head, len, k) /\ Kept(head, len, k) = k - 1 /\ DoubleAt(head, len, k) = -1
          /\ k < head /\ head - 1 = k /\ len > 0
    BY <1>1, <1>7 DEF InRun, Kept, DoubleAt
  <2>2. PICK x : Gathered(w, head, len, x, k - 1) /\ Mid(Known(s, g[k]), x, w[k], -1)
    BY <2>1 DEF Shape
  <2>3. Longer(g[i], g[k], Address!Colon)
    <3>1. q = <<Address!Colon>> /\ Address!Colon \in Chars
      BY <1>5, <1>7, PlainChars DEF WordText
    <3> QED
      BY <1>3, <3>1, OneText
  <2>4. Len(g[i]) < Len(s)
    BY <1>7, <2>1, RunIsShort
  <2>5. Len(x) < 8
    BY <1>1, <2>2 DEF Gathered
  <2>6. Between(Known(s, g[i]), Append(x, w[k]), -1)
    BY <1>3, <2>2, <2>3, <2>4, <2>5, ColonEndsWord
  <2>7. Gathered(w, head, len, Append(x, w[k]), head - 1)
    <3> DEFINE m == k - 1
    <3>1. m \in Nat /\ m + 1 = k /\ m + 1 < head
      BY <1>1, <2>1
    <3>2. Gathered(w, head, len, x, m)
      BY <2>2
    <3> HIDE DEF m
    <3>3. Gathered(w, head, len, Append(x, w[k]), m + 1)
      BY <1>1, <1>4, <3>1, <3>2, GatheredNext
    <3> QED
      BY <2>1, <3>1, <3>3
  <2>8. Shape(w, head, len, Known(s, g[i]), i)
    BY <1>7, <2>6, <2>7 DEF Shape
  <2> QED
    BY <2>8 DEF i
<1>8. CASE ~InRun(head, len, i)
  <2>1. q = Cat(<<Address!Colon>>, Hex(w[i]))
    BY <1>2, <1>5, <1>8 DEF WordText
  <2>2. PICK r : /\ Longer(r, g[k], Address!Colon) /\ r \in Seq(Chars) /\ Starts(s, r)
                 /\ Len(r) < Len(s) /\ g[i] = Cat(r, Hex(w[i]))
    BY <1>3, <1>4, <2>1, ReadsColonWord
  <2>3. CASE InRun(head, len, k)
    <3>1. Kept(head, len, i) = head - 1 /\ DoubleAt(head, len, i) = head - 1
      BY <1>1, <1>8, <2>3 DEF InRun, Kept, DoubleAt
    <3>2. PICK x : Gathered(w, head, len, x, head - 1) /\ Between(Known(s, g[k]), x, -1)
      BY <2>3 DEF Shape
    <3>3. Len(x) = head - 1
      BY <3>2 DEF Gathered
    <3>4. Between(Known(s, r), x, Len(x))
      BY <1>3, <2>2, <3>2, ColonBetween
    <3>5. Mid(Known(s, g[i]), x, w[i], Len(x))
      BY <1>3, <1>4, <2>2, <3>4, ReadsHex
    <3>6. Shape(w, head, len, Known(s, g[i]), i)
      BY <1>8, <3>1, <3>2, <3>3, <3>5 DEF Shape
    <3> QED
      BY <3>6 DEF i
  <2>4. CASE ~InRun(head, len, k)
    <3> DEFINE m == Kept(head, len, k)
               d == DoubleAt(head, len, k)
    <3>1. m \in Nat /\ m < 8 /\ Kept(head, len, i) = m + 1 /\ DoubleAt(head, len, i) = d
            /\ k = IF m + 1 < head THEN m + 1 ELSE m + 1 + len
      BY <1>1, <1>8, <2>4 DEF InRun, Kept, DoubleAt
    <3>2. PICK x : Gathered(w, head, len, x, m) /\ Mid(Known(s, g[k]), x, w[k], d)
      BY <2>4 DEF Shape
    <3> HIDE DEF m, d
    <3>3. Len(x) < 8
      BY <3>1, <3>2 DEF Gathered
    <3>4. Between(Known(s, r), Append(x, w[k]), d)
      BY <1>3, <2>2, <3>2, <3>3, ColonEndsWord
    <3>5. Mid(Known(s, g[i]), Append(x, w[k]), w[i], d)
      BY <1>3, <1>4, <2>2, <3>4, ReadsHex
    <3>6. Gathered(w, head, len, Append(x, w[k]), m + 1)
      <4>1. w[k] = IF m + 1 < head THEN w[m + 1] ELSE w[m + 1 + len]
        BY <3>1
      <4> QED
        BY <1>1, <1>4, <3>1, <3>2, <4>1, GatheredNext
    <3>7. Shape(w, head, len, Known(s, g[i]), i)
      BY <1>8, <3>1, <3>5, <3>6 DEF Shape
    <3> QED
      BY <3>7 DEF i
  <2> QED
    BY <2>3, <2>4
<1> QED
  BY <1>6, <1>7, <1>8

LEMMA LastShape ==
    ASSUME NEW s, NEW g, NEW w, NEW head, NEW len, Written(s, g, w, head, len)
    PROVE  Shape(w, head, len, Known(s, g[8]), 8)
<1> DEFINE S == {i \in 0 .. 7 : Shape(w, head, len, Known(s, g[i + 1]), i + 1)}
<1>1. 0 \in S
  <2>1. 0 + 1 = 1 /\ 0 \in 0 .. 7
    OBVIOUS
  <2>2. Shape(w, head, len, Known(s, g[0 + 1]), 0 + 1)
    BY <2>1, FirstShape
  <2> QED
    BY <2>2
<1>2. ASSUME NEW i \in 0 .. 7 - 1, i \in S PROVE i + 1 \in S
  <2> DEFINE k == i + 1
  <2>1. k \in 1 .. 7 /\ k \in 0 .. 7
    OBVIOUS
  <2>2. Shape(w, head, len, Known(s, g[k]), k)
    BY <1>2
  <2> HIDE DEF k
  <2>3. Shape(w, head, len, Known(s, g[k + 1]), k + 1)
    BY <2>1, <2>2, NextShape
  <2> QED
    BY <2>1, <2>3 DEF k
<1>3. 0 .. 7 \subseteq S
  <2> HIDE DEF S
  <2> QED
    BY <1>1, <1>2, UpTo
<1>4. 7 \in S
  BY <1>3
<1>5. 7 + 1 = 8
  OBVIOUS
<1> QED
  BY <1>4, <1>5

\* All the words that are written, filled up with as many zeroes as were left out.
LEMMA GatheredAll ==
    ASSUME NEW w \in [1 .. 8 -> WordValues], NEW head, NEW len, IsBest(w, head, len),
           NEW x, Gathered(w, head, len, x, 8 - len),
           NEW c, c = IF len = 0 THEN -1 ELSE head - 1
    PROVE  Address!Filled8(x, c) = w
<1>1. /\ head \in Nat /\ len \in Nat /\ head > 0 /\ head < 9 /\ head + len <= 9
      /\ \A i \in Nat : InRun(head, len, i) => w[i] = 0
  BY BestNat
<1> DEFINE m == 8 - len
<1>2. x \in Seq(WordValues) /\ Len(x) = m
        /\ \A j \in 1 .. m : x[j] = IF j < head THEN w[j] ELSE w[j + len]
  BY DEF Gathered
<1> DEFINE V == WordValues
<1> HIDE DEF V
<1>a. w \in Seq(V)
  <2>1. w \in [1 .. 8 -> V]
    BY DEF V
  <2> QED
    BY <2>1, SeqDef
<1>b. Len(w) = 8
  BY <1>a DEF V
<1>3. w \in Seq(WordValues) /\ Len(w) = 8
  BY <1>a, <1>b DEF V
<1>4. CASE len = 0
  <2>1. m = 8 /\ c = -1
    BY <1>4
  <2> HIDE DEF m
  <2>2. Address!Filled8(x, c) = x
    BY <1>2, <2>1 DEF Address!Filled8
  <2>3. ASSUME NEW j \in 1 .. 8 PROVE x[j] = w[j]
    BY <1>2, <1>4, <2>1
  <2>4. x = w
    BY <1>2, <1>3, <2>1, <2>3, SeqEqual
  <2> QED
    BY <2>2, <2>4
<1>5. CASE len # 0
  <2> DEFINE r == Address!Filled8(x, c)
  <2>1. m \in Nat /\ m < 8 /\ c = head - 1 /\ c \in 0 .. m
    BY <1>1, <1>5
  <2>2. 8 - m = len
    BY <1>1
  <2> HIDE DEF m, r
  <2>c. x \in Seq(WordValues) /\ m = Len(x) /\ r = Address!Filled8(x, c)
    BY <1>2 DEF r
  <2>d. Filling(r, x, c, m)
    BY <2>1, <2>c, Filled
  <2>3. /\ r \in Seq(WordValues) /\ Len(r) = 8
        /\ \A i \in 1 .. 8 : r[i] = IF i <= c THEN x[i]
                                       ELSE IF i <= c + 8 - m THEN 0 ELSE x[i - (8 - m)]
    BY <2>d DEF Filling
  <2>4. ASSUME NEW i \in 1 .. 8 PROVE r[i] = w[i]
    <3>1. CASE i <= c
      <4>1. i \in 1 .. m /\ i < head
        BY <1>1, <2>1, <3>1
      <4> QED
        BY <1>2, <2>3, <3>1, <4>1
    <3>2. CASE i > c /\ i <= c + 8 - m
      <4>1. InRun(head, len, i)
        BY <1>1, <2>1, <2>2, <3>2 DEF InRun
      <4>2. w[i] = 0
        BY <1>1, <4>1
      <4> QED
        BY SMTT(30), <2>1, <2>3, <3>2, <4>2
    <3>3. CASE i > c + 8 - m
      <4> DEFINE j == i - len
      <4>1. j \in 1 .. m /\ ~(j < head) /\ j + len = i /\ ~(i <= c)
              /\ ~(i <= c + 8 - m) /\ i - (8 - m) = j
        BY <1>1, <2>1, <2>2, <3>3
      <4>2. r[i] = x[j]
        <5> HIDE DEF j
        <5>1. r[i] = x[i - (8 - m)]
          BY <2>3, <4>1
        <5> QED
          BY <4>1, <5>1
      <4> HIDE DEF j
      <4> QED
        BY <1>2, <4>1, <4>2
    <3> QED
      BY <2>1, <3>1, <3>2, <3>3
  <2>5. r = w
    BY <1>3, <2>3, <2>4, SeqEqual
  <2> QED
    BY <2>5 DEF r
<1> QED
  BY <1>4, <1>5

\* ReadWords makes of the text the words it was written from.
LEMMA WordsReturn ==
    ASSUME NEW s, NEW g, NEW w, NEW head, NEW len, Written(s, g, w, head, len)
    PROVE  Address!ReadWords(s) = w
<1>1. /\ w \in [1 .. 8 -> WordValues] /\ IsBest(w, head, len)
      /\ head \in Nat /\ len \in Nat /\ head > 0 /\ head < 9 /\ head + len <= 9
      /\ (len = 0 => head = 1)
  BY BestNat DEF Written
<1>2. s \in Seq(Chars) /\ g[8] \in Seq(Chars) /\ Starts(s, s) /\ s = Cat(g[8], Trail(head, len))
  BY WrittenText DEF Written
<1>3. Shape(w, head, len, Known(s, g[8]), 8)
  BY LastShape
<1> DEFINE end == Known(s, s)
<1>4. Address!ReadWords(s) = Address!EightWords(end)
  BY DEF Address!ReadWords, Known
<1> HIDE DEF end
<1>5. CASE InRun(head, len, 8)
  <2>1. head + len = 9 /\ len > 0 /\ 8 - len = head - 1
    BY <1>1, <1>5 DEF InRun
  <2>2. PICK x : Gathered(w, head, len, x, head - 1) /\ Between(Known(s, g[8]), x, -1)
    BY <1>3, <1>5 DEF Shape
  <2>3. Longer(s, g[8], Address!Colon)
    <3>1. s = Cat(g[8], <<Address!Colon>>) /\ Address!Colon \in Chars
      BY <1>2, <2>1, PlainChars DEF Trail
    <3> QED
      BY <1>2, <3>1, OneText
  <2>4. Len(x) = head - 1
    BY <2>2 DEF Gathered
  <2>5. Between(end, x, head - 1)
    BY <1>2, <2>2, <2>3, <2>4, ColonBetween DEF end
  <2>6. Address!EightWords(end) = Address!Filled8(x, head - 1)
    BY <2>5 DEF Address!EightWords, Between
  <2>7. Address!Filled8(x, head - 1) = w
    <3>1. Gathered(w, head, len, x, 8 - len) /\ head - 1 = IF len = 0 THEN -1 ELSE head - 1
      BY <2>1, <2>2
    <3> QED
      BY <1>1, <3>1, GatheredAll
  <2> QED
    BY <1>4, <2>6, <2>7
<1>6. CASE ~InRun(head, len, 8)
  <2> DEFINE m == Kept(head, len, 8)
             d == DoubleAt(head, len, 8)
  <2>1. m \in Nat /\ m + 1 = 8 - len /\ d = (IF len = 0 THEN -1 ELSE head - 1)
          /\ 8 = (IF m + 1 < head THEN m + 1 ELSE m + 1 + len) /\ ~(len > 0 /\ head + len = 9)
    BY <1>1, <1>6 DEF InRun, Kept, DoubleAt
  <2>2. PICK x : Gathered(w, head, len, x, m) /\ Mid(Known(s, g[8]), x, w[8], d)
    BY <1>3, <1>6 DEF Shape
  <2> HIDE DEF m, d
  <2>3. s = g[8]
    BY <1>2, <2>1, CatNothing DEF Trail
  <2>4. Mid(end, x, w[8], d)
    BY <2>2, <2>3 DEF end
  <2>5. Address!EightWords(end) = Address!Filled8(Append(x, w[8]), d)
    BY <2>4 DEF Address!EightWords, Mid
  <2>6. Gathered(w, head, len, Append(x, w[8]), m + 1)
    <3>1. w[8] \in WordValues /\ w[8] = IF m + 1 < head THEN w[m + 1] ELSE w[m + 1 + len]
      BY <1>1, <2>1
    <3> QED
      BY <1>1, <2>1, <2>2, <3>1, GatheredNext
  <2>7. Address!Filled8(Append(x, w[8]), d) = w
    <3> DEFINE y == Append(x, w[8])
    <3>1. Gathered(w, head, len, y, 8 - len)
      BY <2>1, <2>6
    <3> HIDE DEF y
    <3>2. Address!Filled8(y, d) = w
      BY <1>1, <2>1, <3>1, GatheredAll
    <3> QED
      BY <3>2 DEF y
  <2> QED
    BY <1>4, <2>5, <2>7
<1> QED
  BY <1>5, <1>6

-----------------------------------------------------------------------------
(* The text of an IPv6 address and what is made of it *)

Pieces(w, head, len) == [i \in 1 .. 8 |-> WordText(w, head, len, i)]

\* No IPv4 address in it.
WritesPlain(w) == ~Address!Encapsulates(w, Address!Best(w))

LEMMA PieceOf ==
    ASSUME NEW w, NEW head, NEW len, NEW best, best.base = head, best.len = len,
           head \in Nat, len \in Nat, NEW i \in 1 .. 8,
           ~(i = 7 /\ Address!Encapsulates(w, best))
    PROVE  Address!TextOfWord(w, best, i) = WordText(w, head, len, i)
<1>1. i \in best.base .. best.base + best.len - 1 <=> InRun(head, len, i)
  BY DEF InRun
<1>2. CASE InRun(head, len, i)
  BY <1>1, <1>2 DEF Address!TextOfWord, WordText
<1>3. CASE ~InRun(head, len, i) /\ i = 1
  <2>1. Address!TextOfWord(w, best, i) = <<>> \o Address!Digits(w[i], 16)
    BY <1>1, <1>3 DEF Address!TextOfWord
  <2>2. WordText(w, head, len, i) = Address!Digits(w[i], 16)
    BY <1>3 DEF WordText, Hex
  <2> QED
    BY <2>1, <2>2 DEF Address!Digits
<1>4. CASE ~InRun(head, len, i) /\ i # 1
  <2>1. Address!TextOfWord(w, best, i) = <<Address!Colon>> \o Address!Digits(w[i], 16)
    BY <1>1, <1>4 DEF Address!TextOfWord
  <2> QED
    BY <1>4, <2>1 DEF WordText, Hex, Cat
<1> QED
  BY <1>2, <1>3, <1>4

LEMMA JoinedPlain ==
    ASSUME NEW w, WritesPlain(w), NEW head, NEW len,
           head = Address!Best(w).base, len = Address!Best(w).len
    PROVE  Address!inet_ntop6(w) = Cat(Flat(Pieces(w, head, len)), Trail(head, len))
<1> DEFINE best == Address!Best(w)
           Pieced == [i \in 1 .. 8 |-> Address!TextOfWord(w, best, i)]
<1>1. best.base = head /\ best.len = len /\ head \in Nat /\ len \in Nat
        /\ ~Address!Encapsulates(w, best)
  BY BestRun, BestNat DEF WritesPlain
<1> HIDE DEF best
<1>2. Pieced = Pieces(w, head, len)
  <2>1. ASSUME NEW i \in 1 .. 8
        PROVE  Address!TextOfWord(w, best, i) = WordText(w, head, len, i)
    BY <1>1, PieceOf
  <2> QED
    BY <2>1 DEF Pieces
<1>3. Address!TrailingRun(best) = Trail(head, len)
  BY <1>1 DEF Address!TrailingRun, Trail
<1>4. Address!inet_ntop6(w) = Address!Joined(w, best)
  BY DEF Address!inet_ntop6, best
<1>5. Address!Joined(w, best) = Address!FlattenSeq(Pieced) \o Address!TrailingRun(best)
  BY <1>1 DEF Address!Joined
<1> HIDE DEF Pieced
<1>6. Address!FlattenSeq(Pieced) = Flat(Pieced)
  BY DEF Address!FlattenSeq, Flat
<1> QED
  BY <1>2, <1>3, <1>4, <1>5, <1>6 DEF Cat

\* Behind a run at the front there is one colon more than what is read.
LEMMA PiecesTogether ==
    ASSUME NEW w \in [1 .. 8 -> WordValues], NEW head, NEW len, IsBest(w, head, len)
    PROVE  \E g : /\ Together(g, Skipped(w, head, len), 8, Plain)
                  /\ Flat(Pieces(w, head, len)) =
                         IF InRun(head, len, 1) THEN Cat(<<Address!Colon>>, g[8]) ELSE g[8]
<1> DEFINE P == Pieces(w, head, len)
           K == Skipped(w, head, len)
<1>1. P \in [1 .. 8 -> Seq(Plain)] /\ K \in [1 .. 8 -> Seq(Plain)]
  <2>1. \A i \in 1 .. 8 : WordText(w, head, len, i) \in Seq(Plain)
    BY WordTextTyped
  <2>2. <<>> \in Seq(Plain)
    OBVIOUS
  <2> QED
    BY <2>1, <2>2 DEF Pieces, Skipped
<1>2. /\ \A i \in 1 .. 8 : P[i] = WordText(w, head, len, i)
      /\ \A i \in 1 .. 8 : i # 1 => K[i] = WordText(w, head, len, i)
      /\ InRun(head, len, 1) => K[1] = <<>>
  BY DEF Pieces, Skipped
<1>3. ~InRun(head, len, 1) => K = P
  BY DEF Pieces, Skipped
<1>4. InRun(head, len, 1) => P[1] = <<Address!Colon>>
  <2>1. InRun(head, len, 1) => head = 1
    BY BestNat DEF InRun
  <2> QED
    BY <1>2, <2>1 DEF WordText
<1> HIDE DEF P, K
<1> DEFINE n == 8
<1>n. n \in Nat \ {0} /\ n = 8
  OBVIOUS
<1> HIDE DEF n
<1>5. PICK g : Together(g, K, n, Plain) /\ Flat(K) = g[n]
  BY <1>1, <1>n, FlatUnfold
<1>6. PICK f : Together(f, P, n, Plain) /\ Flat(P) = f[n]
  BY <1>1, <1>n, FlatUnfold
<1>7. CASE ~InRun(head, len, 1)
  BY <1>3, <1>5, <1>7, <1>n DEF P, K
<1>8. CASE InRun(head, len, 1)
  <2> DEFINE c == <<Address!Colon>>
             S == {i \in 0 .. 7 : f[i + 1] = Cat(c, g[i + 1])}
  <2>1. c \in Seq(Chars) /\ f[1] = c /\ g[1] = <<>>
    BY <1>4, <1>2, <1>5, <1>6, <1>8, OneText, PlainChars DEF Together
  <2> HIDE DEF c
  <2>2. 0 \in S
    BY <2>1, CatNothing
  <2>3. ASSUME NEW i \in 0 .. 7 - 1, i \in S PROVE i + 1 \in S
    <3> DEFINE k == i + 1
    <3>1. k \in 1 .. 7 /\ k \in 1 .. 8 /\ k + 1 \in 1 .. 8 /\ k + 1 # 1 /\ k \in 0 .. 7
      OBVIOUS
    <3>2. f[k] = Cat(c, g[k])
      BY <2>3
    <3> HIDE DEF k
    <3>3. f[k + 1] = Cat(f[k], P[k + 1]) /\ g[k + 1] = Cat(g[k], K[k + 1])
      <4>1. \A j \in 1 .. 8 - 1 : f[j + 1] = Cat(f[j], P[j + 1])
        BY <1>6, <1>n DEF Together
      <4>2. \A j \in 1 .. 8 - 1 : g[j + 1] = Cat(g[j], K[j + 1])
        BY <1>5, <1>n DEF Together
      <4> QED
        BY <3>1, <4>1, <4>2
    <3>4. P[k + 1] = K[k + 1]
      BY <1>2, <3>1
    <3>5. g[k] \in Seq(Chars) /\ K[k + 1] \in Seq(Chars)
      <4>1. g[k] \in Seq(Plain) /\ K[k + 1] \in Seq(Plain)
        BY <1>1, <1>5, <1>n, <3>1 DEF Together
      <4> QED
        BY <4>1, PlainText
    <3>6. f[k + 1] = Cat(c, g[k + 1])
      BY <2>1, <3>2, <3>3, <3>4, <3>5, CatCat
    <3> QED
      BY <3>1, <3>6 DEF k
  <2>4. 0 .. 7 \subseteq S
    <3> HIDE DEF S
    <3> QED
      BY <2>2, <2>3, UpTo
  <2>5. f[8] = Cat(c, g[8])
    <3>1. 7 \in S /\ 7 + 1 = 8
      BY <2>4
    <3> QED
      BY <3>1
  <2> QED
    BY <1>5, <1>6, <1>8, <1>n, <2>5 DEF c, P, K
<1> QED
  BY <1>7, <1>8

\* What a text is when its first character is left out.
LEMMA TailOfCat ==
    ASSUME NEW s \in Seq(Chars), NEW c \in Chars, NEW t, t = Cat(<<c>>, s)
    PROVE  t \in Seq(Chars) /\ t[1] = c /\ Len(t) = Len(s) + 1 /\ Tail(t) = s
           /\ (Len(s) > 0 => t[2] = s[1])
<1> DEFINE d == <<c>>
<1>1. d \in Seq(Chars) /\ Len(d) = 1 /\ d[1] = c
  BY OneText
<1> HIDE DEF d
<1> DEFINE n == Len(s)
<1>2. n \in Nat
  BY LenProperties
<1>3. t = d \o s
  BY DEF Cat, d
<1>4. t \in Seq(Chars) /\ Len(t) = 1 + n
        /\ \A i \in 1 .. 1 + n : t[i] = IF i <= 1 THEN d[i] ELSE s[i - 1]
  <2> DEFINE m == Len(d)
             r == d \o s
  <2>1. r \in Seq(Chars) /\ Len(r) = m + n
          /\ \A i \in 1 .. m + n : r[i] = IF i <= m THEN d[i] ELSE s[i - m]
    BY <1>1, ConcatProperties
  <2>2. m = 1
    BY <1>1
  <2>3. r = t
    BY <1>3
  <2> HIDE DEF m, n, r
  <2> QED
    BY <2>1, <2>2, <2>3
<1> HIDE DEF n
<1>5. t[1] = c
  <2>1. 1 \in 1 .. 1 + n
    BY <1>2
  <2> QED
    BY <1>1, <1>4, <2>1
<1>6. n > 0 => t[2] = s[1]
  <2> SUFFICES ASSUME n > 0 PROVE t[2] = s[1]
    OBVIOUS
  <2>1. 2 \in 1 .. 1 + n /\ ~(2 <= 1) /\ 2 - 1 = 1
    BY <1>2
  <2> QED
    BY <1>4, <2>1
<1>7. t # <<>>
  BY <1>2, <1>4
<1> DEFINE u == Tail(t)
<1>8. u \in Seq(Chars) /\ Len(u) = Len(t) - 1 /\ \A i \in 1 .. Len(u) : u[i] = t[i + 1]
  BY <1>4, <1>7, HeadTailProperties
<1> HIDE DEF u
<1>9. Len(u) = n
  BY <1>2, <1>4, <1>8
<1>10. ASSUME NEW i \in 1 .. n PROVE u[i] = s[i]
  <2>1. i + 1 \in 1 .. 1 + n /\ ~(i + 1 <= 1) /\ i + 1 - 1 = i
    BY <1>2
  <2>2. t[i + 1] = s[i]
    BY <1>4, <2>1
  <2> QED
    BY <1>8, <1>9, <2>2
<1>11. u = s
  BY <1>8, <1>9, <1>10, SeqEqual DEF n
<1>12. Len(t) = n + 1
  BY <1>2, <1>4
<1> QED
  BY <1>4, <1>5, <1>6, <1>11, <1>12 DEF u, n

LEMMA TrailTyped ==
    ASSUME NEW head, NEW len PROVE Trail(head, len) \in Seq(Plain)
BY PlainChars DEF Trail

\* inet_pton6 makes of the text of an address that address.
LEMMA PlainReturns ==
    ASSUME NEW w \in [1 .. 8 -> WordValues], WritesPlain(w)
    PROVE  /\ Address!inet_ntop6(w) \in Seq(Plain)
           /\ Address!inet_pton6(Address!inet_ntop6(w)) = w
<1> DEFINE head == Address!Best(w).base
           len == Address!Best(w).len
           t == Address!inet_ntop6(w)
           c == Address!Colon
<1>1. IsBest(w, head, len)
  BY BestRun
<1>2. t = Cat(Flat(Pieces(w, head, len)), Trail(head, len))
  BY JoinedPlain
<1> HIDE DEF head, len, t
<1>3. PICK g : /\ Together(g, Skipped(w, head, len), 8, Plain)
               /\ Flat(Pieces(w, head, len)) =
                         IF InRun(head, len, 1) THEN Cat(<<Address!Colon>>, g[8]) ELSE g[8]
  BY <1>1, PiecesTogether
<1> DEFINE s == Cat(g[8], Trail(head, len))
<1>4. g[8] \in Seq(Plain) /\ Trail(head, len) \in Seq(Plain) /\ g[1] = Skipped(w, head, len)[1]
  BY <1>3, TrailTyped DEF Together
<1>5. s \in Seq(Plain)
  BY <1>4, ConcatProperties DEF Cat
<1>6. Written(s, g, w, head, len)
  BY <1>1, <1>3 DEF Written
<1> HIDE DEF s
<1>7. Address!ReadWords(s) = w
  BY <1>6, WordsReturn
<1>8. s \in Seq(Chars) /\ c \in Chars /\ \A i \in 1 .. 8 : g[i] \in Seq(Chars) /\ Starts(s, g[i])
  BY <1>6, WrittenText, PlainChars
<1>9. CASE InRun(head, len, 1)
  <2>1. t = Cat(<<c>>, s)
    <3>1. t = Cat(Cat(<<c>>, g[8]), Trail(head, len))
      BY <1>2, <1>3, <1>9
    <3>2. <<c>> \in Seq(Chars) /\ g[8] \in Seq(Chars) /\ Trail(head, len) \in Seq(Chars)
      BY <1>4, <1>8, OneText, PlainText
    <3> HIDE DEF c
    <3> QED
      BY <3>1, <3>2, CatCat DEF s
  <2>2. head = 1 /\ len > 0
    BY <1>1, <1>9, BestNat DEF InRun
  <2>3. g[1] = <<>>
    BY <1>4, <1>9 DEF Skipped
  <2>4. Starts(s, Cat(g[1], <<c>>)) /\ Len(g[1]) < Len(s)
    BY <1>6, <2>2, RunIsShort
  <2>5. Len(s) > 0 /\ s[1] = c
    <3>1. Cat(<<>>, <<c>>) = <<c>>
      BY <1>8, OneText, CatNothing
    <3>2. Starts(s, <<c>>)
      BY <2>3, <2>4, <3>1
    <3> QED
      BY <2>3, <2>4, <3>2 DEF Starts
  <2>6. t \in Seq(Chars) /\ t[1] = c /\ Len(t) = Len(s) + 1 /\ Tail(t) = s /\ t[2] = s[1]
    BY ZenonT(40), <1>8, <2>1, <2>5, TailOfCat
  <2>7. t # <<>> /\ Len(t) # 1
    BY <1>8, <2>5, <2>6, LenProperties
  <2>8. Address!inet_pton6(t) = w
    <3> HIDE DEF t
    <3> QED
      BY <1>7, <2>5, <2>6, <2>7 DEF Address!inet_pton6
  <2>9. t \in Seq(Plain)
    <3>1. <<c>> \in Seq(Plain)
      BY PlainChars
    <3> QED
      BY <1>5, <2>1, <3>1, ConcatProperties DEF Cat
  <2> QED
    BY <2>8, <2>9 DEF t
<1>10. CASE ~InRun(head, len, 1)
  <2>1. t = s
    BY <1>2, <1>3, <1>10 DEF s
  <2>2. g[1] = Hex(w[1]) /\ w[1] \in WordValues
    BY <1>4, <1>10 DEF Skipped, WordText
  <2>3. s[1] # c
    <3> DEFINE h == Hex(w[1])
    <3>1. Len(h) \in Nat /\ Len(h) > 0 /\ h[1] # c
      BY <2>2, HexTyped, LenProperties
    <3>2. Starts(s, h)
      BY <1>8, <2>2
    <3> HIDE DEF h
    <3> QED
      BY <3>1, <3>2 DEF Starts
  <2>4. Address!inet_pton6(s) = w
    BY <1>7, <2>3 DEF Address!inet_pton6
  <2> QED
    BY <1>5, <2>1, <2>4 DEF t
<1> QED
  BY <1>9, <1>10

\* The two bytes of a word.
LEMMA BytesOfWord ==
    ASSUME NEW v \in WordValues, NEW u \in WordValues
    PROVE  Address!TwoBytes(v) \o Address!TwoBytes(u) \in [1 .. 4 -> OctetValues]
<1>1. \A x \in WordValues : x \div 256 \in OctetValues /\ x % 256 \in OctetValues
  <2>1. ASSUME NEW x \in Nat, x < 65536
        PROVE  x \div 256 \in Nat /\ x \div 256 < 256 /\ x % 256 \in Nat /\ x % 256 < 256
    BY <2>1
  <2> QED
    BY <2>1, WordIsNat, OctetIsNat
<1> DEFINE a == Address!TwoBytes(v)
           b == Address!TwoBytes(u)
           V == OctetValues
<1>2. a \in Seq(V) /\ b \in Seq(V) /\ Len(a) = 2 /\ Len(b) = 2
  <2>1. v \div 256 \in V /\ v % 256 \in V /\ u \div 256 \in V /\ u % 256 \in V
    BY <1>1
  <2> HIDE DEF V
  <2> QED
    BY <2>1 DEF Address!TwoBytes
<1> HIDE DEF a, b, V
<1> DEFINE r == a \o b
<1>3. r \in Seq(V) /\ Len(r) = Len(a) + Len(b)
  BY <1>2, ConcatProperties
<1> HIDE DEF r
<1>4. r \in [1 .. 4 -> V]
  <2>1. Len(r) = 4
    BY <1>2, <1>3
  <2> QED
    BY <1>3, <2>1, LenProperties
<1> QED
  BY <1>4 DEF r, a, b, V

LEMMA FirstStays ==
    ASSUME NEW p \in Seq(Chars), NEW q \in Seq(Chars), Len(p) > 0
    PROVE  Cat(p, q)[1] = p[1] /\ Len(Cat(p, q)) > 0
<1> DEFINE r == p \o q
           m == Len(p)
           n == Len(q)
<1>1. m \in Nat /\ n \in Nat /\ m > 0
  BY LenProperties
<1>2. Len(r) = m + n /\ \A i \in 1 .. m + n : r[i] = IF i <= m THEN p[i] ELSE q[i - m]
  BY ConcatProperties
<1> HIDE DEF r, m, n
<1>3. r[1] = p[1] /\ Len(r) > 0
  BY <1>1, <1>2
<1> QED
  BY <1>3 DEF Cat, r

\* The text of an address with an IPv4 address in it begins with a colon and has dots.
LEMMA DottedJoin ==
    ASSUME NEW w \in [1 .. 8 -> WordValues], ~WritesPlain(w)
    PROVE  LET t == Address!inet_ntop6(w)
           IN  t \in Seq(Chars) /\ Len(t) > 0 /\ t[1] = Address!Colon /\ HasDot(t)
<1> DEFINE best == Address!Best(w)
           head == best.base
           len == best.len
           c == Address!Colon
           quad == Address!inet_ntop4(Address!TwoBytes(w[7]) \o Address!TwoBytes(w[8]))
           P == [i \in 1 .. 7 |-> Address!TextOfWord(w, best, i)]
           T == Address!TrailingRun(best)
           t == Address!inet_ntop6(w)
<1>1. head = 1 /\ len \in {5, 6} /\ Address!Encapsulates(w, best)
  BY DEF Address!Encapsulates, WritesPlain
<1>2. t = Cat(Address!FlattenSeq(P), T)
  BY <1>1 DEF Address!inet_ntop6, Address!Joined, Cat
<1> HIDE DEF best, t
<1>3. c \in Chars /\ <<c>> \in Seq(Chars) /\ <<>> \in Seq(Chars)
  BY OneText, PlainChars
<1> HIDE DEF c
<1>4. quad \in Seq(Chars) /\ HasDot(quad)
  <2>1. w[7] \in WordValues /\ w[8] \in WordValues
    OBVIOUS
  <2> QED
    BY <2>1, BytesOfWord, OctetsReturn
<1> HIDE DEF quad
<1>5. Address!TextOfWord(w, best, 7) = Cat(<<c>>, quad)
  <2>1. ~(7 \in head .. head + len - 1)
    BY <1>1
  <2> QED
    BY <1>1, <2>1 DEF Address!TextOfWord, Cat, quad, c
<1>6. ASSUME NEW i \in 1 .. 7 PROVE Address!TextOfWord(w, best, i) \in Seq(Chars)
  <2>1. CASE i = 7
    BY <1>3, <1>4, <1>5, <2>1, CatText
  <2>2. CASE i # 7
    <3>1. Address!TextOfWord(w, best, i) = WordText(w, head, len, i)
      <4>1. i \in 1 .. 8 /\ head \in Nat /\ len \in Nat
        BY <1>1
      <4> HIDE DEF head, len
      <4>2. best.base = head /\ best.len = len
        BY DEF head, len
      <4> QED
        BY <2>2, <4>1, <4>2, PieceOf
    <3>2. WordText(w, head, len, i) \in Seq(Plain)
      BY WordTextTyped
    <3> QED
      BY <3>1, <3>2, PlainText
  <2> QED
    BY <2>1, <2>2
<1>7. Address!TextOfWord(w, best, 1) = <<c>>
  BY <1>1 DEF Address!TextOfWord, c
<1>8. T \in Seq(Chars)
  BY <1>3 DEF Address!TrailingRun, c
<1> HIDE DEF head, len, T
<1> DEFINE n == 7
<1>9. n \in Nat \ {0} /\ n = 7
  OBVIOUS
<1>10. P \in [1 .. n -> Seq(Chars)] /\ P[1] = <<c>> /\ P[7] = Cat(<<c>>, quad)
  BY <1>5, <1>6, <1>7
<1> HIDE DEF n, P
<1>11. PICK f : Together(f, P, n, Chars) /\ Flat(P) = f[n]
  BY <1>9, <1>10, FlatUnfold
<1>12. /\ \A i \in 1 .. 7 : f[i] \in Seq(Chars)
       /\ f[1] = <<c>>
       /\ \A i \in 1 .. 6 : f[i + 1] = Cat(f[i], P[i + 1])
       /\ \A i \in 1 .. 7 : P[i] \in Seq(Chars)
  <2>1. \A i \in 1 .. 7 : f[i] \in Seq(Chars) /\ P[i] \in Seq(Chars)
    BY <1>9, <1>10, <1>11 DEF Together
  <2>2. f[1] = <<c>>
    BY <1>10, <1>11 DEF Together
  <2>3. \A i \in 1 .. 7 - 1 : f[i + 1] = Cat(f[i], P[i + 1])
    BY <1>9, <1>11 DEF Together
  <2>4. 7 - 1 = 6
    OBVIOUS
  <2> QED
    BY <2>1, <2>2, <2>3, <2>4
<1> DEFINE S == {i \in 0 .. 6 : f[i + 1][1] = c /\ Len(f[i + 1]) > 0}
<1>13. 0 \in S
  <2> DEFINE d == <<c>>
  <2>1. d[1] = c /\ Len(d) > 0
    OBVIOUS
  <2>2. f[1] = d
    BY <1>12
  <2> HIDE DEF d
  <2>3. 0 + 1 = 1 /\ 0 \in 0 .. 6
    OBVIOUS
  <2> QED
    BY <2>1, <2>2, <2>3
<1>14. ASSUME NEW i \in 0 .. 6 - 1, i \in S PROVE i + 1 \in S
  <2> DEFINE k == i + 1
  <2>1. k \in 1 .. 6 /\ k \in 1 .. 7 /\ k + 1 \in 1 .. 7 /\ k \in 0 .. 6
    OBVIOUS
  <2>2. f[k][1] = c /\ Len(f[k]) > 0
    BY <1>14
  <2> HIDE DEF k
  <2>3. f[k] \in Seq(Chars) /\ P[k + 1] \in Seq(Chars) /\ f[k + 1] = Cat(f[k], P[k + 1])
    BY <1>12, <2>1
  <2>4. f[k + 1][1] = c /\ Len(f[k + 1]) > 0
    BY <2>2, <2>3, FirstStays
  <2> QED
    BY <2>1, <2>4 DEF k
<1>15. 0 .. 6 \subseteq S
  <2> HIDE DEF S
  <2> QED
    BY <1>13, <1>14, UpTo
<1>16. f[7][1] = c /\ Len(f[7]) > 0
  <2>1. 6 \in S /\ 6 + 1 = 7
    BY <1>15
  <2> QED
    BY <2>1
<1> HIDE DEF S
<1>17. HasDot(f[7])
  <2>1. 6 \in 1 .. 6 /\ 6 + 1 = 7 /\ 6 \in 1 .. 7
    OBVIOUS
  <2>2. f[7] = Cat(f[6], Cat(<<c>>, quad)) /\ f[6] \in Seq(Chars)
    BY <1>10, <1>12, <2>1
  <2>3. Cat(<<c>>, quad) \in Seq(Chars) /\ HasDot(Cat(<<c>>, quad))
    BY <1>3, <1>4, CatText, DotStays
  <2> QED
    BY <2>2, <2>3, DotStays
<1>18. t = Cat(f[7], T)
  <2>1. Address!FlattenSeq(P) = Flat(P)
    BY DEF Address!FlattenSeq, Flat
  <2> QED
    BY <1>2, <1>9, <1>11, <2>1
<1>19. f[7] \in Seq(Chars)
  BY <1>12
<1>20. t \in Seq(Chars) /\ Len(t) > 0 /\ t[1] = c /\ HasDot(t)
  BY <1>8, <1>16, <1>17, <1>18, <1>19, CatText, FirstStays, DotStays
<1> QED
  BY <1>20 DEF t, c

-----------------------------------------------------------------------------
(* The endpoint *)

OfFamily(f, a) ==
    \/ f = 4 /\ a \in [1 .. 4 -> OctetValues]
    \/ f = 6 /\ a \in [1 .. 8 -> WordValues]

TextOf(f, a) == IF f = 4 THEN Address!inet_ntop4(a) ELSE Address!inet_ntop6(a)

\* The endpoint that is made from the text s.
MadeFrom(s, f, a) ==
    IF HasDot(s) THEN f = 4 /\ a = Address!Taken(Address!inet_pton4(s), 4)
    ELSE f = 6 /\ a = Address!Taken(Address!inet_pton6(s), 8)

\* An endpoint holds an address of its family; what was read of a text is what
\* that text says, and a text that was written is the text of what was kept.
AddressInv ==
    \/ stage = "blank" /\ af = 0 /\ addr = <<>> /\ text = <<>> /\ kept = <<>>
    \/ stage = "filled" /\ OfFamily(af, addr) /\ text = <<>> /\ kept = <<>>
    \/ stage = "written" /\ OfFamily(af, addr) /\ kept = addr /\ text = TextOf(af, addr)
    \/ /\ stage = "read" /\ text \in Seq(Chars) /\ MadeFrom(text, af, addr)
       /\ kept = <<>> \/ \E f : OfFamily(f, kept) /\ text = TextOf(f, kept)

LEMMA SystemValues ==
    Words \subseteq WordValues /\ Octets \subseteq OctetValues /\ Typed \subseteq Seq(Chars)
<1>1. Words \subseteq WordValues
  BY AddressAssumption, WordIsNat
<1>2. Octets \subseteq OctetValues
  BY AddressAssumption, OctetIsNat
<1>3. Typed \subseteq Seq(Chars)
  BY AddressAssumption DEF Chars, Address!Other
<1> QED
  BY <1>1, <1>2, <1>3

LEMMA TextTyped ==
    ASSUME NEW f, NEW a, OfFamily(f, a) PROVE TextOf(f, a) \in Seq(Chars)
<1>1. CASE f = 4 /\ a \in [1 .. 4 -> OctetValues]
  BY <1>1, OctetsReturn DEF TextOf
<1>2. CASE f = 6 /\ a \in [1 .. 8 -> WordValues]
  <2>1. CASE WritesPlain(a)
    BY <1>2, <2>1, PlainReturns, PlainText DEF TextOf
  <2>2. CASE ~WritesPlain(a)
    BY <1>2, <2>2, DottedJoin DEF TextOf
  <2> QED
    BY <2>1, <2>2
<1> QED
  BY <1>1, <1>2 DEF OfFamily

LEMMA MadeTyped ==
    ASSUME NEW s \in Seq(Chars), NEW f, NEW a, MadeFrom(s, f, a) PROVE OfFamily(f, a)
<1>1. CASE HasDot(s)
  <2> DEFINE r == Address!inet_pton4(s)
  <2>1. f = 4 /\ a = Address!Taken(r, 4)
    BY <1>1 DEF MadeFrom
  <2>2. Address!Zeroes(4) \in [1 .. 4 -> OctetValues]
    BY OctetIsNat DEF Address!Zeroes
  <2>3. r # Address!None => r \in [1 .. 4 -> OctetValues]
    <3> SUFFICES ASSUME r # Address!None PROVE r \in [1 .. 4 -> OctetValues]
      OBVIOUS
    <3>1. r \in Seq(OctetValues) /\ Len(r) = 4
      BY OctetsExact
    <3> HIDE DEF r
    <3> QED
      BY <3>1, LenProperties
  <2> HIDE DEF r
  <2> QED
    BY <2>1, <2>2, <2>3 DEF OfFamily, Address!Taken
<1>2. CASE ~HasDot(s)
  <2> DEFINE r == Address!inet_pton6(s)
  <2>1. f = 6 /\ a = Address!Taken(r, 8)
    BY <1>2 DEF MadeFrom
  <2>2. Address!Zeroes(8) \in [1 .. 8 -> WordValues]
    BY WordIsNat DEF Address!Zeroes
  <2>3. r # Address!None => r \in [1 .. 8 -> WordValues]
    <3> SUFFICES ASSUME r # Address!None PROVE r \in [1 .. 8 -> WordValues]
      OBVIOUS
    <3>1. r \in Seq(WordValues) /\ Len(r) = 8
      BY AddressTyped
    <3> HIDE DEF r
    <3> QED
      BY <3>1, LenProperties
  <2> HIDE DEF r
  <2> QED
    BY <2>1, <2>2, <2>3 DEF OfFamily, Address!Taken
<1> QED
  BY <1>1, <1>2

LEMMA ReadMakes ==
    ASSUME NEW s, Address!Read(s)
    PROVE  text' = s /\ stage' = "read" /\ MadeFrom(s, af', addr')
BY DEF Address!Read, MadeFrom, HasDot

LEMMA AddressesKeep == AddressInv /\ Address!AddressNext => AddressInv'
<1> SUFFICES ASSUME AddressInv, Address!AddressNext PROVE AddressInv'
  OBVIOUS
<1>1. CASE Address!Filled
  <2>1. OfFamily(af', addr')
    <3>1. CASE af' = 4 /\ addr' \in [1 .. 4 -> Octets]
      <4>1. Octets \subseteq OctetValues
        BY SystemValues
      <4>2. addr' \in [1 .. 4 -> OctetValues]
        BY <3>1, <4>1
      <4> QED
        BY <3>1, <4>2 DEF OfFamily
    <3>2. CASE af' = 6 /\ addr' \in [1 .. 8 -> Words]
      <4>1. Words \subseteq WordValues
        BY SystemValues
      <4>2. addr' \in [1 .. 8 -> WordValues]
        BY <3>2, <4>1
      <4> QED
        BY <3>2, <4>2 DEF OfFamily
    <3> QED
      BY SMTT(30), <1>1, <3>1, <3>2 DEF Address!Filled
  <2>2. stage' = "filled" /\ text' = <<>> /\ kept' = <<>>
    BY <1>1 DEF Address!Filled, AddressInv
  <2> QED
    BY <2>1, <2>2 DEF AddressInv
<1>2. CASE Address!ToText
  BY <1>2 DEF Address!ToText, AddressInv, TextOf
<1>3. CASE Address!FromWritten
  <2>1. stage = "written" /\ Address!Read(text) /\ kept' = kept
    BY <1>3 DEF Address!FromWritten
  <2>2. OfFamily(af, kept) /\ text = TextOf(af, kept)
    BY <2>1 DEF AddressInv
  <2>3. text' = text /\ stage' = "read" /\ MadeFrom(text, af', addr')
    BY <2>1, ReadMakes
  <2>4. text \in Seq(Chars)
    BY <2>2, TextTyped
  <2> QED
    BY <2>1, <2>2, <2>3, <2>4 DEF AddressInv
<1>4. CASE Address!FromTyped
  <2>1. stage = "blank" /\ kept' = kept /\ kept = <<>>
    BY <1>4 DEF Address!FromTyped, AddressInv
  <2>2. PICK s \in Typed : Address!Read(s)
    BY <1>4 DEF Address!FromTyped
  <2>3. text' = s /\ stage' = "read" /\ MadeFrom(s, af', addr')
    BY <2>2, ReadMakes
  <2>4. s \in Seq(Chars)
    BY <2>2, SystemValues
  <2> QED
    BY <2>1, <2>3, <2>4 DEF AddressInv
<1> QED
  BY <1>1, <1>2, <1>3, <1>4 DEF Address!AddressNext

LEMMA AddressInitial == LibInit => AddressInv
BY DEF LibInit, Address!AddressInit, AddressInv, Address!None

LEMMA AddressStep == AddressInv /\ [LibNext]_libVars => AddressInv'
<1> SUFFICES ASSUME AddressInv, [LibNext]_libVars PROVE AddressInv'
  OBVIOUS
<1>1. Address!AddressNext \/ UNCHANGED addressVars
  BY DEF LibNext, Still, libVars
<1>2. CASE UNCHANGED addressVars
  BY <1>2 DEF addressVars, AddressInv
<1> QED
  BY <1>1, <1>2, AddressesKeep

LEMMA TypeParts ==
    ASSUME NEW last, last = (IF af = 4 THEN 255 ELSE 65535),
           NEW size, size = (CASE af = 0 -> 0 [] af = 4 -> 4 [] af = 6 -> 8),
           af \in {0, 4, 6}, Len(addr) = size, \A i \in DOMAIN addr : addr[i] \in 0 .. last,
           stage \in {"blank", "filled", "written", "read"}
    PROVE  Address!AddressTypeOK
BY DEF Address!AddressTypeOK

LEMMA FamilyTyped ==
    ASSUME OfFamily(af, addr), stage \in {"filled", "written", "read"}
    PROVE  Address!AddressTypeOK
<1> DEFINE last == IF af = 4 THEN 255 ELSE 65535
           size == CASE af = 0 -> 0 [] af = 4 -> 4 [] af = 6 -> 8
<1>a. last = (IF af = 4 THEN 255 ELSE 65535)
        /\ size = (CASE af = 0 -> 0 [] af = 4 -> 4 [] af = 6 -> 8)
  OBVIOUS
<1>0. stage \in {"blank", "filled", "written", "read"}
  OBVIOUS
<1>1. CASE af = 4 /\ addr \in [1 .. 4 -> OctetValues]
  <2>1. last = 255 /\ size = 4
    BY <1>1
  <2>2. \A v \in OctetValues : v \in Nat /\ v <= 255
    BY OctetIsNat
  <2> DEFINE V == OctetValues
  <2>3. addr \in [1 .. 4 -> V]
    BY <1>1
  <2> HIDE DEF V, last, size
  <2>4. Len(addr) = size /\ \A i \in DOMAIN addr : addr[i] \in V
    BY <2>1, <2>3
  <2>5. \A i \in DOMAIN addr : addr[i] \in 0 .. last
    <3>1. \A v \in V : v \in Nat /\ v <= last
      BY <2>1, <2>2 DEF V
    <3>2. last \in Nat
      BY <2>1
    <3> QED
      BY <2>4, <3>1, <3>2
  <2>6. af \in {0, 4, 6}
    BY <1>1
  <2> QED
    BY <1>0, <1>a, <2>4, <2>5, <2>6, TypeParts
<1>2. CASE af = 6 /\ addr \in [1 .. 8 -> WordValues]
  <2>1. last = 65535 /\ size = 8
    BY <1>2
  <2>2. \A v \in WordValues : v \in Nat /\ v <= 65535
    BY WordIsNat
  <2> DEFINE V == WordValues
  <2>3. addr \in [1 .. 8 -> V]
    BY <1>2
  <2> HIDE DEF V, last, size
  <2>4. Len(addr) = size /\ \A i \in DOMAIN addr : addr[i] \in V
    BY <2>1, <2>3
  <2>5. \A i \in DOMAIN addr : addr[i] \in 0 .. last
    <3>1. \A v \in V : v \in Nat /\ v <= last
      BY <2>1, <2>2 DEF V
    <3>2. last \in Nat
      BY <2>1
    <3> HIDE DEF last
    <3> QED
      BY <2>4, <3>1, <3>2
  <2>6. af \in {0, 4, 6}
    BY <1>2
  <2> QED
    BY <1>0, <1>a, <2>4, <2>5, <2>6, TypeParts
<1> QED
  BY <1>1, <1>2 DEF OfFamily

LEMMA AddressTypes == AddressInv => Address!AddressTypeOK
<1> SUFFICES ASSUME AddressInv PROVE Address!AddressTypeOK
  OBVIOUS
<1>1. CASE stage = "blank" /\ af = 0 /\ addr = <<>>
  BY <1>1 DEF Address!AddressTypeOK
<1>2. CASE OfFamily(af, addr) /\ stage \in {"filled", "written", "read"}
  BY <1>2, FamilyTyped
<1>3. stage = "read" => OfFamily(af, addr)
  BY MadeTyped DEF AddressInv
<1> QED
  BY <1>1, <1>2, <1>3 DEF AddressInv

LEMMA Exact == AddressInv => Address!DottedTextIsExact
<1> SUFFICES ASSUME AddressInv, stage = "read", af = 4
             PROVE  Address!inet_ntop4(addr) = text
                      \/ (addr = Address!Zeroes(4) /\ Address!inet_pton4(text) = Address!None)
  BY DEF Address!DottedTextIsExact
<1>1. text \in Seq(Chars) /\ addr = Address!Taken(Address!inet_pton4(text), 4)
  BY DEF AddressInv, MadeFrom
<1>2. CASE Address!inet_pton4(text) = Address!None
  BY <1>1, <1>2 DEF Address!Taken
<1>3. CASE Address!inet_pton4(text) # Address!None
  BY <1>1, <1>3, OctetsExact DEF Address!Taken
<1> QED
  BY <1>2, <1>3

LEMMA NoDot == ASSUME NEW s \in Seq(Plain) PROVE ~HasDot(s)
BY PlainChars, ElementOfSeq, LenProperties DEF HasDot

LEMMA Survives == AddressInv => Address!AddressSurvivesText
<1> SUFFICES ASSUME AddressInv, stage = "read", kept # <<>>
             PROVE  IF Len(kept) = 8 /\ Address!Encapsulates(kept, Address!Best(kept))
                    THEN af = 4 /\ addr = Address!Zeroes(4) ELSE addr = kept
  BY DEF Address!AddressSurvivesText, Address!None
<1>1. MadeFrom(text, af, addr)
  BY DEF AddressInv
<1>2. PICK f : OfFamily(f, kept) /\ text = TextOf(f, kept)
  BY DEF AddressInv
<1>3. CASE f = 4 /\ kept \in [1 .. 4 -> OctetValues]
  <2>1. HasDot(text) /\ Address!inet_pton4(text) = kept
    BY <1>2, <1>3, OctetsReturn DEF TextOf
  <2>2. addr = kept
    BY <1>1, <2>1 DEF MadeFrom, Address!Taken, Address!None
  <2>3. Len(kept) = 4
    BY <1>3
  <2> QED
    BY <2>2, <2>3
<1>4. CASE f = 6 /\ kept \in [1 .. 8 -> WordValues]
  <2>0. Len(kept) = 8 /\ text = Address!inet_ntop6(kept)
    BY <1>2, <1>4 DEF TextOf
  <2>1. CASE WritesPlain(kept)
    <3>1. text \in Seq(Plain) /\ Address!inet_pton6(text) = kept
      BY <1>4, <2>0, <2>1, PlainReturns
    <3>2. ~HasDot(text)
      BY <3>1, NoDot
    <3>3. addr = kept
      BY <1>1, <3>1, <3>2 DEF MadeFrom, Address!Taken, Address!None
    <3> QED
      BY <2>1, <3>3 DEF WritesPlain
  <2>2. CASE ~WritesPlain(kept)
    <3>1. text \in Seq(Chars) /\ Len(text) > 0 /\ text[1] = Address!Colon /\ HasDot(text)
      BY <1>4, <2>0, <2>2, DottedJoin
    <3>2. Address!inet_pton4(text) = Address!None
      BY <3>1, ColonRefused
    <3>3. af = 4 /\ addr = Address!Zeroes(4)
      BY <1>1, <3>1, <3>2 DEF MadeFrom, Address!Taken
    <3> QED
      BY <2>0, <2>2, <3>3 DEF WritesPlain
  <2> QED
    BY <2>1, <2>2
<1> QED
  BY <1>2, <1>3, <1>4 DEF OfFamily

\* However many characters it has, a dotted text is taken for an address only when
\* it is what inet_ntop writes for that address (xxsocket.cpp:281-312).
THEOREM DottedIsExact == LibSpec => []DottedTextIsExact
<1>1. AddressInv => DottedTextIsExact
  BY Exact DEF DottedTextIsExact
<1> QED
  BY <1>1, AddressInitial, AddressStep, PTL DEF LibSpec

\* Every IPv4 address, and every IPv6 address that does not end in an IPv4 one, is
\* what its text is read as, wherever its zeroes are (xxsocket.cpp:131-420).
THEOREM AddressReturns == LibSpec => []AddressSurvivesText
<1>1. AddressInv => AddressSurvivesText
  BY Survives DEF AddressSurvivesText
<1> QED
  BY <1>1, AddressInitial, AddressStep, PTL DEF LibSpec

\* Every variable of every part keeps its type, for any values of the constants: an
\* endpoint read from any text holds an address of its family.
THEOREM LibraryTyped == LibSpec => []LibTypeOK
<1>1. AddressInv => Address!AddressTypeOK
  BY AddressTypes
<1>2. LibSpec => []Address!AddressTypeOK
  BY <1>1, AddressInitial, AddressStep, PTL DEF LibSpec
<1> QED
  BY <1>2, PartsTyped, PTL DEF LibTypeOK
=============================================================================
