---------------------------- MODULE StringProofs ----------------------------
(***************************************************************************)
(* What the helpers on text make of a text, for every text and every       *)
(* delimiter: that the forms of strtrim and of split agree, that split     *)
(* finds the fields, what get_short_name leaves, and that hexadecimal text *)
(* returns.  First what these proofs and those about addresses need to     *)
(* know of induction over numbers, of functions that are defined by        *)
(* recursion and of texts one behind the other.                            *)
(***************************************************************************)
EXTENDS Library, FiniteSetTheorems, SequenceTheorems, TLAPS

(* Induction for a set of numbers, and functions defined by recursion *)

Below(m) == 0 .. m - 1

\* A set of numbers has a least one: of the intervals below its members one
\* contains none of the others.
LEMMA LeastMember ==
    ASSUME NEW T \in SUBSET Nat, T # {}
    PROVE  \E m \in T : \A k \in T : m <= k
<1> DEFINE Intervals == {Below(m) : m \in T}
<1>1. Intervals \subseteq FiniteSubsetsOf(Nat) /\ Intervals # {}
  <2>1. ASSUME NEW m \in T PROVE Below(m) \subseteq Nat /\ IsFiniteSet(Below(m))
    BY FS_Interval DEF Below
  <2> QED
    BY <2>1 DEF FiniteSubsetsOf
<1>2. IsWellFoundedOn(StrictSubsetOrdering(Nat), FiniteSubsetsOf(Nat))
  BY FS_StrictSubsetOrderingWellFounded
<1> HIDE DEF Intervals
<1>3. \E x \in Intervals : \A y \in Intervals : ~(<<y, x>> \in StrictSubsetOrdering(Nat))
  BY <1>1, <1>2, WFMin
<1>4. PICK m \in T : \A k \in T : ~(<<Below(k), Below(m)>> \in StrictSubsetOrdering(Nat))
  BY <1>3 DEF Intervals
<1>5. ASSUME NEW k \in T, k < m PROVE FALSE
  <2>1. Below(k) \subseteq Below(m) /\ k \in Below(m) /\ k \notin Below(k) /\ Below(m) \subseteq Nat
    BY <1>5 DEF Below
  <2>2. <<Below(k), Below(m)>> \in StrictSubsetOrdering(Nat)
    BY <2>1 DEF StrictSubsetOrdering
  <2> QED
    BY <1>4, <2>2
<1> QED
  BY <1>5

\* What holds at 0, and at i + 1 if at i, holds up to n.
LEMMA UpTo ==
    ASSUME NEW n \in Nat, NEW S, 0 \in S, \A i \in 0 .. n - 1 : i \in S => i + 1 \in S
    PROVE  0 .. n \subseteq S
<1> SUFFICES ASSUME ~(0 .. n \subseteq S) PROVE FALSE
  OBVIOUS
<1>1. PICK m \in (0 .. n) \ S : \A k \in (0 .. n) \ S : m <= k
  <2>1. (0 .. n) \ S \in SUBSET Nat /\ (0 .. n) \ S # {}
    OBVIOUS
  <2> QED
    BY <2>1, LeastMember
<1>2. m # 0 /\ m - 1 \in 0 .. n - 1 /\ m - 1 \in S
  BY <1>1
<1> QED
  BY <1>1, <1>2

\* The states f of a machine that goes through n inputs: Step[<<x, i>>] is the
\* state behind x at the i-th.
IsRun(f, States, first, n, Step) ==
    /\ f \in [0 .. n -> States]
    /\ f[0] = first
    /\ \A i \in 1 .. n : f[i] = Step[<<f[i - 1], i>>]

LEMMA Runs ==
    ASSUME NEW States, NEW first \in States, NEW n \in Nat,
           NEW Step \in [States \X (1 .. n) -> States]
    PROVE  \E f : IsRun(f, States, first, n, Step)
<1> DEFINE Run(f, m) == f \in [0 .. m -> States] /\ f[0] = first
                           /\ \A i \in 1 .. m : f[i] = Step[<<f[i - 1], i>>]
           S == {m \in 0 .. n : \E f : Run(f, m)}
<1>1. 0 \in S
  <2>1. Run([i \in 0 .. 0 |-> first], 0)
    OBVIOUS
  <2> HIDE DEF Run
  <2> QED
    BY <2>1
<1>2. ASSUME NEW m \in 0 .. n - 1, m \in S PROVE m + 1 \in S
  <2>1. PICK f : Run(f, m)
    BY <1>2
  <2> DEFINE g == [i \in 0 .. m + 1 |-> IF i = m + 1 THEN Step[<<f[m], m + 1>>] ELSE f[i]]
  <2>2. f[m] \in States /\ Step[<<f[m], m + 1>>] \in States
    BY <2>1
  <2>3. g \in [0 .. m + 1 -> States] /\ g[0] = first
    BY <2>1, <2>2
  <2>4. ASSUME NEW i \in 1 .. m + 1 PROVE g[i] = Step[<<g[i - 1], i>>]
    <3>1. CASE i = m + 1
      <4>1. g[m + 1] = Step[<<f[m], m + 1>>] /\ g[m] = f[m] /\ i - 1 = m
        BY <3>1
      <4> HIDE DEF g
      <4> QED
        BY <3>1, <4>1
    <3>2. CASE i \in 1 .. m
      <4>1. g[i] = f[i] /\ g[i - 1] = f[i - 1]
        BY <3>2
      <4> QED
        BY <2>1, <3>2, <4>1
    <3> QED
      BY <3>1, <3>2
  <2>5. Run(g, m + 1)
    BY <2>3, <2>4
  <2> HIDE DEF g, Run
  <2> QED
    BY <2>5
<1>3. n \in S
  <2> HIDE DEF Run
  <2> HIDE DEF S
  <2>1. 0 .. n \subseteq S
    BY <1>1, <1>2, UpTo
  <2> QED
    BY <2>1
<1>4. PICK f : Run(f, n)
  BY <1>3
<1>5. IsRun(f, States, first, n, Step)
  BY <1>4 DEF IsRun
<1> QED
  BY <1>5

\* One text behind the other.
Cat(p, q) == p \o q

\* What FlattenSeq computes, in every module that has it.
Flat(seqs) ==
    IF Len(seqs) = 0 THEN seqs
    ELSE LET flatten[i \in 1 .. Len(seqs)] ==
                 IF i = 1 THEN seqs[i] ELSE flatten[i - 1] \o seqs[i]
         IN  flatten[Len(seqs)]

\* f[i] is what the first i of the texts are together.
Together(f, seqs, n, S) ==
    /\ \A i \in 1 .. n : f[i] \in Seq(S)
    /\ f[1] = seqs[1]
    /\ \A i \in 1 .. n - 1 : f[i + 1] = Cat(f[i], seqs[i + 1])

\* FlattenSeq puts one text behind the other.
LEMMA FlatUnfold ==
    ASSUME NEW S, NEW n \in Nat \ {0}, NEW seqs \in [1 .. n -> Seq(S)]
    PROVE  \E f : Together(f, seqs, n, S) /\ Flat(seqs) = f[n]
<1> DEFINE Step == [p \in Seq(S) \X (1 .. n) |-> IF p[2] = 1 THEN seqs[1] ELSE Cat(p[1], seqs[p[2]])]
<1>1. Step \in [Seq(S) \X (1 .. n) -> Seq(S)]
  <2>1. ASSUME NEW x \in Seq(S), NEW i \in 1 .. n
        PROVE  (IF i = 1 THEN seqs[1] ELSE Cat(x, seqs[i])) \in Seq(S)
    <3>1. seqs[1] \in Seq(S) /\ seqs[i] \in Seq(S)
      OBVIOUS
    <3> QED
      BY <3>1, ConcatProperties DEF Cat
  <2> QED
    BY <2>1
<1>2. <<>> \in Seq(S)
  OBVIOUS
<1>3. PICK f : IsRun(f, Seq(S), <<>>, n, Step)
  <2> HIDE DEF Step
  <2> QED
    BY <1>1, <1>2, Runs
<1>4. ASSUME NEW i \in 1 .. n
      PROVE  f[i] \in Seq(S) /\ f[i] = IF i = 1 THEN seqs[1] ELSE Cat(f[i - 1], seqs[i])
  <2>1. <<f[i - 1], i>> \in Seq(S) \X (1 .. n) /\ f[i] \in Seq(S)
    <3>1. i - 1 \in 0 .. n /\ i \in 0 .. n
      OBVIOUS
    <3> HIDE DEF Step
    <3> QED
      BY SMTT(30), <1>3, <3>1 DEF IsRun
  <2>2. Step[<<f[i - 1], i>>] = IF i = 1 THEN seqs[1] ELSE Cat(f[i - 1], seqs[i])
    BY <2>1
  <2> HIDE DEF Step
  <2> QED
    BY <1>3, <2>1, <2>2 DEF IsRun
<1> DEFINE F(g) == [i \in 1 .. n |-> IF i = 1 THEN seqs[i] ELSE Cat(g[i - 1], seqs[i])]
           h == [i \in 1 .. n |-> f[i]]
<1>5. h = F(h)
  <2>1. ASSUME NEW i \in 1 .. n
        PROVE  f[i] = IF i = 1 THEN seqs[i] ELSE Cat(h[i - 1], seqs[i])
    <3>1. CASE i = 1
      BY <1>4, <3>1
    <3>2. CASE i # 1
      <4>1. i - 1 \in 1 .. n
        BY <3>2
      <4> QED
        BY <1>4, <3>2, <4>1
    <3> QED
      BY <3>1, <3>2
  <2> QED
    BY <2>1
<1> DEFINE g == CHOOSE g : g = F(g)
<1>6. g = F(g)
  <2> HIDE DEF F, h
  <2> QED
    BY <1>5
<1>7. Flat(seqs) = g[n]
  <2>1. Len(seqs) = n
    OBVIOUS
  <2> QED
    BY <2>1 DEF Flat, Cat
<1> HIDE DEF g
<1>8. /\ g[1] = seqs[1]
      /\ \A i \in 1 .. n - 1 : g[i + 1] = Cat(g[i], seqs[i + 1])
  <2>1. 1 \in 1 .. n
    OBVIOUS
  <2>2. g[1] = seqs[1]
    BY <1>6, <2>1
  <2>3. ASSUME NEW i \in 1 .. n - 1 PROVE g[i + 1] = Cat(g[i], seqs[i + 1])
    <3>1. i + 1 \in 1 .. n /\ i + 1 - 1 = i /\ i + 1 # 1
      OBVIOUS
    <3>2. g[i + 1] = IF i + 1 = 1 THEN seqs[i + 1] ELSE Cat(g[i + 1 - 1], seqs[i + 1])
      BY <1>6, <3>1
    <3> QED
      BY <3>1, <3>2
  <2> QED
    BY <2>2, <2>3
<1> DEFINE T == {i \in 0 .. n - 1 : g[i + 1] \in Seq(S)}
<1>9. \A i \in 1 .. n : g[i] \in Seq(S)
  <2>1. 0 \in T
    BY <1>8
  <2>2. ASSUME NEW i \in 0 .. n - 1 - 1, i \in T PROVE i + 1 \in T
    <3>1. i + 1 \in 1 .. n - 1 /\ i + 1 + 1 \in 1 .. n /\ seqs[i + 1 + 1] \in Seq(S)
      OBVIOUS
    <3>2. g[i + 1 + 1] = Cat(g[i + 1], seqs[i + 1 + 1])
      BY <1>8, <3>1
    <3>3. g[i + 1 + 1] \in Seq(S)
      BY <2>2, <3>1, <3>2, ConcatProperties DEF Cat
    <3> QED
      BY <3>1, <3>3
  <2> DEFINE m == n - 1
  <2>3. m \in Nat /\ \A i \in 0 .. m - 1 : i \in T => i + 1 \in T
    BY <2>2
  <2> HIDE DEF T, m
  <2>4. 0 .. m \subseteq T
    BY <2>1, <2>3, UpTo
  <2>5. ASSUME NEW i \in 1 .. n PROVE g[i] \in Seq(S)
    <3>1. i - 1 \in 0 .. m /\ i - 1 + 1 = i
      BY DEF m
    <3>2. i - 1 \in T
      BY <2>4, <3>1
    <3> QED
      BY <3>1, <3>2 DEF T
  <2> QED
    BY <2>5
<1>10. Together(g, seqs, n, S)
  BY <1>8, <1>9 DEF Together
<1> QED
  BY <1>7, <1>10

-----------------------------------------------------------------------------
(* Searching a text, and texts one behind the other *)

\* FirstFrom finds the first of the characters from i on, or the end.
LEMMA FirstThere ==
    ASSUME NEW S, NEW s \in Seq(S), NEW i \in 1 .. Len(s) + 1, NEW cs, NEW j,
           j = Text!FirstFrom(s, i, cs)
    PROVE  /\ j \in i .. Len(s) + 1
           /\ j <= Len(s) => s[j] \in cs
           /\ \A k \in i .. j - 1 : s[k] \notin cs
<1> DEFINE T == {k \in i .. Len(s) + 1 : k <= Len(s) => s[k] \in cs}
           Fits(k) == /\ k <= Len(s) => s[k] \in cs
                      /\ \A l \in i .. k - 1 : s[l] \notin cs
<1>1. Len(s) + 1 \in T /\ T \in SUBSET Nat
  OBVIOUS
<1>2. PICK m \in T : \A k \in T : m <= k
  <2> HIDE DEF T
  <2> QED
    BY <1>1, LeastMember
<1>3. m \in i .. Len(s) + 1 /\ Fits(m)
  BY <1>2
<1>4. j = CHOOSE k \in i .. Len(s) + 1 : Fits(k)
  BY DEF Text!FirstFrom
<1> HIDE DEF Fits
<1>5. j \in i .. Len(s) + 1 /\ Fits(j)
  BY <1>3, <1>4
<1> QED
  BY <1>5 DEF Fits

\* find_last_of finds the last of the characters, or 0.
LEMMA LastThere ==
    ASSUME NEW S, NEW s \in Seq(S), NEW cs, NEW j, j = Text!find_last_of(s, cs)
    PROVE  /\ j \in 0 .. Len(s)
           /\ j > 0 => s[j] \in cs
           /\ \A k \in j + 1 .. Len(s) : s[k] \notin cs
<1> DEFINE n == Len(s)
           T == {k \in 0 .. n : n - k > 0 => s[n - k] \in cs}
           Fits(k) == /\ k > 0 => s[k] \in cs
                      /\ \A l \in k + 1 .. Len(s) : s[l] \notin cs
<1>1. n \in T /\ T \in SUBSET Nat
  OBVIOUS
<1>2. PICK m \in T : \A k \in T : m <= k
  <2> HIDE DEF T
  <2> QED
    BY <1>1, LeastMember
<1>3. n - m \in 0 .. Len(s) /\ Fits(n - m)
  <2>1. m \in 0 .. n /\ (n - m > 0 => s[n - m] \in cs)
    BY <1>2
  <2>2. ASSUME NEW l \in n - m + 1 .. n PROVE s[l] \notin cs
    <3>1. n - l \in 0 .. n /\ n - (n - l) = l /\ n - l < m
      BY <2>1, <2>2
    <3>2. n - l \notin T
      BY <1>2, <2>1, <3>1
    <3> QED
      BY <3>1, <3>2
  <2> QED
    BY <2>1, <2>2
<1>4. j = CHOOSE k \in 0 .. Len(s) : Fits(k)
  BY DEF Text!find_last_of
<1> HIDE DEF Fits
<1>5. j \in 0 .. Len(s) /\ Fits(j)
  BY <1>3, <1>4
<1> QED
  BY <1>5 DEF Fits

\* Texts one behind the other are a text; it does not matter which two are put
\* together first, and the empty one changes nothing.
LEMMA CatLaws ==
    ASSUME NEW T, NEW p \in Seq(T), NEW q \in Seq(T), NEW r \in Seq(T)
    PROVE  /\ Cat(p, q) \in Seq(T)
           /\ Cat(Cat(p, q), r) = Cat(p, Cat(q, r))
           /\ Cat(p, <<>>) = p /\ Cat(<<>>, p) = p
BY ConcatProperties, ConcatAssociative, ConcatEmptySeq DEF Cat

\* Functions defined by recursion from the end: f[i] is A[i] and what f is at the
\* place i jumps to.
IsRunBack(f, T, m, A, jump) ==
    /\ f \in [1 .. m -> Seq(T)]
    /\ \A i \in 1 .. m : f[i] = Cat(A[i], IF jump[i] > m THEN <<>> ELSE f[jump[i]])

\* When every place jumps forward there is such a function.
LEMMA RunsBack ==
    ASSUME NEW T, NEW m \in Nat, NEW A \in [1 .. m -> Seq(T)],
           NEW jump \in [1 .. m -> Nat], \A i \in 1 .. m : jump[i] > i
    PROVE  \E f : IsRunBack(f, T, m, A, jump)
<1> DEFINE Run(f, k) == f \in [m - k + 1 .. m -> Seq(T)] /\ \A i \in m - k + 1 .. m :
                 f[i] = Cat(A[i], IF jump[i] > m THEN <<>> ELSE f[jump[i]])
           S == {k \in 0 .. m : \E f : Run(f, k)}
<1>1. 0 \in S
  <2>1. Run([i \in m - 0 + 1 .. m |-> <<>>], 0)
    OBVIOUS
  <2> HIDE DEF Run
  <2> QED
    BY <2>1
<1>2. ASSUME NEW k \in 0 .. m - 1, k \in S PROVE k + 1 \in S
  <2>1. PICK f : Run(f, k)
    BY <1>2
  <2> DEFINE p == m - k
             v == Cat(A[p], IF jump[p] > m THEN <<>> ELSE f[jump[p]])
             g == [i \in p .. m |-> IF i = p THEN v ELSE f[i]]
  <2>2. p \in 1 .. m /\ m - (k + 1) + 1 = p /\ m - k + 1 = p + 1
    OBVIOUS
  <2>3. v \in Seq(T)
    <3> DEFINE w == IF jump[p] > m THEN <<>> ELSE f[jump[p]]
    <3>1. w \in Seq(T)
      <4>1. CASE jump[p] > m
        BY <4>1
      <4>2. CASE ~(jump[p] > m)
        <5>1. jump[p] \in p + 1 .. m
          BY <2>2, <4>2
        <5> QED
          BY <2>1, <2>2, <4>2, <5>1
      <4> QED
        BY <4>1, <4>2
    <3>2. A[p] \in Seq(T) /\ v = Cat(A[p], w)
      BY <2>2
    <3> HIDE DEF w, v
    <3> QED
      BY <3>1, <3>2, ConcatProperties DEF Cat
  <2> HIDE DEF p
  <2>4. g \in [p .. m -> Seq(T)]
    <3> HIDE DEF v
    <3> QED
      BY <2>1, <2>2, <2>3
  <2>5. ASSUME NEW i \in p .. m
        PROVE  g[i] = Cat(A[i], IF jump[i] > m THEN <<>> ELSE g[jump[i]])
    <3>1. i \in 1 .. m /\ jump[i] \in Nat /\ jump[i] > i
      BY <2>2
    <3>2. ~(jump[i] > m) => g[jump[i]] = f[jump[i]]
      <4> HIDE DEF v
      <4> QED
        BY <2>2, <3>1
    <3>3. CASE i = p
      <4>1. g[i] = v
        <5> HIDE DEF v
        <5> QED
          BY <3>3
      <4> HIDE DEF g
      <4> QED
        BY <3>2, <3>3, <4>1
    <3>4. CASE i # p
      <4>1. g[i] = f[i] /\ i \in m - k + 1 .. m
        <5> HIDE DEF v
        <5> QED
          BY <2>2, <3>4
      <4>2. f[i] = Cat(A[i], IF jump[i] > m THEN <<>> ELSE f[jump[i]])
        BY <2>1, <4>1
      <4> HIDE DEF g, Run
      <4> QED
        BY <3>2, <4>1, <4>2
    <3> QED
      BY <3>3, <3>4
  <2>6. Run(g, k + 1)
    <3> HIDE DEF g
    <3> QED
      BY <2>2, <2>4, <2>5
  <2> HIDE DEF g, Run
  <2> QED
    BY <2>6
<1>3. m \in S
  <2> HIDE DEF Run
  <2> HIDE DEF S
  <2>1. 0 .. m \subseteq S
    BY <1>1, <1>2, UpTo
  <2> QED
    BY <2>1
<1>4. PICK f : Run(f, m)
  BY <1>3
<1>5. m - m + 1 = 1
  OBVIOUS
<1>6. IsRunBack(f, T, m, A, jump)
  BY <1>4, <1>5 DEF IsRunBack
<1> QED
  BY <1>6

-----------------------------------------------------------------------------
(* split *)

\* The first delimiter from i on, or the end.
Stop(s, d, i) == Text!FirstFrom(s, i, {d})

\* Stop finds the first delimiter from i on, or one past the end.
LEMMA StopThere ==
    ASSUME NEW S, NEW s \in Seq(S), NEW i \in 1 .. Len(s) + 1, NEW d
    PROVE  /\ Stop(s, d, i) \in i .. Len(s) + 1
           /\ Stop(s, d, i) <= Len(s) => s[Stop(s, d, i)] = d
           /\ \A k \in i .. Stop(s, d, i) - 1 : s[k] # d
BY FirstThere DEF Stop

\* And there is no other such place.
LEMMA StopIs ==
    ASSUME NEW S, NEW s \in Seq(S), NEW i \in 1 .. Len(s) + 1, NEW d, NEW j \in i .. Len(s) + 1,
           j <= Len(s) => s[j] = d, \A k \in i .. j - 1 : s[k] # d
    PROVE  Stop(s, d, i) = j
<1> DEFINE l == Stop(s, d, i)
<1>1. l \in i .. Len(s) + 1 /\ (l <= Len(s) => s[l] = d) /\ \A k \in i .. l - 1 : s[k] # d
  BY StopThere
<1> HIDE DEF l
<1>2. CASE l < j
  BY <1>1, <1>2
<1>3. CASE j < l
  BY <1>1, <1>3
<1> QED
  BY <1>1, <1>2, <1>3 DEF l

\* A piece is nothing, or one text.
LEMMA PieceTyped ==
    ASSUME NEW S, NEW s \in Seq(S), NEW i \in 1 .. Len(s) + 1, NEW j \in 1 .. Len(s) + 1
    PROVE  /\ Text!Piece(s, i, j) \in Seq(Seq(S))
           /\ i = j => Text!Piece(s, i, j) = <<>>
           /\ i # j => /\ Text!Piece(s, i, j) = <<SubSeq(s, i, j - 1)>>
                       /\ SubSeq(s, i, j - 1) \in Seq(S)
<1>1. SubSeq(s, i, j - 1) \in Seq(S)
  <2>1. \A k \in i .. j - 1 : s[k] \in S
    OBVIOUS
  <2>2. i \in Int /\ j - 1 \in Int
    OBVIOUS
  <2> QED
    BY <2>1, <2>2, SubSeqProperties
<1> DEFINE x == SubSeq(s, i, j - 1)
<1>2. <<x>> \in Seq(Seq(S))
  <2> HIDE DEF x
  <2> QED
    BY <1>1 DEF x
<1>3. Text!Piece(s, i, j) = IF i = j THEN <<>> ELSE <<x>>
  BY DEF Text!Piece
<1> HIDE DEF x
<1> QED
  BY <1>1, <1>2, <1>3 DEF x

\* What splitting puts out from i on, when the delimiter behind i begins at
\* stop[i] and is w long.
Parts(s, stop, w) ==
    CHOOSE f : f = [i \in 1 .. Len(s) + 1 |->
        Text!Piece(s, i, stop[i]) \o (IF stop[i] > Len(s) THEN <<>> ELSE f[stop[i] + w])]

After(f, n, j, w) == IF j > n THEN <<>> ELSE f[j + w]

\* Parts is what it is said to be, and puts out texts.
LEMMA PartsUnfold ==
    ASSUME NEW S, NEW s \in Seq(S), NEW stop \in [1 .. Len(s) + 1 -> 1 .. Len(s) + 1],
           NEW w \in Nat \ {0},
           \A i \in 1 .. Len(s) + 1 : stop[i] >= i /\ (stop[i] <= Len(s) => stop[i] + w <= Len(s) + 1)
    PROVE  /\ Parts(s, stop, w) \in [1 .. Len(s) + 1 -> Seq(Seq(S))]
           /\ \A i \in 1 .. Len(s) + 1 :
                 Parts(s, stop, w)[i] =
                     Cat(Text!Piece(s, i, stop[i]), After(Parts(s, stop, w), Len(s), stop[i], w))
<1> DEFINE n == Len(s)
           m == n + 1
           A == [i \in 1 .. m |-> Text!Piece(s, i, stop[i])]
           jump == [i \in 1 .. m |-> stop[i] + w]
<1>0. n \in Nat /\ m \in Nat /\ \A i \in 1 .. m : stop[i] \in i .. m /\ (stop[i] <= n => stop[i] + w <= m)
  OBVIOUS
<1>1. A \in [1 .. m -> Seq(Seq(S))]
  BY <1>0, PieceTyped
<1>2. jump \in [1 .. m -> Nat] /\ \A i \in 1 .. m : jump[i] > i
  BY <1>0
<1>3. PICK f : IsRunBack(f, Seq(S), m, A, jump)
  <2> HIDE DEF A, jump, m
  <2> QED
    BY <1>0, <1>1, <1>2, RunsBack
<1>4. ASSUME NEW i \in 1 .. m
      PROVE  f[i] = Cat(Text!Piece(s, i, stop[i]), After(f, n, stop[i], w))
  <2>1. A[i] = Text!Piece(s, i, stop[i]) /\ jump[i] = stop[i] + w
    OBVIOUS
  <2> HIDE DEF A, jump
  <2>2. jump[i] > m <=> stop[i] > n
    <3> DEFINE j == stop[i]
    <3>1. j \in i .. m /\ (j <= n => j + w <= m)
      BY <1>0
    <3> HIDE DEF j
    <3>2. j + w > m <=> j > n
      BY <1>0, <3>1
    <3> QED
      BY <2>1, <3>2 DEF j
  <2>3. f[i] = Cat(A[i], IF jump[i] > m THEN <<>> ELSE f[jump[i]])
    BY <1>3 DEF IsRunBack
  <2> HIDE DEF m, n
  <2> QED
    BY <2>1, <2>2, <2>3 DEF After
<1> DEFINE F(g) == [i \in 1 .. m |-> Cat(Text!Piece(s, i, stop[i]), After(g, n, stop[i], w))]
<1>5. f = F(f)
  <2>1. f = [i \in 1 .. m |-> f[i]]
    BY <1>3 DEF IsRunBack
  <2>2. \A i \in 1 .. m : f[i] = Cat(Text!Piece(s, i, stop[i]), After(f, n, stop[i], w))
    BY <1>4
  <2> HIDE DEF m, n
  <2> QED
    BY <2>1, <2>2
<1> DEFINE g == Parts(s, stop, w)
<1>6. g = CHOOSE h : h = F(h)
  BY DEF Parts, Cat, After
<1>7. g = F(g)
  <2> HIDE DEF F, g
  <2> QED
    BY <1>5, <1>6
<1>8. \A i \in 1 .. m : g[i] = Cat(Text!Piece(s, i, stop[i]), After(g, n, stop[i], w))
  <2> HIDE DEF g, m, n
  <2> QED
    BY <1>7
<1> DEFINE T == {k \in 0 .. m : \A i \in 1 .. m : i + k > m => g[i] \in Seq(Seq(S))}
<1>9. \A i \in 1 .. m : g[i] \in Seq(Seq(S))
  <2>1. 0 \in T
    BY <1>0
  <2>2. ASSUME NEW k \in 0 .. m - 1, k \in T PROVE k + 1 \in T
    <3>1. ASSUME NEW i \in 1 .. m, i + (k + 1) > m PROVE g[i] \in Seq(Seq(S))
      <4> DEFINE j == stop[i]
      <4>0. j \in i .. m /\ (j <= n => j + w <= m)
        BY <1>0
      <4> HIDE DEF j
      <4>1. After(g, n, j, w) \in Seq(Seq(S))
        <5>1. CASE j > n
          BY <5>1 DEF After
        <5>2. CASE ~(j > n)
          <6>1. j + w \in 1 .. m /\ j + w + k > m
            BY <1>0, <3>1, <4>0, <5>2
          <6> HIDE DEF g
          <6>2. g[j + w] \in Seq(Seq(S))
            BY <2>2, <6>1
          <6> QED
            BY <5>2, <6>2 DEF After
        <5> QED
          BY <5>1, <5>2
      <4>2. Text!Piece(s, i, j) \in Seq(Seq(S))
        BY <4>0, PieceTyped
      <4>3. g[i] = Cat(Text!Piece(s, i, j), After(g, n, j, w))
        BY <1>8 DEF j
      <4> HIDE DEF g
      <4> QED
        BY <4>1, <4>2, <4>3, ConcatProperties DEF Cat
    <3> HIDE DEF g
    <3>2. k + 1 \in 0 .. m
      BY <1>0
    <3> QED
      BY <3>1, <3>2
  <2> HIDE DEF T, m
  <2>3. 0 .. m \subseteq T
    BY <1>0, <2>1, <2>2, UpTo
  <2>4. m \in T
    BY <1>0, <2>3
  <2> QED
    BY <1>0, <2>4 DEF T
<1>10. g \in [1 .. m -> Seq(Seq(S))]
  <2> HIDE DEF g, m
  <2>1. g = [i \in 1 .. m |-> g[i]]
    BY <1>7
  <2> QED
    BY <1>9, <2>1
<1> HIDE DEF g
<1> QED
  BY <1>8, <1>10 DEF g

Stops(s, d) == [i \in 1 .. Len(s) + 1 |-> Stop(s, d, i)]

\* What is put out from i on when s is split by the character d.
Rest(s, d) == Parts(s, Stops(s, d), 1)

\* What is put out from i on is the piece up to the first delimiter, and what is
\* put out from behind that on.
LEMMA RestUnfold ==
    ASSUME NEW S, NEW s \in Seq(S), NEW d
    PROVE  /\ Rest(s, d) \in [1 .. Len(s) + 1 -> Seq(Seq(S))]
           /\ \A i \in 1 .. Len(s) + 1 :
                 Rest(s, d)[i] = Cat(Text!Piece(s, i, Stop(s, d, i)),
                                     After(Rest(s, d), Len(s), Stop(s, d, i), 1))
<1> DEFINE stop == Stops(s, d)
<1>1. \A i \in 1 .. Len(s) + 1 : stop[i] = Stop(s, d, i)
  BY DEF Stops
<1>2. /\ stop \in [1 .. Len(s) + 1 -> 1 .. Len(s) + 1]
      /\ \A i \in 1 .. Len(s) + 1 : stop[i] >= i /\ (stop[i] <= Len(s) => stop[i] + 1 <= Len(s) + 1)
  <2>1. \A i \in 1 .. Len(s) + 1 : Stop(s, d, i) \in i .. Len(s) + 1
    BY StopThere
  <2> QED
    BY <1>1, <2>1 DEF Stops
<1>3. 1 \in Nat \ {0} /\ Rest(s, d) = Parts(s, stop, 1)
  BY DEF Rest
<1> HIDE DEF stop
<1> QED
  BY <1>1, <1>2, <1>3, PartsUnfold

\* The split by any of several characters, given one, is that.
LEMMA AnyIsRest ==
    ASSUME NEW s, NEW d PROVE Text!splitAny(s, {d}) = Rest(s, d)[1]
<1> DEFINE m == Len(s) + 1
           l(i) == Text!FirstFrom(s, i, {d})
           F(f) == [i \in 1 .. m |->
               Text!Piece(s, i, l(i)) \o (IF l(i) > Len(s) THEN <<>> ELSE f[l(i) + 1])]
           G(f) == [i \in 1 .. m |-> Text!Piece(s, i, Stops(s, d)[i]) \o
               (IF Stops(s, d)[i] > Len(s) THEN <<>> ELSE f[Stops(s, d)[i] + 1])]
<1>1. Text!splitAny(s, {d}) = (CHOOSE f : f = F(f))[1]
  BY DEF Text!splitAny
<1>2. Rest(s, d) = CHOOSE f : f = G(f)
  BY DEF Rest, Parts
<1>3. \A i \in 1 .. m : Stops(s, d)[i] = l(i)
  BY DEF Stops, Stop
<1>4. ASSUME NEW f PROVE F(f) = G(f)
  <2> HIDE DEF l, m
  <2> QED
    BY <1>3
<1> HIDE DEF F, G
<1>5. (CHOOSE f : f = F(f)) = (CHOOSE f : f = G(f))
  BY <1>4
<1> QED
  BY <1>1, <1>2, <1>5

Matches(s, t) == [i \in 1 .. Len(s) + 1 |-> Text!FirstMatch(s, t, i)]

\* The split by a string jumps from match to match.
LEMMA StringIsParts ==
    ASSUME NEW s, NEW t PROVE Text!splitString(s, t) = Parts(s, Matches(s, t), Len(t))[1]
<1> DEFINE m == Len(s) + 1
           l(i) == Text!FirstMatch(s, t, i)
           F(f) == [i \in 1 .. m |->
               Text!Piece(s, i, l(i)) \o (IF l(i) > Len(s) THEN <<>> ELSE f[l(i) + Len(t)])]
           G(f) == [i \in 1 .. m |-> Text!Piece(s, i, Matches(s, t)[i]) \o
               (IF Matches(s, t)[i] > Len(s) THEN <<>> ELSE f[Matches(s, t)[i] + Len(t)])]
<1>1. Text!splitString(s, t) = (CHOOSE f : f = F(f))[1]
  BY DEF Text!splitString
<1>2. Parts(s, Matches(s, t), Len(t)) = CHOOSE f : f = G(f)
  BY DEF Parts
<1>3. \A i \in 1 .. m : Matches(s, t)[i] = l(i)
  BY DEF Matches
<1>4. ASSUME NEW f PROVE F(f) = G(f)
  <2> HIDE DEF l, m
  <2> QED
    BY <1>3
<1> HIDE DEF F, G
<1>5. (CHOOSE f : f = F(f)) = (CHOOSE f : f = G(f))
  BY <1>4
<1> QED
  BY <1>1, <1>2, <1>5

\* What FirstMatch finds.
LEMMA MatchThere ==
    ASSUME NEW S, NEW s \in Seq(S), NEW i \in 1 .. Len(s) + 1, NEW t, NEW j,
           j = Text!FirstMatch(s, t, i)
    PROVE  /\ j \in i .. Len(s) + 1
           /\ j <= Len(s) => Text!StartsAt(s, t, j)
           /\ \A k \in i .. j - 1 : ~Text!StartsAt(s, t, k)
<1> DEFINE T == {k \in i .. Len(s) + 1 : k <= Len(s) => Text!StartsAt(s, t, k)}
           Fits(k) == /\ k <= Len(s) => Text!StartsAt(s, t, k)
                      /\ \A l \in i .. k - 1 : ~Text!StartsAt(s, t, l)
<1>1. Len(s) + 1 \in T /\ T \in SUBSET Nat
  OBVIOUS
<1>2. PICK m \in T : \A k \in T : m <= k
  <2> HIDE DEF T
  <2> QED
    BY <1>1, LeastMember
<1>3. m \in i .. Len(s) + 1 /\ Fits(m)
  BY <1>2
<1>4. j = CHOOSE k \in i .. Len(s) + 1 : Fits(k)
  BY DEF Text!FirstMatch
<1> HIDE DEF Fits
<1>5. j \in i .. Len(s) + 1 /\ Fits(j)
  BY <1>3, <1>4
<1> QED
  BY <1>5 DEF Fits

\* splitting by a character and by a text of that one character is the same.
LEMMA MatchIsStop ==
    ASSUME NEW S, NEW s \in Seq(S), NEW d \in S, NEW i \in 1 .. Len(s) + 1
    PROVE  Text!FirstMatch(s, <<d>>, i) = Stop(s, d, i)
<1>0. Len(<<d>>) = 1 /\ Len(s) \in Nat
  OBVIOUS
<1>1. ASSUME NEW k \in 1 .. Len(s) + 1 PROVE Text!StartsAt(s, <<d>>, k) <=> k <= Len(s) /\ s[k] = d
  <2>1. CASE k <= Len(s)
    <3>1. SubSeq(s, k, k) = <<s[k]>>
      <4>1. SubSeq(s, k, k) = <<s[k]>> \o SubSeq(s, k + 1, k)
        BY <2>1, SubSeqRecursiveFirst
      <4>2. SubSeq(s, k + 1, k) = <<>>
        BY SubSeqEmpty
      <4>3. <<s[k]>> \in Seq(S)
        BY <2>1
      <4> QED
        BY <4>1, <4>2, <4>3, ConcatEmptySeq
    <3>2. k + 1 - 1 = k
      OBVIOUS
    <3> QED
      BY <1>0, <2>1, <3>1, <3>2 DEF Text!StartsAt
  <2>2. CASE ~(k <= Len(s))
    BY <1>0, <2>2 DEF Text!StartsAt
  <2> QED
    BY <2>1, <2>2
<1> DEFINE j == Text!FirstMatch(s, <<d>>, i)
<1>2. /\ j \in i .. Len(s) + 1
      /\ j <= Len(s) => Text!StartsAt(s, <<d>>, j)
      /\ \A k \in i .. j - 1 : ~Text!StartsAt(s, <<d>>, k)
  BY MatchThere
<1>3. (j <= Len(s) => s[j] = d) /\ \A k \in i .. j - 1 : s[k] # d
  <2> HIDE DEF j
  <2> QED
    BY <1>1, <1>2
<1> HIDE DEF j
<1> QED
  BY <1>2, <1>3, StopIs DEF j

\* The split by a string, given one character, is that too.
LEMMA StringIsAny ==
    ASSUME NEW S, NEW s \in Seq(S), NEW d \in S
    PROVE  Text!splitString(s, <<d>>) = Rest(s, d)[1]
<1>1. Matches(s, <<d>>) = Stops(s, d)
  BY MatchIsStop DEF Matches, Stops
<1>2. Len(<<d>>) = 1
  OBVIOUS
<1> QED
  BY <1>1, <1>2, StringIsParts DEF Rest

-----------------------------------------------------------------------------
(* split by a character, turn by turn *)

\* What a turn may find.
TurnStates(s, S) == [out : Seq(Seq(S)), start : 1 .. Len(s) + 1]

\* A turn of the split by a character keeps the types of what it changes.
LEMMA TurnTyped ==
    ASSUME NEW S, NEW s \in Seq(S), NEW d, NEW st \in TurnStates(s, S), NEW i \in 1 .. Len(s)
    PROVE  Text!Turn(s, d, st, i) \in TurnStates(s, S)
<1>1. st.out \in Seq(Seq(S)) /\ st.start \in 1 .. Len(s) + 1 /\ i + 1 \in 1 .. Len(s) + 1
        /\ i \in 1 .. Len(s) + 1
  BY DEF TurnStates
<1> DEFINE p == Text!Piece(s, st.start, i)
<1>2. p \in Seq(Seq(S))
  BY <1>1, PieceTyped
<1> HIDE DEF p
<1>3. st.out \o p \in Seq(Seq(S))
  BY <1>1, <1>2, ConcatProperties
<1>4. [out |-> st.out \o p, start |-> i + 1] \in TurnStates(s, S)
  BY <1>1, <1>3 DEF TurnStates
<1>5. Text!Turn(s, d, st, i) = IF s[i] # d THEN st ELSE [out |-> st.out \o p, start |-> i + 1]
  BY DEF Text!Turn, p
<1> QED
  BY <1>4, <1>5

\* The turns follow one another.
LEMMA ScanUnfold ==
    ASSUME NEW S, NEW s \in Seq(S), NEW d
    PROVE  /\ Text!Scan(s, d) \in [0 .. Len(s) -> TurnStates(s, S)]
           /\ Text!Scan(s, d)[0] = [out |-> <<>>, start |-> 1]
           /\ \A i \in 1 .. Len(s) :
                 Text!Scan(s, d)[i] = Text!Turn(s, d, Text!Scan(s, d)[i - 1], i)
<1> DEFINE n == Len(s)
           First == [out |-> <<>>, start |-> 1]
           Step == [x \in TurnStates(s, S) \X (1 .. n) |-> Text!Turn(s, d, x[1], x[2])]
           F(g) == [i \in 0 .. n |-> IF i = 0 THEN First ELSE Text!Turn(s, d, g[i - 1], i)]
<1>0. n \in Nat
  OBVIOUS
<1>1. First \in TurnStates(s, S)
  BY <1>0 DEF TurnStates
<1>2. Step \in [TurnStates(s, S) \X (1 .. n) -> TurnStates(s, S)]
  BY TurnTyped
<1>3. PICK f : IsRun(f, TurnStates(s, S), First, n, Step)
  <2> HIDE DEF Step, First, n
  <2> QED
    BY <1>0, <1>1, <1>2, Runs
<1>4. \A i \in 1 .. n : f[i] = Text!Turn(s, d, f[i - 1], i)
  <2> SUFFICES ASSUME NEW i \in 1 .. n PROVE f[i] = Text!Turn(s, d, f[i - 1], i)
    OBVIOUS
  <2>1. f[i - 1] \in TurnStates(s, S) /\ f[i] = Step[<<f[i - 1], i>>]
    <3>1. i - 1 \in 0 .. n
      OBVIOUS
    <3> HIDE DEF Step
    <3> QED
      BY <1>3, <3>1 DEF IsRun
  <2> QED
    BY <2>1
<1>5. f[0] = First /\ f = [i \in 0 .. n |-> f[i]]
  <2> HIDE DEF Step, First, n
  <2> QED
    BY <1>3 DEF IsRun
<1>6. f = F(f)
  <2>1. \A i \in 0 .. n : i = 0 \/ i \in 1 .. n
    OBVIOUS
  <2> HIDE DEF First, n
  <2> QED
    BY <1>4, <1>5, <2>1
<1> DEFINE g == Text!Scan(s, d)
<1>7. g = CHOOSE h : h = F(h)
  BY DEF Text!Scan
<1>8. g = F(g)
  <2> HIDE DEF F, g
  <2> QED
    BY <1>6, <1>7
<1> HIDE DEF g
<1>9. g = [i \in 0 .. n |-> g[i]] /\ g[0] = First /\ \A i \in 1 .. n : g[i] = Text!Turn(s, d, g[i - 1], i)
  <2>1. \A i \in 1 .. n : i # 0 /\ i \in 0 .. n
    OBVIOUS
  <2>2. 0 \in 0 .. n
    OBVIOUS
  <2> HIDE DEF First, n
  <2> QED
    BY <1>8, <2>1, <2>2
<1> DEFINE T == {i \in 0 .. n : g[i] \in TurnStates(s, S)}
<1>10. 0 .. n \subseteq T
  <2>1. 0 \in T
    <3> HIDE DEF First
    <3> QED
      BY <1>1, <1>9
  <2>2. ASSUME NEW i \in 0 .. n - 1, i \in T PROVE i + 1 \in T
    <3>1. i + 1 \in 1 .. n /\ i + 1 - 1 = i /\ g[i] \in TurnStates(s, S) /\ i + 1 \in 0 .. n
      BY <2>2
    <3>2. g[i + 1] = Text!Turn(s, d, g[i], i + 1)
      <4>1. \A j \in 1 .. n : g[j] = Text!Turn(s, d, g[j - 1], j)
        BY <1>9
      <4> HIDE DEF n
      <4>2. g[i + 1] = Text!Turn(s, d, g[i + 1 - 1], i + 1)
        BY <3>1, <4>1
      <4> QED
        BY <3>1, <4>2
    <3> HIDE DEF n
    <3> QED
      BY <3>1, <3>2, TurnTyped DEF n
  <2> HIDE DEF T, n
  <2> QED
    BY <1>0, <2>1, <2>2, UpTo
<1>11. g \in [0 .. n -> TurnStates(s, S)]
  <2> HIDE DEF n
  <2> QED
    BY <1>9, <1>10
<1> QED
  BY <1>9, <1>11 DEF g

\* What was put out, and what is to come from the field that was begun, is all.
AllOut(s, d, st, i) ==
    /\ st.start <= i + 1
    /\ \A k \in st.start .. i : s[k] # d
    /\ Cat(st.out, Rest(s, d)[st.start]) = Rest(s, d)[1]

\* A turn keeps that.
LEMMA TurnKeepsAll ==
    ASSUME NEW S, NEW s \in Seq(S), NEW d, NEW i \in 1 .. Len(s), NEW st \in TurnStates(s, S),
           AllOut(s, d, st, i - 1)
    PROVE  AllOut(s, d, Text!Turn(s, d, st, i), i)
<1>0. st.out \in Seq(Seq(S)) /\ st.start \in 1 .. Len(s) + 1 /\ st.start <= i
  BY DEF TurnStates, AllOut
<1>1. CASE s[i] # d
  <2>1. Text!Turn(s, d, st, i) = st
    BY <1>1 DEF Text!Turn
  <2>2. \A k \in st.start .. i : k = i \/ k \in st.start .. i - 1
    BY <1>0
  <2> QED
    BY <1>0, <1>1, <2>1, <2>2 DEF AllOut
<1>2. CASE s[i] = d
  <2> DEFINE a == st.start
             p == Text!Piece(s, a, i)
             r == Rest(s, d)
  <2>1. Stop(s, d, a) = i
    <3>1. i \in a .. Len(s) + 1 /\ \A k \in a .. i - 1 : s[k] # d
      BY <1>0 DEF AllOut
    <3> HIDE DEF a
    <3> QED
      BY <1>0, <1>2, <3>1, StopIs DEF a
  <2>2. r[a] = Cat(p, r[i + 1])
    <3>1. r[a] = Cat(Text!Piece(s, a, i), After(r, Len(s), i, 1))
      <4>1. a \in 1 .. Len(s) + 1
        BY <1>0
      <4>2. \A j \in 1 .. Len(s) + 1 :
              r[j] = Cat(Text!Piece(s, j, Stop(s, d, j)), After(r, Len(s), Stop(s, d, j), 1))
        BY RestUnfold
      <4> HIDE DEF r, a
      <4> QED
        BY <2>1, <4>1, <4>2
    <3>2. ~(i > Len(s))
      OBVIOUS
    <3> HIDE DEF r, a
    <3> QED
      BY <3>1, <3>2 DEF After
  <2>3. Text!Turn(s, d, st, i) = [out |-> Cat(st.out, p), start |-> i + 1]
    BY <1>2 DEF Text!Turn, Cat
  <2>4. p \in Seq(Seq(S)) /\ r[i + 1] \in Seq(Seq(S))
    <3>1. i + 1 \in 1 .. Len(s) + 1 /\ i \in 1 .. Len(s) + 1
      OBVIOUS
    <3> HIDE DEF r, p
    <3> QED
      BY ZenonT(40), <1>0, <3>1, RestUnfold, PieceTyped DEF r, p
  <2> HIDE DEF p, r, a
  <2>5. Cat(Cat(st.out, p), r[i + 1]) = Cat(st.out, Cat(p, r[i + 1]))
    <3> DEFINE x == st.out
               z == r[i + 1]
    <3>1. x \in Seq(Seq(S)) /\ z \in Seq(Seq(S)) /\ p \in Seq(Seq(S))
      BY <1>0, <2>4
    <3> HIDE DEF x, z
    <3>2. Cat(Cat(x, p), z) = Cat(x, Cat(p, z))
      BY <3>1, CatLaws
    <3> QED
      BY <3>2 DEF x, z
  <2>6. Cat(st.out, r[a]) = r[1]
    BY DEF AllOut, a, r
  <2>7. Cat(Cat(st.out, p), r[i + 1]) = r[1]
    BY <2>2, <2>5, <2>6
  <2> DEFINE new == [out |-> Cat(st.out, p), start |-> i + 1]
  <2>8. new.out = Cat(st.out, p) /\ new.start = i + 1
    OBVIOUS
  <2> HIDE DEF new
  <2>9. AllOut(s, d, new, i)
    BY <2>7, <2>8 DEF AllOut, r
  <2> QED
    BY <2>3, <2>9 DEF new
<1> QED
  BY <1>1, <1>2

\* So the split by a character puts out what the other two do.
LEMMA CharIsAny ==
    ASSUME NEW S, NEW s \in Seq(S), NEW d
    PROVE  Text!splitChar(s, d) = Rest(s, d)[1]
<1> DEFINE n == Len(s)
           g == Text!Scan(s, d)
           r == Rest(s, d)
           T == {i \in 0 .. n : AllOut(s, d, g[i], i)}
<1>0. n \in Nat /\ 1 \in 1 .. n + 1 /\ 0 \in 0 .. n
  OBVIOUS
<1>1. /\ g \in [0 .. n -> TurnStates(s, S)]
      /\ g[0] = [out |-> <<>>, start |-> 1]
      /\ \A i \in 1 .. n : g[i] = Text!Turn(s, d, g[i - 1], i)
  BY ScanUnfold
<1>2. /\ r \in [1 .. n + 1 -> Seq(Seq(S))]
      /\ \A i \in 1 .. n + 1 : r[i] = Cat(Text!Piece(s, i, Stop(s, d, i)), After(r, n, Stop(s, d, i), 1))
  BY RestUnfold
<1>3. 0 .. n \subseteq T
  <2>1. 0 \in T
    <3>1. g[0].out = <<>> /\ g[0].start = 1
      BY <1>1
    <3>2. Cat(<<>>, r[1]) = r[1]
      <4>1. r[1] \in Seq(Seq(S))
        BY <1>0, <1>2
      <4> HIDE DEF r
      <4> QED
        BY <4>1, ConcatEmptySeq DEF Cat
    <3> HIDE DEF g
    <3>3. AllOut(s, d, g[0], 0)
      BY <3>1, <3>2 DEF AllOut
    <3> QED
      BY <1>0, <3>3
  <2>2. ASSUME NEW i \in 0 .. n - 1, i \in T PROVE i + 1 \in T
    <3>1. i + 1 \in 1 .. n /\ i + 1 - 1 = i /\ i \in 0 .. n /\ i + 1 \in 0 .. n
      OBVIOUS
    <3>2. AllOut(s, d, g[i], i) /\ g[i] \in TurnStates(s, S)
      BY <1>1, <2>2, <3>1
    <3>3. g[i + 1] = Text!Turn(s, d, g[i], i + 1)
      BY <1>1, <3>1
    <3> HIDE DEF g
    <3>4. AllOut(s, d, g[i + 1], i + 1)
      BY <3>1, <3>2, <3>3, TurnKeepsAll
    <3> QED
      BY <3>1, <3>4
  <2> HIDE DEF T, n
  <2> QED
    BY <1>0, <2>1, <2>2, UpTo
<1> DEFINE st == g[n]
<1>4. AllOut(s, d, st, n) /\ st \in TurnStates(s, S)
  BY <1>0, <1>1, <1>3
<1>5. st.out \in Seq(Seq(S)) /\ st.start \in 1 .. n + 1
  BY <1>4 DEF TurnStates
<1> HIDE DEF st
<1>6. Stop(s, d, st.start) = n + 1
  <2>1. n + 1 \in st.start .. n + 1 /\ ~(n + 1 <= n) /\ \A k \in st.start .. n + 1 - 1 : s[k] # d
    BY <1>0, <1>4, <1>5 DEF AllOut
  <2> QED
    BY <1>5, <2>1, StopIs
<1>7. r[st.start] = Text!Piece(s, st.start, n + 1)
  <2> DEFINE p == Text!Piece(s, st.start, n + 1)
  <2>1. p \in Seq(Seq(S))
    BY <1>0, <1>5, PieceTyped
  <2>2. After(r, n, n + 1, 1) = <<>>
    BY <1>0 DEF After
  <2>3. r[st.start] = Cat(p, <<>>)
    <3> HIDE DEF r
    <3> QED
      BY <1>2, <1>5, <1>6, <2>2
  <2> HIDE DEF p, r
  <2> QED
    BY <2>1, <2>3, ConcatEmptySeq DEF Cat, p
<1>8. Text!splitChar(s, d) = Cat(st.out, Text!Piece(s, st.start, n + 1))
  BY DEF Text!splitChar, st, Cat
<1> HIDE DEF r
<1> QED
  BY <1>4, <1>7, <1>8 DEF AllOut, r

-----------------------------------------------------------------------------
(* The fields *)

\* The place of q among the numbers B.
Rank(B, q) == Cardinality({k \in B : k <= q})

\* The texts of out are the fields that begin at the places B.
FieldsAt(out, s, d, B) ==
    /\ Len(out) = Cardinality(B)
    /\ \A i \in B : out[Rank(B, i)] = SubSeq(s, i, Stop(s, d, i) - 1)

\* The places where a field begins from i on.
BeginsFrom(s, d, i) == {k \in Text!Begins(s, d) : k >= i}

\* Every member has a place in the order.
LEMMA RankWithin ==
    ASSUME NEW B, B \subseteq Nat, IsFiniteSet(B), NEW q \in B
    PROVE  Rank(B, q) \in 1 .. Cardinality(B)
<1> DEFINE L == {k \in B : k <= q}
<1>1. L \subseteq B /\ q \in L
  OBVIOUS
<1> HIDE DEF L
<1>2. IsFiniteSet(L) /\ Cardinality(L) <= Cardinality(B) /\ Cardinality(L) \in Nat /\ Cardinality(B) \in Nat
  BY <1>1, FS_Subset, FS_CardinalityType
<1>3. Cardinality(L) # 0
  BY <1>1, <1>2, FS_EmptySet
<1> QED
  BY <1>2, <1>3 DEF Rank, L

\* A smaller place comes first and moves the others up by one.
LEMMA RankMoves ==
    ASSUME NEW B, B \subseteq Nat, IsFiniteSet(B), NEW i \in Nat, \A k \in B : k > i
    PROVE  /\ Cardinality({i} \cup B) = 1 + Cardinality(B)
           /\ Rank({i} \cup B, i) = 1
           /\ \A q \in B : Rank({i} \cup B, q) = 1 + Rank(B, q)
<1>1. i \notin B
  OBVIOUS
<1>2. Cardinality({i} \cup B) = 1 + Cardinality(B)
  <2>1. {i} \cup B = B \cup {i}
    OBVIOUS
  <2> QED
    <3>1. Cardinality(B \cup {i}) = Cardinality(B) + 1
      BY <1>1, FS_AddElement
    <3>2. Cardinality(B) \in Nat
      BY FS_CardinalityType
    <3> QED
      BY <2>1, <3>1, <3>2
<1>3. Rank({i} \cup B, i) = 1
  <2>1. i <= i /\ \A k \in B : ~(k <= i)
    OBVIOUS
  <2>2. {k \in {i} \cup B : k <= i} = {i}
    BY <2>1, Zenon
  <2> QED
    <3>1. Cardinality({i}) = 1
      BY FS_Singleton
    <3> QED
      BY <2>2, <3>1 DEF Rank
<1>4. ASSUME NEW q \in B PROVE Rank({i} \cup B, q) = 1 + Rank(B, q)
  <2> DEFINE L == {k \in B : k <= q}
  <2>1. {k \in {i} \cup B : k <= q} = L \cup {i} /\ i \notin L /\ L \subseteq B
    OBVIOUS
  <2> HIDE DEF L
  <2>2. IsFiniteSet(L)
    BY <2>1, FS_Subset
  <2>3. Cardinality(L \cup {i}) = Cardinality(L) + 1
    BY <2>1, <2>2, FS_AddElement
  <2>4. Cardinality(L) \in Nat
    BY <2>2, FS_CardinalityType
  <2>5. Rank({i} \cup B, q) = Cardinality(L \cup {i}) /\ Rank(B, q) = Cardinality(L)
    BY <2>1 DEF Rank, L
  <2> QED
    BY <2>3, <2>4, <2>5
<1> QED
  BY <1>2, <1>3, <1>4

\* A sequence of one.
LEMMA OneAlone ==
    ASSUME NEW X, NEW p \in X PROVE <<p>> \in Seq(X) /\ Len(<<p>>) = 1 /\ <<p>>[1] = p
OBVIOUS

\* A field that begins before all the others, in front of them.
LEMMA OneMoreField ==
    ASSUME NEW X, NEW s, NEW d, NEW B, B \subseteq Nat, IsFiniteSet(B),
           NEW i \in Nat, \A k \in B : k > i,
           NEW out \in Seq(X), FieldsAt(out, s, d, B),
           NEW p \in X, SubSeq(s, i, Stop(s, d, i) - 1) = p
    PROVE  FieldsAt(Cat(<<p>>, out), s, d, {i} \cup B)
<1> DEFINE all == Cat(<<p>>, out)
<1>1. /\ Len(all) = 1 + Len(out) /\ all[1] = p
      /\ \A j \in 1 .. Len(out) : all[1 + j] = out[j]
  <2>1. <<p>> \in Seq(X) /\ Len(<<p>>) = 1 /\ <<p>>[1] = p
    BY OneAlone
  <2> DEFINE one == <<p>>
  <2>2. one \in Seq(X) /\ Len(one) = 1 /\ one[1] = p
    BY <2>1
  <2> HIDE DEF one
  <2>3. /\ Len(one \o out) = 1 + Len(out)
        /\ \A j \in 1 .. 1 + Len(out) : (one \o out)[j] = IF j <= 1 THEN one[j] ELSE out[j - 1]
    BY SMTT(30), <2>2, ConcatProperties
  <2> QED
    BY <2>2, <2>3 DEF Cat, one
<1> HIDE DEF all
<1>2. Len(all) = Cardinality({i} \cup B)
  BY <1>1, RankMoves DEF FieldsAt
<1>3. ASSUME NEW q \in {i} \cup B
      PROVE  all[Rank({i} \cup B, q)] = SubSeq(s, q, Stop(s, d, q) - 1)
  <2>1. CASE q = i
    BY <1>1, <2>1, RankMoves
  <2>2. CASE q \in B
    <3>1. Rank({i} \cup B, q) = 1 + Rank(B, q) /\ Rank(B, q) \in 1 .. Len(out)
      BY <2>2, RankMoves, RankWithin DEF FieldsAt
    <3>2. all[1 + Rank(B, q)] = out[Rank(B, q)]
      BY <1>1, <3>1
    <3> QED
      BY <2>2, <3>1, <3>2 DEF FieldsAt
  <2> QED
    BY <2>1, <2>2
<1> QED
  BY <1>2, <1>3 DEF FieldsAt, all

\* i is where a field may begin.
Opens(s, d, i) == i > 1 => s[i - 1] = d

\* The places where a field begins are finitely many.
LEMMA BeginsFinite ==
    ASSUME NEW S, NEW s \in Seq(S), NEW d, NEW i
    PROVE  /\ BeginsFrom(s, d, i) \subseteq 1 .. Len(s)
           /\ BeginsFrom(s, d, i) \subseteq Nat
           /\ IsFiniteSet(BeginsFrom(s, d, i))
<1>1. BeginsFrom(s, d, i) \subseteq 1 .. Len(s)
  BY DEF BeginsFrom, Text!Begins
<1>2. IsFiniteSet(1 .. Len(s))
  BY FS_Interval
<1> QED
  BY <1>1, <1>2, FS_Subset

\* The fields from i on are the one at i, when it is not empty, and those behind
\* the delimiter that ends it.
LEMMA BeginsSplit ==
    ASSUME NEW S, NEW s \in Seq(S), NEW d, NEW i \in 1 .. Len(s) + 1, Opens(s, d, i),
           NEW j, j = Stop(s, d, i)
    PROVE  BeginsFrom(s, d, i) = (IF i = j THEN {} ELSE {i}) \cup BeginsFrom(s, d, j + 1)
<1>1. j \in i .. Len(s) + 1 /\ (j <= Len(s) => s[j] = d) /\ \A k \in i .. j - 1 : s[k] # d
  BY StopThere
<1>2. ASSUME NEW k \in i + 1 .. j PROVE k \notin Text!Begins(s, d)
  <2>1. k - 1 \in i .. j - 1 /\ k > 1
    BY <1>1
  <2> QED
    BY <1>1, <2>1 DEF Text!Begins
<1>3. i \in Text!Begins(s, d) <=> i # j
  <2>1. CASE i = j
    BY <1>1, <2>1 DEF Text!Begins
  <2>2. CASE i # j
    <3>1. i \in i .. j - 1 /\ i \in 1 .. Len(s)
      BY <1>1, <2>2
    <3> QED
      BY <1>1, <2>2, <3>1 DEF Text!Begins, Opens
  <2> QED
    BY <2>1, <2>2
<1>4. \A k \in Text!Begins(s, d) : k \in Nat
  BY DEF Text!Begins
<1>5. ASSUME NEW k \in Text!Begins(s, d)
      PROVE  k >= i <=> (i # j /\ k = i) \/ k >= j + 1
  <2>1. k \in Nat /\ i \in Nat /\ j \in Nat /\ i <= j
    BY <1>1, <1>4
  <2>2. CASE k \in i + 1 .. j
    BY <1>2, <2>2
  <2>3. CASE k \notin i + 1 .. j
    BY <1>3, <1>5, <2>1, <2>3
  <2> QED
    BY <2>2, <2>3
<1>6. i # j => i \in Text!Begins(s, d)
  BY <1>3
<1> QED
  BY <1>5, <1>6 DEF BeginsFrom

\* What is put out are the fields.
LEMMA RestIsFields ==
    ASSUME NEW S, NEW s \in Seq(S), NEW d
    PROVE  Text!Fields(Rest(s, d)[1], s, d)
<1> DEFINE n == Len(s)
           m == n + 1
           r == Rest(s, d)
           T == {k \in 0 .. m : \A i \in 1 .. m : i + k > m /\ Opens(s, d, i) =>
                    FieldsAt(r[i], s, d, BeginsFrom(s, d, i))}
<1>0. n \in Nat /\ m \in Nat /\ 1 \in 1 .. m
  OBVIOUS
<1>1. /\ r \in [1 .. m -> Seq(Seq(S))]
      /\ \A i \in 1 .. m : r[i] = Cat(Text!Piece(s, i, Stop(s, d, i)), After(r, n, Stop(s, d, i), 1))
  BY RestUnfold
<1> HIDE DEF r
<1>2. 0 \in T
  BY <1>0
<1>3. ASSUME NEW k \in 0 .. m - 1, k \in T PROVE k + 1 \in T
  <2>1. ASSUME NEW i \in 1 .. m, i + (k + 1) > m, Opens(s, d, i)
        PROVE  FieldsAt(r[i], s, d, BeginsFrom(s, d, i))
    <3> DEFINE j == Stop(s, d, i)
               B == BeginsFrom(s, d, j + 1)
               e == After(r, n, j, 1)
               p == SubSeq(s, i, j - 1)
    <3>1. j \in i .. n + 1 /\ (j <= n => s[j] = d)
      BY StopThere
    <3>2. BeginsFrom(s, d, i) = (IF i = j THEN {} ELSE {i}) \cup B
      BY <2>1, BeginsSplit
    <3>3. B \subseteq 1 .. n /\ B \subseteq Nat /\ IsFiniteSet(B) /\ \A q \in B : q >= j + 1
      <4> HIDE DEF j
      <4> QED
        BY BeginsFinite DEF BeginsFrom
    <3>4. r[i] = Cat(Text!Piece(s, i, j), e)
      BY <1>1
    <3> HIDE DEF j
    <3>5. e \in Seq(Seq(S)) /\ FieldsAt(e, s, d, B)
      <4>1. CASE j > n
        <5>1. e = <<>> /\ B = {}
          BY <1>0, <3>1, <3>3, <4>1 DEF After
        <5> HIDE DEF e, B
        <5> QED
          BY <5>1, FS_EmptySet DEF FieldsAt
      <4>2. CASE ~(j > n)
        <5>1. e = r[j + 1] /\ j + 1 \in 1 .. m /\ j + 1 + k > m /\ Opens(s, d, j + 1)
          BY <1>0, <2>1, <3>1, <4>2 DEF After, Opens
        <5> HIDE DEF m
        <5> QED
          BY <1>1, <1>3, <5>1
      <4> QED
        BY <4>1, <4>2
    <3> HIDE DEF e, B, p
    <3>6. CASE i = j
      <4>1. r[i] = e
        <5>1. Text!Piece(s, i, j) = <<>>
          BY <3>6 DEF Text!Piece
        <5> QED
          BY <3>4, <3>5, <5>1, CatLaws
      <4>2. BeginsFrom(s, d, i) = B
        BY <3>2, <3>6
      <4> QED
        BY <3>5, <4>1, <4>2
    <3>7. CASE i # j
      <4>1. Text!Piece(s, i, j) = <<p>> /\ p \in Seq(S)
        BY <3>1, <3>7, PieceTyped DEF p
      <4>2. i \in Nat /\ \A q \in B : q > i
        BY <3>1, <3>3
      <4>3. FieldsAt(Cat(<<p>>, e), s, d, {i} \cup B)
        <5> DEFINE X == Seq(S)
        <5>1. p \in X /\ e \in Seq(X)
          BY <3>5, <4>1
        <5>2. p = SubSeq(s, i, Stop(s, d, i) - 1)
          BY DEF p, j
        <5> HIDE DEF X
        <5> QED
          BY <3>3, <3>5, <4>2, <5>1, <5>2, OneMoreField
      <4> QED
        BY <3>2, <3>4, <3>7, <4>1, <4>3
    <3> QED
      BY <3>6, <3>7
  <2> HIDE DEF m
  <2>2. k + 1 \in 0 .. m
    BY <1>0
  <2> QED
    BY <2>1, <2>2
<1> HIDE DEF T, m
<1>4. 0 .. m \subseteq T
  BY <1>0, <1>2, <1>3, UpTo
<1>5. FieldsAt(r[1], s, d, BeginsFrom(s, d, 1))
  <2>1. m \in T /\ 1 + m > m /\ Opens(s, d, 1)
    BY <1>0, <1>4 DEF Opens
  <2> QED
    BY <1>0, <2>1 DEF T
<1>6. BeginsFrom(s, d, 1) = Text!Begins(s, d)
  BY DEF BeginsFrom, Text!Begins
<1>7. FieldsAt(r[1], s, d, Text!Begins(s, d))
  BY <1>5, <1>6
<1> QED
  <2> DEFINE b == Text!Begins(s, d)
             out == r[1]
  <2>1. Len(out) = Cardinality(b)
    BY <1>7 DEF FieldsAt
  <2>2. \A i \in b : out[Cardinality({j \in b : j <= i})] = SubSeq(s, i, Text!FirstFrom(s, i, {d}) - 1)
    <3> SUFFICES ASSUME NEW i \in b
                 PROVE  out[Cardinality({j \in b : j <= i})] =
                            SubSeq(s, i, Text!FirstFrom(s, i, {d}) - 1)
      OBVIOUS
    <3>1. out[Rank(b, i)] = SubSeq(s, i, Stop(s, d, i) - 1)
      BY <1>7 DEF FieldsAt
    <3> HIDE DEF out, b
    <3> QED
      BY <3>1 DEF Rank, Stop
  <2>3. Text!Fields(out, s, d)
    <3>1. \A X : Text!Cardinality(X) = Cardinality(X)
      BY DEF Text!Cardinality, Cardinality
    <3> HIDE DEF out
    <3> QED
      BY <2>1, <2>2, <3>1 DEF Text!Fields
  <2> QED
    BY <2>3 DEF r

-----------------------------------------------------------------------------
(* split by two delimiters in a row, and each of the pieces by one *)

\* Where two delimiters begin.
LEMMA StartsDouble ==
    ASSUME NEW S, NEW s \in Seq(S), NEW d \in S, NEW k \in 1 .. Len(s) + 1
    PROVE  Text!StartsAt(s, <<d, d>>, k) <=> k + 1 <= Len(s) /\ s[k] = d /\ s[k + 1] = d
<1> DEFINE t == <<d, d>>
           u == SubSeq(s, k, k + 1)
<1>1. t \in Seq(S) /\ Len(t) = 2 /\ t[1] = d /\ t[2] = d
  OBVIOUS
<1> HIDE DEF t
<1>2. k + Len(t) - 1 = k + 1
  BY <1>1
<1>3. Text!StartsAt(s, t, k) <=> k + 1 <= Len(s) /\ u = t
  BY <1>2 DEF Text!StartsAt
<1>4. ASSUME k + 1 <= Len(s) PROVE u = t <=> s[k] = d /\ s[k + 1] = d
  <2>1. \A i \in k .. k + 1 : s[i] \in S
    BY <1>4
  <2>2. k \in Int /\ k + 1 \in Int
    OBVIOUS
  <2>3. /\ u \in Seq(S)
        /\ Len(u) = IF k <= k + 1 THEN k + 1 - k + 1 ELSE 0
        /\ \A i \in 1 .. k + 1 - k + 1 : u[i] = s[k + i - 1]
    BY <2>1, <2>2, SubSeqProperties
  <2>4. Len(u) = 2
    BY <2>3
  <2>5. u[1] = s[k] /\ u[2] = s[k + 1]
    <3>1. 1 \in 1 .. k + 1 - k + 1 /\ 2 \in 1 .. k + 1 - k + 1 /\ k + 1 - 1 = k /\ k + 2 - 1 = k + 1
      OBVIOUS
    <3> HIDE DEF u
    <3> QED
      BY <2>3, <3>1
  <2> HIDE DEF u
  <2>6. u[1] = d /\ u[2] = d => u = t
    <3> SUFFICES ASSUME u[1] = d, u[2] = d PROVE u = t
      OBVIOUS
    <3>1. \A i \in 1 .. Len(u) : u[i] = t[i]
      BY <1>1, <2>4
    <3> QED
      BY <1>1, <2>3, <2>4, <3>1, SeqEqual
  <2> QED
    BY <1>1, <2>5, <2>6
<1> HIDE DEF u
<1> QED
  BY <1>3, <1>4 DEF t

\* The text between a and b, and what splitting it by d puts out from its
\* (j - a + 1)-th place on.
Part(s, a, b) == SubSeq(s, a, b - 1)

\* It is a text with the characters of that place.
LEMMA PartTyped ==
    ASSUME NEW S, NEW s \in Seq(S), NEW a \in 1 .. Len(s) + 1, NEW b \in a .. Len(s) + 1
    PROVE  /\ Part(s, a, b) \in Seq(S)
           /\ Len(Part(s, a, b)) = b - a
           /\ \A i \in 1 .. b - a : Part(s, a, b)[i] = s[a + i - 1]
<1> DEFINE u == Part(s, a, b)
<1>1. \A i \in a .. b - 1 : s[i] \in S
  OBVIOUS
<1>2. a \in Int /\ b - 1 \in Int
  OBVIOUS
<1>3. /\ u \in Seq(S)
      /\ Len(u) = IF a <= b - 1 THEN b - 1 - a + 1 ELSE 0
      /\ \A i \in 1 .. b - 1 - a + 1 : u[i] = s[a + i - 1]
  BY <1>1, <1>2, SubSeqProperties DEF Part
<1> HIDE DEF u
<1>4. b - 1 - a + 1 = b - a /\ (~(a <= b - 1) => b - a = 0)
  OBVIOUS
<1>5. Len(u) = b - a /\ \A i \in 1 .. b - a : u[i] = s[a + i - 1]
  BY <1>3, <1>4
<1> QED
  BY <1>3, <1>5 DEF u

\* A part of a part is a part.
LEMMA PartOfPart ==
    ASSUME NEW S, NEW s \in Seq(S), NEW a \in 1 .. Len(s) + 1, NEW b \in a .. Len(s) + 1,
           NEW i \in 1 .. b - a + 1, NEW j \in i .. b - a + 1
    PROVE  Part(Part(s, a, b), i, j) = Part(s, a + i - 1, a + j - 1)
<1> DEFINE u == Part(s, a, b)
           v == Part(u, i, j)
           w == Part(s, a + i - 1, a + j - 1)
<1>1. u \in Seq(S) /\ Len(u) = b - a /\ \A k \in 1 .. b - a : u[k] = s[a + k - 1]
  BY PartTyped
<1> HIDE DEF u
<1>2. v \in Seq(S) /\ Len(v) = j - i /\ \A k \in 1 .. j - i : v[k] = u[i + k - 1]
  <2>1. i \in 1 .. Len(u) + 1 /\ j \in i .. Len(u) + 1
    BY <1>1
  <2>2. u \in Seq(S)
    BY <1>1
  <2>3. Part(u, i, j) \in Seq(S) /\ Len(Part(u, i, j)) = j - i
          /\ \A k \in 1 .. j - i : Part(u, i, j)[k] = u[i + k - 1]
    BY <2>1, <2>2, PartTyped
  <2> QED
    BY <2>3
<1>3. /\ w \in Seq(S) /\ Len(w) = a + j - 1 - (a + i - 1)
      /\ \A k \in 1 .. a + j - 1 - (a + i - 1) : w[k] = s[a + i - 1 + k - 1]
  <2> DEFINE x == a + i - 1
             y == a + j - 1
  <2>1. x \in 1 .. Len(s) + 1 /\ y \in x .. Len(s) + 1
    OBVIOUS
  <2> HIDE DEF x, y
  <2>2. Part(s, x, y) \in Seq(S) /\ Len(Part(s, x, y)) = y - x
          /\ \A k \in 1 .. y - x : Part(s, x, y)[k] = s[x + k - 1]
    BY <2>1, PartTyped
  <2> QED
    BY <2>2 DEF x, y
<1> HIDE DEF v, w
<1>4. ASSUME NEW k \in 1 .. j - i PROVE v[k] = w[k]
  <2>1. i + k - 1 \in 1 .. b - a /\ a + (i + k - 1) - 1 = a + i - 1 + k - 1
          /\ k \in 1 .. a + j - 1 - (a + i - 1)
    OBVIOUS
  <2> QED
    BY <1>1, <1>2, <1>3, <2>1
<1>5. a + j - 1 - (a + i - 1) = j - i
  OBVIOUS
<1>6. v = w
  BY <1>2, <1>3, <1>4, <1>5, SeqEqual
<1> QED
  BY <1>6 DEF u, v, w

\* Up to a delimiter or the end, splitting a part is splitting the text.
LEMMA PartIsSplit ==
    ASSUME NEW S, NEW s \in Seq(S), NEW d,
           NEW a \in 1 .. Len(s) + 1, NEW b \in a .. Len(s) + 1, b <= Len(s) => s[b] = d,
           NEW u, u = Part(s, a, b), NEW e, e = After(Rest(s, d), Len(s), b, 1)
    PROVE  Rest(s, d)[a] = Cat(Rest(u, d)[1], e)
<1> DEFINE n == Len(s)
           l == b - a
           r == Rest(s, d)
           q == Rest(u, d)
           T == {k \in 0 .. l : r[b - k] = Cat(q[l + 1 - k], e)}
<1>0. n \in Nat /\ l \in Nat /\ 0 \in 0 .. l /\ l + 1 \in 1 .. l + 1
  OBVIOUS
<1>1. u \in Seq(S) /\ Len(u) = l /\ \A i \in 1 .. l : u[i] = s[a + i - 1]
  BY PartTyped
<1>2. /\ r \in [1 .. n + 1 -> Seq(Seq(S))]
      /\ \A i \in 1 .. n + 1 : r[i] = Cat(Text!Piece(s, i, Stop(s, d, i)), After(r, n, Stop(s, d, i), 1))
  BY RestUnfold
<1>3. /\ q \in [1 .. l + 1 -> Seq(Seq(S))]
      /\ \A i \in 1 .. l + 1 : q[i] = Cat(Text!Piece(u, i, Stop(u, d, i)), After(q, l, Stop(u, d, i), 1))
  BY <1>1, RestUnfold
<1>4. e \in Seq(Seq(S))
  <2>1. CASE b > n
    BY <2>1 DEF After
  <2>2. CASE ~(b > n)
    <3>1. b + 1 \in 1 .. n + 1 /\ e = r[b + 1]
      BY <2>2 DEF After
    <3> HIDE DEF r
    <3> QED
      BY <1>2, <3>1
  <2> QED
    BY <2>1, <2>2
<1> HIDE DEF r, q
<1>5. ASSUME NEW i \in a .. b, NEW j, j = Stop(s, d, i)
      PROVE  j \in i .. b /\ (i = b => j = b) /\ Stop(u, d, i - a + 1) = j - a + 1
  <2>1. j \in i .. n + 1 /\ (j <= n => s[j] = d) /\ \A k \in i .. j - 1 : s[k] # d
    BY <1>5, StopThere
  <2>2. j \in i .. b
    <3> SUFFICES ASSUME j > b PROVE FALSE
      BY <2>1
    <3>1. b \in i .. j - 1 /\ b <= n
      BY <2>1
    <3> QED
      BY <2>1, <3>1
  <2>3. i - a + 1 \in 1 .. l + 1 /\ j - a + 1 \in i - a + 1 .. l + 1
    BY <2>2
  <2>4. j - a + 1 <= l => u[j - a + 1] = d
    <3> SUFFICES ASSUME j - a + 1 <= l PROVE u[j - a + 1] = d
      OBVIOUS
    <3>1. j - a + 1 \in 1 .. l /\ a + (j - a + 1) - 1 = j /\ j <= n
      BY <2>2
    <3> QED
      BY <1>1, <2>1, <3>1
  <2> DEFINE i2 == i - a + 1
             j2 == j - a + 1
  <2>5. ASSUME NEW k \in i2 .. j2 - 1 PROVE u[k] # d
    <3>1. k \in 1 .. l /\ a + k - 1 \in i .. j - 1
      BY <2>2
    <3> QED
      BY <1>1, <2>1, <3>1
  <2>6. Stop(u, d, i2) = j2
    <3>1. i2 \in 1 .. l + 1 /\ j2 \in i2 .. l + 1 /\ (j2 <= l => u[j2] = d)
      BY <2>3, <2>4
    <3>2. u \in Seq(S) /\ Len(u) = l
      BY <1>1
    <3> HIDE DEF i2, j2, l
    <3>3. i2 \in 1 .. Len(u) + 1 /\ j2 \in i2 .. Len(u) + 1 /\ (j2 <= Len(u) => u[j2] = d)
      BY <3>1, <3>2
    <3>4. \A k \in i2 .. j2 - 1 : u[k] # d
      BY <2>5
    <3> QED
      BY SMTT(30), <3>2, <3>3, <3>4, StopIs
  <2> QED
    BY <2>2, <2>6
<1>6. 0 \in T
  <2>1. b \in a .. b /\ b - a + 1 = l + 1 /\ b - 0 = b /\ l + 1 - 0 = l + 1 /\ b \in 1 .. n + 1
    OBVIOUS
  <2>2. Stop(s, d, b) = b /\ Stop(u, d, l + 1) = l + 1
    BY <1>5, <2>1
  <2>3. r[b] = Cat(Text!Piece(s, b, b), After(r, n, b, 1))
    <3> HIDE DEF n
    <3> QED
      BY <1>2, <2>1, <2>2
  <2>4. r[b] = e
    <3>1. Text!Piece(s, b, b) = <<>>
      BY DEF Text!Piece
    <3> HIDE DEF n
    <3> QED
      BY <1>4, <2>3, <3>1, CatLaws DEF n, r
  <2>5. q[l + 1] = Cat(Text!Piece(u, l + 1, l + 1), After(q, l, l + 1, 1))
    <3> HIDE DEF l
    <3> QED
      BY <1>0, <1>3, <2>2
  <2>6. q[l + 1] = <<>>
    <3>1. Text!Piece(u, l + 1, l + 1) = <<>> /\ After(q, l, l + 1, 1) = <<>>
      BY <1>0 DEF Text!Piece, After
    <3>2. <<>> \in Seq(Seq(S)) /\ Cat(<<>>, <<>>) = <<>>
      <4>1. <<>> \in Seq(Seq(S))
        OBVIOUS
      <4> QED
        BY <4>1, CatLaws
    <3> QED
      BY <2>5, <3>1, <3>2
  <2>7. r[b - 0] = Cat(q[l + 1 - 0], e)
    BY <1>4, <2>1, <2>4, <2>6, CatLaws
  <2> QED
    BY <1>0, <2>7
<1>7. ASSUME NEW k \in 0 .. l - 1, \A k2 \in 0 .. k : k2 \in T PROVE k + 1 \in T
  <2> DEFINE i == b - (k + 1)
             j == Stop(s, d, i)
             i2 == i - a + 1
             j2 == j - a + 1
  <2>1. i \in a .. b /\ i < b /\ i2 = l + 1 - (k + 1) /\ i2 \in 1 .. l + 1 /\ i \in 1 .. n + 1
    OBVIOUS
  <2>2. j \in i .. b /\ Stop(u, d, i2) = j2
    BY <1>5, <2>1
  <2> HIDE DEF j
  <2>3. r[i] = Cat(Text!Piece(s, i, j), After(r, n, j, 1))
    BY <1>2, <2>1 DEF j
  <2>4. q[i2] = Cat(Text!Piece(u, i2, j2), After(q, l, j2, 1))
    <3> HIDE DEF j2, i2
    <3> QED
      BY <1>3, <2>1, <2>2
  <2>5. Text!Piece(s, i, j) = Text!Piece(u, i2, j2)
    <3>1. Part(u, i2, j2) = Part(s, a + i2 - 1, a + j2 - 1)
      <4>1. i2 \in 1 .. b - a + 1 /\ j2 \in i2 .. b - a + 1
        BY <2>1, <2>2
      <4> HIDE DEF i2, j2
      <4> QED
        BY <4>1, PartOfPart
    <3>2. a + i2 - 1 = i /\ a + j2 - 1 = j /\ (i = j <=> i2 = j2)
      BY <2>1, <2>2
    <3> HIDE DEF i2, j2, i
    <3> QED
      BY <3>1, <3>2 DEF Text!Piece, Part
  <2>6. After(r, n, j, 1) = Cat(After(q, l, j2, 1), e) /\ After(q, l, j2, 1) \in Seq(Seq(S))
    <3>1. CASE j = b
      <4>1. After(q, l, j2, 1) = <<>>
        BY <1>0, <3>1 DEF After
      <4>2. After(r, n, j, 1) = e
        BY <3>1 DEF r
      <4>3. <<>> \in Seq(Seq(S)) /\ Cat(<<>>, e) = e
        <5>1. <<>> \in Seq(Seq(S))
          OBVIOUS
        <5> HIDE DEF i, j2
        <5> QED
          BY <1>4, <5>1, CatLaws
      <4> HIDE DEF j2
      <4> QED
        BY <4>1, <4>2, <4>3
    <3>2. CASE j # b
      <4> DEFINE k2 == b - (j + 1)
      <4>1. k2 \in 0 .. k /\ b - k2 = j + 1 /\ l + 1 - k2 = j2 + 1 /\ ~(j > n) /\ ~(j2 > l)
              /\ j2 + 1 \in 1 .. l + 1
        BY <2>1, <2>2, <3>2
      <4> HIDE DEF k2, j2, i2, i
      <4>2. r[b - k2] = Cat(q[l + 1 - k2], e)
        BY <1>7, <4>1
      <4>3. After(r, n, j, 1) = r[j + 1] /\ After(q, l, j2, 1) = q[j2 + 1]
        BY <4>1 DEF After
      <4>4. q[j2 + 1] \in Seq(Seq(S))
        <5> HIDE DEF l
        <5> QED
          BY <1>3, <4>1
      <4> QED
        BY <4>1, <4>2, <4>3, <4>4
    <3> QED
      BY <3>1, <3>2
  <2> DEFINE p == Text!Piece(u, i2, j2)
             z == After(q, l, j2, 1)
  <2>7. p \in Seq(Seq(S))
    <3>1. i2 \in 1 .. Len(u) + 1 /\ j2 \in 1 .. Len(u) + 1
      BY <1>1, <2>1, <2>2
    <3> HIDE DEF i2, j2
    <3> QED
      BY <1>1, <3>1, PieceTyped
  <2>8. r[i] = Cat(q[i2], e)
    <3>1. z \in Seq(Seq(S)) /\ r[i] = Cat(p, Cat(z, e)) /\ q[i2] = Cat(p, z)
      BY <2>3, <2>4, <2>5, <2>6
    <3> HIDE DEF p, z, i, i2, j2
    <3> QED
      BY <1>4, <2>7, <3>1, CatLaws
  <2>9. k + 1 \in 0 .. l
    OBVIOUS
  <2> QED
    BY <2>1, <2>8, <2>9
<1> DEFINE V == {k \in 0 .. l : \A k2 \in 0 .. k : k2 \in T}
<1>8. 0 .. l \subseteq V
  <2>1. 0 \in V
    <3>1. \A k2 \in 0 .. 0 : k2 = 0
      OBVIOUS
    <3> HIDE DEF T
    <3> QED
      BY <1>0, <1>6, <3>1
  <2>2. ASSUME NEW k \in 0 .. l - 1, k \in V PROVE k + 1 \in V
    <3> HIDE DEF T
    <3>1. k + 1 \in 0 .. l /\ \A k2 \in 0 .. k + 1 : k2 \in 0 .. k \/ k2 = k + 1
      OBVIOUS
    <3>2. k + 1 \in T
      BY <1>7, <2>2
    <3> QED
      BY <2>2, <3>1, <3>2
  <2> HIDE DEF V, l
  <2> QED
    BY <1>0, <2>1, <2>2, UpTo
<1>9. l \in T
  <2>1. l \in 0 .. l
    BY <1>0
  <2> HIDE DEF T, l
  <2> QED
    BY <1>8, <2>1
<1>10. b - l = a /\ l + 1 - l = 1
  OBVIOUS
<1> HIDE DEF l
<1> QED
  BY <1>9, <1>10 DEF r, q

\* FlattenSeq of one more text in front.
LEMMA FlatOne ==
    ASSUME NEW S, NEW x \in Seq(S) PROVE Flat(<<x>>) = x
<1> DEFINE one == <<x>>
<1>1. one \in [1 .. 1 -> Seq(S)] /\ one[1] = x /\ 1 \in Nat \ {0}
  OBVIOUS
<1> HIDE DEF one
<1>2. PICK f : Together(f, one, 1, S) /\ Flat(one) = f[1]
  BY <1>1, FlatUnfold
<1> QED
  BY <1>1, <1>2 DEF Together, one

\* And of one more text in front of others.
LEMMA FlatCons ==
    ASSUME NEW S, NEW x \in Seq(S), NEW xs \in Seq(Seq(S))
    PROVE  /\ Flat(xs) \in Seq(S)
           /\ Flat(Cat(<<x>>, xs)) = Cat(x, Flat(xs))
<1> DEFINE n == Len(xs)
           all == Cat(<<x>>, xs)
<1>0. n \in Nat /\ xs \in [1 .. n -> Seq(S)]
  BY LenProperties
<1>1. CASE n = 0
  <2>1. xs = <<>>
    BY <1>1, EmptySeq
  <2>2. Flat(xs) = <<>>
    BY <1>1, <2>1 DEF Flat
  <2>3. Cat(<<x>>, xs) = <<x>>
    <3> DEFINE U == Seq(S)
               one == <<x>>
    <3>1. one \in Seq(U)
      BY OneAlone
    <3> HIDE DEF U, one
    <3>2. Cat(one, <<>>) = one
      BY <3>1, CatLaws
    <3> QED
      BY <2>1, <3>2 DEF one
  <2>4. <<>> \in Seq(S)
    OBVIOUS
  <2>6. Cat(x, <<>>) = x
    BY <2>4, CatLaws
  <2>5. Flat(<<x>>) = x
    BY FlatOne
  <2> QED
    BY <2>2, <2>3, <2>4, <2>5, <2>6
<1>2. CASE n # 0
  <2>1. PICK g : Together(g, xs, n, S) /\ Flat(xs) = g[n]
    BY <1>0, <1>2, FlatUnfold
  <2>2. /\ all \in Seq(Seq(S)) /\ Len(all) = n + 1 /\ all[1] = x
        /\ \A j \in 1 .. n : all[j + 1] = xs[j]
    <3> DEFINE U == Seq(S)
               one == <<x>>
    <3>1. one \in Seq(U) /\ Len(one) = 1 /\ one[1] = x
      BY OneAlone
    <3>2. xs \in Seq(U)
      OBVIOUS
    <3> HIDE DEF U, one
    <3>3. /\ one \o xs \in Seq(U) /\ Len(one \o xs) = 1 + n
          /\ \A j \in 1 .. 1 + n : (one \o xs)[j] = IF j <= 1 THEN one[j] ELSE xs[j - 1]
      <4>1. /\ one \o xs \in Seq(U) /\ Len(one \o xs) = Len(one) + Len(xs)
            /\ \A j \in 1 .. Len(one) + Len(xs) :
                   (one \o xs)[j] = IF j <= Len(one) THEN one[j] ELSE xs[j - Len(one)]
        BY <3>1, <3>2, ConcatProperties
      <4> QED
        BY <3>1, <4>1
    <3>4. \A j \in 1 .. n : j + 1 \in 1 .. 1 + n /\ ~(j + 1 <= 1) /\ j + 1 - 1 = j
      BY <1>0
    <3>5. all = one \o xs
      BY DEF Cat, one
    <3> HIDE DEF all
    <3>6. all \in Seq(U) /\ Len(all) = n + 1 /\ all[1] = x
      BY <1>0, <3>1, <3>3, <3>5
    <3>7. \A j \in 1 .. n : all[j + 1] = xs[j]
      BY <3>3, <3>4, <3>5
    <3> QED
      BY <3>6, <3>7 DEF U
  <2> HIDE DEF all
  <2>3. all \in [1 .. n + 1 -> Seq(S)] /\ n + 1 \in Nat \ {0}
    BY <1>0, <2>2, LenProperties
  <2>4. PICK f : Together(f, all, n + 1, S) /\ Flat(all) = f[n + 1]
    <3> DEFINE m == n + 1
    <3> HIDE DEF m
    <3>1. \E f : Together(f, all, m, S) /\ Flat(all) = f[m]
      BY <2>3, FlatUnfold DEF m
    <3> QED
      BY <3>1 DEF m
  <2> DEFINE T == {i \in 0 .. n - 1 : f[i + 2] = Cat(x, g[i + 1])}
  <2> DEFINE l == n - 1
  <2>5. l \in Nat /\ 0 .. l \subseteq T
    <3>1. 0 \in T
      <4>1. f[1] = x /\ f[1 + 1] = Cat(f[1], all[1 + 1])
        <5>1. 1 \in 1 .. n + 1 - 1
          BY <1>0, <1>2
        <5> QED
          BY <2>2, <2>4, <5>1 DEF Together
      <4>2. all[1 + 1] = xs[1] /\ g[1] = xs[1]
        <5>1. 1 \in 1 .. n
          BY <1>0, <1>2
        <5> QED
          BY <2>1, <2>2, <5>1 DEF Together
      <4>3. 0 \in 0 .. n - 1 /\ 0 + 2 = 1 + 1 /\ 0 + 1 = 1
        BY <1>0, <1>2
      <4> HIDE DEF n
      <4> QED
        BY <4>1, <4>2, <4>3
    <3>2. ASSUME NEW i \in 0 .. l - 1, i \in T PROVE i + 1 \in T
      <4>0. i + 1 \in 1 .. n - 1 /\ i + 2 \in 1 .. n + 1 - 1 /\ i + 2 \in 1 .. n
              /\ i + 1 \in 0 .. n - 1 /\ i + 1 + 2 = i + 2 + 1 /\ i + 1 + 1 = i + 2
              /\ i + 1 \in 1 .. n
        BY <1>0, <3>2
      <4>1. f[i + 2] = Cat(x, g[i + 1])
        BY <3>2
      <4> DEFINE j == i + 1
                 k == i + 2
      <4>2. f[k + 1] = Cat(f[k], all[k + 1])
        <5>1. \A q \in 1 .. n + 1 - 1 : f[q + 1] = Cat(f[q], all[q + 1])
          BY <2>4 DEF Together
        <5> HIDE DEF n
        <5> QED
          BY <4>0, <5>1
      <4>3. g[j + 1] = Cat(g[j], xs[j + 1])
        <5>1. \A q \in 1 .. n - 1 : g[q + 1] = Cat(g[q], xs[q + 1])
          BY <2>1 DEF Together
        <5> HIDE DEF n
        <5> QED
          BY <4>0, <5>1
      <4>4. all[k + 1] = xs[k] /\ k \in 1 .. n
        BY <2>2, <4>0
      <4>5. g[j] \in Seq(S) /\ xs[k] \in Seq(S)
        <5>1. \A q \in 1 .. n : g[q] \in Seq(S)
          BY <2>1 DEF Together
        <5>2. j \in 1 .. n
          BY <4>0
        <5> HIDE DEF n, j, k
        <5> QED
          BY <1>0, <4>4, <5>1, <5>2
      <4>6. Cat(Cat(x, g[j]), xs[k]) = Cat(x, Cat(g[j], xs[k]))
        <5> DEFINE y == g[j]
                   z == xs[k]
        <5>1. y \in Seq(S) /\ z \in Seq(S)
          BY <4>5
        <5> HIDE DEF y, z
        <5>2. Cat(Cat(x, y), z) = Cat(x, Cat(y, z))
          BY <5>1, CatLaws
        <5> QED
          BY <5>2 DEF y, z
      <4>7. f[k + 1] = Cat(x, g[k])
        <5>1. j + 1 = k
          BY <4>0
        <5> HIDE DEF n
        <5> QED
          BY <4>1, <4>2, <4>3, <4>4, <4>6, <5>1
      <4> HIDE DEF n
      <4> QED
        BY <4>0, <4>7
    <3>3. l \in Nat
      BY <1>0, <1>2
    <3> HIDE DEF T, l
    <3> QED
      BY <3>1, <3>2, <3>3, UpTo
  <2>6. f[n + 1] = Cat(x, g[n])
    <3>1. l \in 0 .. l /\ l + 2 = n + 1 /\ l + 1 = n
      BY <1>0, <2>5
    <3> HIDE DEF l
    <3>2. l \in T
      BY <2>5, <3>1
    <3> QED
      BY <3>1, <3>2
  <2>7. g[n] \in Seq(S)
    <3>1. n \in 1 .. n
      BY <1>0, <1>2
    <3> HIDE DEF n
    <3> QED
      BY <2>1, <3>1 DEF Together
  <2> QED
    BY <2>1, <2>4, <2>6, <2>7 DEF all
<1> QED
  BY <1>1, <1>2

\* Each of the texts split by d, and what they all come to.
Mapped(xs, d) == [k \in DOMAIN xs |-> Text!splitChar(xs[k], d)]

SplitAll(xs, d) == Flat(Mapped(xs, d))

\* Splitting a text makes texts.
LEMMA CharTyped ==
    ASSUME NEW S, NEW s \in Seq(S), NEW d
    PROVE  Text!splitChar(s, d) \in Seq(Seq(S))
<1>1. 1 \in 1 .. Len(s) + 1
  OBVIOUS
<1> QED
  BY <1>1, CharIsAny, RestUnfold

\* Splitting texts makes as many sequences of texts.
LEMMA MapTyped ==
    ASSUME NEW S, NEW xs \in Seq(Seq(S)), NEW d
    PROVE  /\ Mapped(xs, d) \in Seq(Seq(Seq(S))) /\ Len(Mapped(xs, d)) = Len(xs)
           /\ \A k \in 1 .. Len(xs) : Mapped(xs, d)[k] = Text!splitChar(xs[k], d)
<1> DEFINE U == Seq(S)
           n == Len(xs)
           m == [k \in 1 .. n |-> Text!splitChar(xs[k], d)]
<1>1. n \in Nat /\ DOMAIN xs = 1 .. n /\ \A k \in 1 .. n : xs[k] \in Seq(S)
  BY LenProperties
<1>2. \A k \in 1 .. n : Text!splitChar(xs[k], d) \in Seq(Seq(S))
  BY <1>1, CharTyped
<1>3. Mapped(xs, d) = m
  BY <1>1 DEF Mapped
<1>4. m \in [1 .. n -> Seq(U)] /\ \A k \in 1 .. n : m[k] = Text!splitChar(xs[k], d)
  <2> HIDE DEF n
  <2> QED
    BY <1>2
<1> DEFINE W == Seq(U)
<1>5. m \in Seq(W) /\ Len(m) = n
  <2> HIDE DEF m, n, W
  <2>1. m \in [1 .. n -> W]
    BY <1>4 DEF W
  <2> QED
    BY <1>1, <2>1
<1> HIDE DEF m, n
<1> QED
  BY <1>3, <1>4, <1>5 DEF n

\* The first of the texts gives the first of the sequences.
LEMMA MapCons ==
    ASSUME NEW S, NEW x \in Seq(S), NEW xs \in Seq(Seq(S)), NEW d
    PROVE  Mapped(Cat(<<x>>, xs), d) = Cat(<<Text!splitChar(x, d)>>, Mapped(xs, d))
<1> DEFINE U == Seq(S)
           W == Seq(U)
           n == Len(xs)
           y == Text!splitChar(x, d)
           one == <<x>>
           two == <<y>>
           a == one \o xs
           m == Mapped(xs, d)
           b == two \o m
           p == Mapped(a, d)
<1>0. n \in Nat /\ y \in W
  BY CharTyped
<1>1. one \in Seq(U) /\ Len(one) = 1 /\ one[1] = x
  BY OneAlone
<1>2. two \in Seq(W) /\ Len(two) = 1 /\ two[1] = y
  <2> HIDE DEF W, y
  <2> QED
    BY <1>0, OneAlone
<1>3. m \in Seq(W) /\ Len(m) = n /\ \A k \in 1 .. n : m[k] = Text!splitChar(xs[k], d)
  BY MapTyped
<1>4. xs \in Seq(U)
  OBVIOUS
<1> HIDE DEF U, W, one, two, m, y
<1>5. /\ a \in Seq(U) /\ Len(a) = 1 + n
      /\ \A k \in 1 .. 1 + n : a[k] = IF k <= 1 THEN one[k] ELSE xs[k - 1]
  <2>1. /\ one \o xs \in Seq(U) /\ Len(one \o xs) = Len(one) + Len(xs)
        /\ \A j \in 1 .. Len(one) + Len(xs) :
               (one \o xs)[j] = IF j <= Len(one) THEN one[j] ELSE xs[j - Len(one)]
    BY <1>1, <1>4, ConcatProperties
  <2> QED
    BY <1>1, <2>1
<1>6. /\ b \in Seq(W) /\ Len(b) = 1 + n
      /\ \A k \in 1 .. 1 + n : b[k] = IF k <= 1 THEN two[k] ELSE m[k - 1]
  <2>1. /\ two \o m \in Seq(W) /\ Len(two \o m) = Len(two) + Len(m)
        /\ \A j \in 1 .. Len(two) + Len(m) :
               (two \o m)[j] = IF j <= Len(two) THEN two[j] ELSE m[j - Len(two)]
    BY <1>2, <1>3, ConcatProperties
  <2> QED
    BY <1>2, <1>3, <2>1
<1> HIDE DEF a, b
<1>7. p \in Seq(W) /\ Len(p) = 1 + n /\ \A k \in 1 .. 1 + n : p[k] = Text!splitChar(a[k], d)
  <2>1. p \in Seq(W) /\ Len(p) = Len(a) /\ \A k \in 1 .. Len(a) : p[k] = Text!splitChar(a[k], d)
    BY <1>5, MapTyped DEF U, W
  <2> HIDE DEF p
  <2> QED
    BY <1>5, <2>1
<1> HIDE DEF p, n
<1>8. ASSUME NEW k \in 1 .. 1 + n PROVE p[k] = b[k]
  <2>1. CASE k <= 1
    <3>1. k = 1
      BY <1>0, <2>1
    <3> QED
      BY <1>1, <1>2, <1>5, <1>6, <1>7, <3>1 DEF y
  <2>2. CASE ~(k <= 1)
    <3>1. k - 1 \in 1 .. n
      BY <1>0, <2>2
    <3> QED
      BY <1>3, <1>5, <1>6, <1>7, <2>2, <3>1
  <2> QED
    BY <2>1, <2>2
<1>9. p = b
  BY <1>0, <1>6, <1>7, <1>8, SeqEqual
<1> QED
  BY <1>9 DEF p, b, a, m, one, two, y, Cat

\* What comes of a text in front of others.
LEMMA SplitAllCons ==
    ASSUME NEW S, NEW d
    PROVE  /\ SplitAll(<<>>, d) = <<>>
           /\ \A x \in Seq(S) : \A xs \in Seq(Seq(S)) :
                 SplitAll(Cat(<<x>>, xs), d) = Cat(Text!splitChar(x, d), SplitAll(xs, d))
<1>1. SplitAll(<<>>, d) = <<>>
  <2>1. Mapped(<<>>, d) = <<>>
    BY DEF Mapped
  <2>2. Len(<<>>) = 0
    OBVIOUS
  <2> QED
    BY <2>1, <2>2 DEF SplitAll, Flat
<1>2. ASSUME NEW x \in Seq(S), NEW xs \in Seq(Seq(S))
      PROVE  SplitAll(Cat(<<x>>, xs), d) = Cat(Text!splitChar(x, d), SplitAll(xs, d))
  <2> DEFINE U == Seq(S)
             y == Text!splitChar(x, d)
             m == Mapped(xs, d)
  <2>1. y \in Seq(U) /\ m \in Seq(Seq(U))
    BY CharTyped, MapTyped
  <2>2. Mapped(Cat(<<x>>, xs), d) = Cat(<<y>>, m)
    BY MapCons
  <2> HIDE DEF U, y, m
  <2>3. Flat(Cat(<<y>>, m)) = Cat(y, Flat(m))
    BY <2>1, FlatCons
  <2> QED
    BY <2>2, <2>3 DEF SplitAll, y, m
<1> QED
  BY <1>1, <1>2

Doubles(s, d) == Matches(s, <<d, d>>)

\* What is put out from i on when s is split by two delimiters in a row.
Long(s, d) == Parts(s, Doubles(s, d), 2)

\* What a match of two delimiters is.
LEMMA DoubleThere ==
    ASSUME NEW S, NEW s \in Seq(S), NEW d \in S, NEW i \in 1 .. Len(s) + 1, NEW j, j = Doubles(s, d)[i]
    PROVE  /\ j \in i .. Len(s) + 1
           /\ j <= Len(s) => j + 1 <= Len(s) /\ s[j] = d /\ s[j + 1] = d
<1>1. j = Text!FirstMatch(s, <<d, d>>, i)
  BY DEF Doubles, Matches
<1>2. j \in i .. Len(s) + 1 /\ (j <= Len(s) => Text!StartsAt(s, <<d, d>>, j))
  BY <1>1, MatchThere
<1>3. j \in 1 .. Len(s) + 1
  BY <1>2
<1> QED
  BY <1>2, <1>3, StartsDouble

\* What is put out from i on is the piece up to the next match, and what is put
\* out from behind its two delimiters on.
LEMMA LongUnfold ==
    ASSUME NEW S, NEW s \in Seq(S), NEW d \in S
    PROVE  /\ Text!splitString(s, <<d, d>>) = Long(s, d)[1]
           /\ Long(s, d) \in [1 .. Len(s) + 1 -> Seq(Seq(S))]
           /\ \A i \in 1 .. Len(s) + 1 :
                 Long(s, d)[i] = Cat(Text!Piece(s, i, Doubles(s, d)[i]),
                                     After(Long(s, d), Len(s), Doubles(s, d)[i], 2))
<1> DEFINE stop == Doubles(s, d)
<1>1. \A i \in 1 .. Len(s) + 1 :
          /\ stop[i] \in i .. Len(s) + 1
          /\ stop[i] <= Len(s) => stop[i] + 1 <= Len(s)
  BY DoubleThere
<1>2. stop = [i \in 1 .. Len(s) + 1 |-> stop[i]]
  BY DEF Doubles, Matches
<1>3. Len(<<d, d>>) = 2
  OBVIOUS
<1>4. Text!splitString(s, <<d, d>>) = Parts(s, stop, 2)[1]
  BY <1>3, StringIsParts DEF Doubles
<1>5. Long(s, d) = Parts(s, stop, 2)
  BY DEF Long
<1> HIDE DEF stop
<1>6. stop \in [1 .. Len(s) + 1 -> 1 .. Len(s) + 1]
  BY <1>1, <1>2
<1>7. /\ 2 \in Nat \ {0}
      /\ \A i \in 1 .. Len(s) + 1 : stop[i] >= i /\ (stop[i] <= Len(s) => stop[i] + 2 <= Len(s) + 1)
  BY <1>1, <1>6
<1>8. /\ Parts(s, stop, 2) \in [1 .. Len(s) + 1 -> Seq(Seq(S))]
      /\ \A i \in 1 .. Len(s) + 1 :
             Parts(s, stop, 2)[i] =
                 Cat(Text!Piece(s, i, stop[i]), After(Parts(s, stop, 2), Len(s), stop[i], 2))
  BY <1>6, <1>7, PartsUnfold
<1> QED
  BY <1>4, <1>5, <1>8 DEF stop

\* From a delimiter on nothing is put out before it.
LEMMA RestAtStop ==
    ASSUME NEW S, NEW s \in Seq(S), NEW d, NEW i \in 1 .. Len(s) + 1, i <= Len(s) => s[i] = d
    PROVE  Rest(s, d)[i] = After(Rest(s, d), Len(s), i, 1)
<1> DEFINE r == Rest(s, d)
           e == After(r, Len(s), i, 1)
<1>1. /\ r \in [1 .. Len(s) + 1 -> Seq(Seq(S))]
      /\ r[i] = Cat(Text!Piece(s, i, Stop(s, d, i)), After(r, Len(s), Stop(s, d, i), 1))
  BY RestUnfold
<1> HIDE DEF r
<1>2. Stop(s, d, i) = i
  <2>1. i \in i .. Len(s) + 1 /\ \A k \in i .. i - 1 : s[k] # d
    OBVIOUS
  <2> QED
    BY <2>1, StopIs
<1>3. Text!Piece(s, i, i) = <<>>
  BY DEF Text!Piece
<1>4. e \in Seq(Seq(S))
  <2>1. CASE i > Len(s)
    BY <2>1 DEF After
  <2>2. CASE ~(i > Len(s))
    <3>1. i + 1 \in 1 .. Len(s) + 1 /\ e = r[i + 1]
      BY <2>2 DEF After
    <3> QED
      BY <1>1, <3>1
  <2> QED
    BY <2>1, <2>2
<1>5. r[i] = Cat(<<>>, e)
  BY <1>1, <1>2, <1>3
<1> HIDE DEF e
<1>6. r[i] = e
  BY <1>4, <1>5, CatLaws
<1> QED
  BY <1>6 DEF e, r

\* The step from behind a match to the match and before it.
LEMMA LongStep ==
    ASSUME NEW S, NEW s \in Seq(S), NEW d \in S, NEW i \in 1 .. Len(s) + 1,
           NEW j, j = Doubles(s, d)[i],
           j <= Len(s) => SplitAll(Long(s, d)[j + 2], d) = Rest(s, d)[j + 2]
    PROVE  SplitAll(Long(s, d)[i], d) = Rest(s, d)[i]
<1> DEFINE n == Len(s)
           l == Long(s, d)
           r == Rest(s, d)
           e == After(r, n, j, 1)
           z == After(l, n, j, 2)
           u == Part(s, i, j)
<1>1. j \in i .. n + 1 /\ (j <= n => j + 1 <= n /\ s[j] = d /\ s[j + 1] = d) /\ n \in Nat
  BY DoubleThere
<1>2. l \in [1 .. n + 1 -> Seq(Seq(S))] /\ l[i] = Cat(Text!Piece(s, i, j), z)
  BY LongUnfold
<1>3. r \in [1 .. n + 1 -> Seq(Seq(S))]
  BY RestUnfold
<1>4. z \in Seq(Seq(S)) /\ SplitAll(z, d) = e
  <2>1. CASE j > n
    <3>1. z = <<>> /\ e = <<>>
      BY <2>1 DEF After
    <3>2. SplitAll(<<>>, d) = <<>> /\ <<>> \in Seq(Seq(S))
      <4>1. SplitAll(<<>>, d) = <<>>
        BY SplitAllCons
      <4>2. <<>> \in Seq(Seq(S))
        OBVIOUS
      <4> QED
        BY <4>1, <4>2
    <3> HIDE DEF z, e
    <3> QED
      BY <3>1, <3>2
  <2>2. CASE ~(j > n)
    <3>0. z = l[j + 2] /\ e = r[j + 1]
      BY <2>2 DEF After
    <3>1. j + 2 \in 1 .. n + 1 /\ j + 1 \in 1 .. n + 1 /\ j + 1 <= n
      BY <1>1, <2>2
    <3>2. r[j + 1] = r[j + 2]
      <4>1. r[j + 1] = After(r, n, j + 1, 1)
        BY <1>1, <3>1, RestAtStop
      <4>2. After(r, n, j + 1, 1) = r[j + 1 + 1] /\ j + 1 + 1 = j + 2
        BY <1>1, <3>1 DEF After
      <4> HIDE DEF r
      <4> QED
        BY <4>1, <4>2
    <3>3. SplitAll(l[j + 2], d) = r[j + 2]
      BY <1>1, <2>2
    <3> HIDE DEF l, r, z, e, n
    <3> QED
      BY <1>2, <3>0, <3>1, <3>2, <3>3
  <2> QED
    BY <2>1, <2>2
<1>5. CASE i = j
  <2>1. Text!Piece(s, i, j) = <<>>
    BY <1>5 DEF Text!Piece
  <2>2. l[i] = z
    <3> HIDE DEF l, z
    <3> QED
      BY <1>2, <1>4, <2>1, CatLaws
  <2>3. r[i] = e
    BY <1>1, <1>5, RestAtStop
  <2> HIDE DEF l, r, z, e
  <2> QED
    BY <1>4, <2>2, <2>3 DEF l, r
<1>6. CASE i # j
  <2>1. u \in Seq(S)
    BY <1>1, PartTyped
  <2>2. Text!Piece(s, i, j) = <<u>>
    BY <1>6 DEF Text!Piece, Part
  <2>3. SplitAll(Cat(<<u>>, z), d) = Cat(Text!splitChar(u, d), SplitAll(z, d))
    <3> HIDE DEF u, z
    <3> QED
      BY <1>4, <2>1, SplitAllCons
  <2>4. Text!splitChar(u, d) = Rest(u, d)[1]
    BY <2>1, CharIsAny
  <2>5. r[i] = Cat(Rest(u, d)[1], e)
    BY <1>1, PartIsSplit
  <2> HIDE DEF u, z, e, l, r
  <2> QED
    BY <1>2, <1>4, <2>2, <2>3, <2>4, <2>5 DEF l, r
<1> QED
  BY <1>5, <1>6

\* Splitting by two delimiters in a row first makes no difference.
LEMMA LongAgrees ==
    ASSUME NEW S, NEW s \in Seq(S), NEW d \in S
    PROVE  SplitAll(Text!splitString(s, <<d, d>>), d) = Rest(s, d)[1]
<1> DEFINE m == Len(s) + 1
           Same(i) == SplitAll(Long(s, d)[i], d) = Rest(s, d)[i]
           T == {k \in 0 .. m : \A i \in 1 .. m : i + k > m => Same(i)}
<1>0. m \in Nat /\ 1 \in 1 .. m
  OBVIOUS
<1>1. 0 \in T
  <2> HIDE DEF Same
  <2> QED
    BY <1>0
<1>2. ASSUME NEW k \in 0 .. m - 1, k \in T PROVE k + 1 \in T
  <2>1. ASSUME NEW i \in 1 .. m, i + (k + 1) > m PROVE Same(i)
    <3> DEFINE j == Doubles(s, d)[i]
    <3>1. j \in i .. m /\ (j <= Len(s) => j + 1 <= Len(s))
      BY DoubleThere
    <3>2. j <= Len(s) => Same(j + 2)
      <4> HIDE DEF j, Same
      <4>1. j <= Len(s) => j + 2 \in 1 .. m /\ j + 2 + k > m
        BY <2>1, <3>1
      <4> QED
        BY <1>2, <4>1
    <3> HIDE DEF j
    <3> QED
      BY <3>2, LongStep DEF j
  <2>2. k + 1 \in 0 .. m
    BY <1>0
  <2> HIDE DEF Same
  <2> QED
    BY <2>1, <2>2
<1>3. m \in T
  <2> HIDE DEF T, m
  <2>1. 0 .. m \subseteq T
    BY <1>0, <1>1, <1>2, UpTo
  <2> QED
    BY <1>0, <2>1
<1>4. Same(1)
  <2> HIDE DEF Same, m
  <2> QED
    BY <1>0, <1>3
<1> QED
  BY <1>4, LongUnfold

\* The forms of split agree, and find the fields of the text.
LEMMA FormsOfSplit ==
    ASSUME NEW S, NEW s \in Seq(S), NEW d \in S
    PROVE  /\ Text!splitChar(s, d) = Text!splitString(s, <<d>>)
           /\ Text!splitString(s, <<d>>) = Text!splitAny(s, {d})
           /\ Text!Fields(Text!splitChar(s, d), s, d)
           /\ Text!FlattenSeq([k \in DOMAIN Text!splitString(s, <<d, d>>) |->
                                  Text!splitChar(Text!splitString(s, <<d, d>>)[k], d)])
                = Text!splitChar(s, d)
<1>1. Text!splitChar(s, d) = Rest(s, d)[1]
  BY CharIsAny
<1>2. Text!splitString(s, <<d>>) = Rest(s, d)[1]
  BY StringIsAny
<1>3. Text!splitAny(s, {d}) = Rest(s, d)[1]
  BY AnyIsRest
<1>4. Text!Fields(Rest(s, d)[1], s, d)
  BY RestIsFields
<1>5. \A x : Text!FlattenSeq(x) = Flat(x)
  BY DEF Text!FlattenSeq, Flat
<1>6. Text!FlattenSeq(Mapped(Text!splitString(s, <<d, d>>), d)) = Rest(s, d)[1]
  BY <1>5, LongAgrees DEF SplitAll
<1> QED
  BY <1>1, <1>2, <1>3, <1>4, <1>6 DEF Mapped

-----------------------------------------------------------------------------
(* strtrim *)

Seen(s) == \E i \in DOMAIN s : s[i] \in Text!Visible

\* Both forms of strtrim find the first and the last visible character; when there
\* is none they return what TrimsAgree says.
LEMMA FormsOfTrim ==
    ASSUME NEW S, NEW s \in Seq(S)
    PROVE  IF Seen(s)
           THEN /\ Text!strtrim(s) = Text!strtrimN(s)
                /\ Text!strtrim(s).count = Len(Text!strtrim(s).text)
           ELSE /\ Text!strtrim(s) = [text |-> <<>>, count |-> IF s = <<>> THEN 0 ELSE 1]
                /\ Text!strtrimN(s).count = 0
<1> DEFINE n == Len(s)
           V == Text!Visible
           f == Text!FirstFrom(s, 1, V)
           l == Text!find_last_of(s, V)
           left == n - f + 1
           Fits(e) == /\ \A i \in e + 1 .. left : s[f + i - 1] \notin V
                      /\ s[f + e - 1] \in V
           end == CHOOSE e \in 1 .. left : Fits(e)
<1>0. n \in Nat /\ 1 \in 1 .. n + 1 /\ DOMAIN s = 1 .. n
  BY LenProperties
<1>1. f \in 1 .. n + 1 /\ (f <= n => s[f] \in V) /\ \A k \in 1 .. f - 1 : s[k] \notin V
  <2> HIDE DEF V
  <2> QED
    BY <1>0, FirstThere
<1>2. l \in 0 .. n /\ (l > 0 => s[l] \in V) /\ \A k \in l + 1 .. n : s[k] \notin V
  <2> HIDE DEF V
  <2> QED
    BY LastThere
<1>3. Text!strtrim(s) =
          IF s = <<>> THEN [text |-> s, count |-> 0]
          ELSE [text |-> IF f > n THEN <<>> ELSE SubSeq(s, f, IF f > n THEN f ELSE l),
                count |-> (IF f > n THEN f ELSE l) - f + 1]
  BY DEF Text!strtrim
<1>4. Text!strtrimN(s) =
          IF s = <<>> THEN [text |-> s, count |-> 0]
          ELSE IF left = 0 THEN [text |-> IF Len(s) = 1 THEN s ELSE <<>>, count |-> 0]
          ELSE [text |-> SubSeq(s, f, f + end - 1), count |-> end]
  BY DEF Text!strtrimN
<1> HIDE DEF f, l, end, V
<1>5. CASE ~Seen(s)
  <2>1. f = n + 1
    <3> SUFFICES ASSUME f <= n PROVE FALSE
      BY <1>0, <1>1
    <3>1. f \in DOMAIN s /\ s[f] \in V
      BY <1>0, <1>1
    <3> QED
      BY <1>5, <3>1 DEF Seen, V
  <2>2. f > n /\ f - f + 1 = 1 /\ left = 0
    BY <1>0, <2>1
  <2> HIDE DEF n, left
  <2>3. Text!strtrim(s) = IF s = <<>> THEN [text |-> s, count |-> 0] ELSE [text |-> <<>>, count |-> 1]
    BY <1>3, <2>2
  <2>4. Text!strtrimN(s).count = 0
    BY <1>4, <2>2
  <2> QED
    BY <1>5, <2>3, <2>4
<1>6. CASE Seen(s)
  <2>1. PICK p \in 1 .. n : s[p] \in V
    BY <1>0, <1>6 DEF Seen, V
  <2>2. f <= p /\ p <= l
    BY <1>0, <1>1, <1>2, <2>1
  <2>3. s # <<>>
    BY <2>1
  <2>4. f \in 1 .. l /\ l \in 1 .. n /\ f <= n /\ left # 0 /\ left \in Nat
    BY <1>0, <1>1, <1>2, <2>1, <2>2
  <2> DEFINE w == l - f + 1
  <2>5. w \in 1 .. left /\ Fits(w)
    <3>1. w \in 1 .. left /\ f + w - 1 = l
      BY <2>4
    <3>2. ASSUME NEW i \in w + 1 .. left PROVE s[f + i - 1] \notin V
      <4>1. f + i - 1 \in l + 1 .. n
        BY <2>4
      <4> QED
        BY <1>2, <4>1
    <3>3. s[f + w - 1] \in V
      BY <1>2, <2>4, <3>1
    <3> QED
      BY <3>1, <3>2, <3>3
  <2>6. ASSUME NEW e \in 1 .. left, Fits(e) PROVE e = w
    <3>1. f + e - 1 \in 1 .. n /\ s[f + e - 1] \in V
      BY <2>4, <2>6
    <3>2. f + e - 1 <= l
      BY <1>2, <2>4, <3>1
    <3>3. CASE f + e - 1 < l
      <4>1. w \in e + 1 .. left /\ f + w - 1 = l
        BY <2>4, <3>3
      <4>2. s[l] \notin V
        BY <2>6, <4>1
      <4> QED
        BY <1>2, <2>4, <4>2
    <3> QED
      BY <2>4, <3>2, <3>3
  <2>7. end = w
    <3> HIDE DEF Fits, w, left
    <3> QED
      BY <2>5, <2>6 DEF end
  <2>8. f + w - 1 = l
    BY <2>4
  <2>9. Text!strtrim(s) = [text |-> SubSeq(s, f, l), count |-> w]
    <3>1. ~(f > n)
      BY <1>0, <2>4
    <3> HIDE DEF n, Fits
    <3> QED
      BY <1>3, <2>3, <3>1
  <2>11. Len(SubSeq(s, f, l)) = w
    <3>1. \A k \in f .. l : s[k] \in S
      BY <2>4
    <3>2. f \in Int /\ l \in Int /\ f <= l
      BY <2>4
    <3> QED
      BY <3>1, <3>2, SubSeqProperties DEF w
  <2> HIDE DEF left, w, n, Fits
  <2>10. Text!strtrimN(s) = [text |-> SubSeq(s, f, l), count |-> w]
    BY <1>4, <2>3, <2>4, <2>7, <2>8
  <2>12. Text!strtrim(s).text = SubSeq(s, f, l) /\ Text!strtrim(s).count = w
    <3> DEFINE x == SubSeq(s, f, l)
               c == w
               y == [text |-> x, count |-> c]
    <3>1. y.text = x /\ y.count = c
      <4> HIDE DEF x, c
      <4> QED
        OBVIOUS
    <3> QED
      BY <2>9, <3>1
  <2> QED
    BY <1>6, <2>9, <2>10, <2>11, <2>12
<1> QED
  BY <1>5, <1>6

(* get_short_name *)

\* A function on the places up to n is a sequence of that length.
LEMMA FunctionIsSeq ==
    ASSUME NEW S, NEW n \in Nat, NEW f \in [1 .. n -> S]
    PROVE  f \in Seq(S) /\ Len(f) = n
  OBVIOUS

\* What is left of a text from a place on is a suffix of it.
LEMMA SuffixIs ==
    ASSUME NEW S, NEW s \in Seq(S), NEW w \in Seq(S), NEW p \in 0 .. Len(s),
           Len(w) = Len(s) - p, \A i \in 1 .. Len(s) - p : w[i] = s[p + i]
    PROVE  Text!IsSuffix(w, s)
<1> DEFINE n == Len(s)
           l == n - p
           a == [i \in 1 .. l |-> w[l - i + 1]]
           b == [i \in 1 .. n |-> s[n - i + 1]]
           a2 == SubSeq(a, 1, l)
           b2 == SubSeq(b, 1, l)
<1>1. n \in Nat /\ l \in 0 .. n
  OBVIOUS
<1>2. Text!Reverse(w) = a /\ Text!Reverse(s) = b
  BY DEF Text!Reverse
<1>3. a \in Seq(S) /\ Len(a) = l /\ b \in Seq(S) /\ Len(b) = n
  <2>1. \A i \in 1 .. l : w[l - i + 1] \in S
    BY <1>1
  <2>2. \A i \in 1 .. n : s[n - i + 1] \in S
    BY <1>1
  <2> HIDE DEF l, n
  <2>3. a \in [1 .. l -> S] /\ b \in [1 .. n -> S]
    BY <2>1, <2>2
  <2>4. l \in Nat
    BY <1>1
  <2> HIDE DEF a, b
  <2>5. a \in Seq(S) /\ Len(a) = l
    BY <2>3, <2>4, FunctionIsSeq
  <2>6. b \in Seq(S) /\ Len(b) = n
    BY <1>1, <2>3, FunctionIsSeq
  <2> QED
    BY <2>5, <2>6
<1>4. \A i \in 1 .. l : a[i] = b[i]
  <2> SUFFICES ASSUME NEW i \in 1 .. l PROVE a[i] = b[i]
    OBVIOUS
  <2>1. l - i + 1 \in 1 .. l /\ p + (l - i + 1) = n - i + 1 /\ i \in 1 .. n
    BY <1>1
  <2>2. w[l - i + 1] = s[n - i + 1]
    <3> DEFINE k == l - i + 1
    <3>1. w[k] = s[p + k]
      BY <2>1
    <3> QED
      BY <2>1, <3>1
  <2> HIDE DEF l, n
  <2> QED
    BY <2>1, <2>2
<1> HIDE DEF a, b, l, n
<1>5. a2 \in Seq(S) /\ Len(a2) = l /\ \A i \in 1 .. l : a2[i] = a[i]
  <2>1. \A i \in 1 .. l : a[i] \in S
    BY <1>3
  <2>2. /\ a2 \in Seq(S) /\ Len(a2) = IF 1 <= l THEN l - 1 + 1 ELSE 0
        /\ \A i \in 1 .. l - 1 + 1 : a2[i] = a[1 + i - 1]
    BY <1>1, <2>1, SubSeqProperties
  <2> HIDE DEF a2
  <2> QED
    BY <1>1, <2>2
<1>6. b2 \in Seq(S) /\ Len(b2) = l /\ \A i \in 1 .. l : b2[i] = b[i]
  <2>1. \A i \in 1 .. l : b[i] \in S
    BY <1>1, <1>3
  <2>2. /\ b2 \in Seq(S) /\ Len(b2) = IF 1 <= l THEN l - 1 + 1 ELSE 0
        /\ \A i \in 1 .. l - 1 + 1 : b2[i] = b[1 + i - 1]
    BY <1>1, <2>1, SubSeqProperties
  <2> HIDE DEF b2
  <2> QED
    BY <1>1, <2>2
<1> HIDE DEF a2, b2
<1>7. a2 = b2
  BY <1>4, <1>5, <1>6, SeqEqual
<1> QED
  BY <1>1, <1>2, <1>3, <1>7 DEF Text!IsSuffix, Text!IsPrefix, a2, b2

\* What get_short_name leaves is behind the last separator it looks for.
LEMMA ShortNameBehind ==
    ASSUME NEW S, NEW s \in Seq(S), NEW w, w = Text!get_short_name(s)
    PROVE  /\ \A i \in DOMAIN w : w[i] # Text!Backslash
           /\ \/ \E i \in DOMAIN s : s[i] = Text!Backslash
              \/ \A i \in DOMAIN w : w[i] # Text!Slash
           /\ Text!IsSuffix(w, s)
<1> DEFINE n == Len(s)
           B == Text!find_last_of(s, {Text!Backslash})
           L == Text!find_last_of(s, {Text!Slash})
           p == IF B > 0 THEN B ELSE L
<1>0. n \in Nat /\ DOMAIN s = 1 .. n
  BY LenProperties
<1>1. B \in 0 .. n /\ (B > 0 => s[B] = Text!Backslash) /\ \A k \in B + 1 .. n : s[k] # Text!Backslash
  <2> DEFINE cs == {Text!Backslash}
  <2>1. B = Text!find_last_of(s, cs)
    OBVIOUS
  <2> HIDE DEF B
  <2>2. B \in 0 .. n /\ (B > 0 => s[B] \in cs) /\ \A k \in B + 1 .. n : s[k] \notin cs
    BY <2>1, LastThere
  <2> QED
    BY <2>2
<1>2. L \in 0 .. n /\ (L > 0 => s[L] = Text!Slash) /\ \A k \in L + 1 .. n : s[k] # Text!Slash
  <2> DEFINE cs == {Text!Slash}
  <2>1. L = Text!find_last_of(s, cs)
    OBVIOUS
  <2> HIDE DEF L
  <2>2. L \in 0 .. n /\ (L > 0 => s[L] \in cs) /\ \A k \in L + 1 .. n : s[k] \notin cs
    BY <2>1, LastThere
  <2> QED
    BY <2>2
<1>3. w = SubSeq(s, p + 1, n)
  BY DEF Text!get_short_name
<1> HIDE DEF B, L
<1>4. p \in 0 .. n /\ p + 1 \in 1 .. n + 1
  BY <1>0, <1>1, <1>2
<1>5. w \in Seq(S) /\ Len(w) = n - p /\ \A i \in 1 .. n - p : w[i] = s[p + i]
  <2> DEFINE a == p + 1
             b == n + 1
             v == Part(s, a, b)
  <2> HIDE DEF p
  <2>1. b \in a .. Len(s) + 1 /\ a \in 1 .. Len(s) + 1 /\ b - 1 = n
    BY <1>0, <1>4
  <2>2. v = w
    <3> HIDE DEF b, n
    <3> QED
      BY <1>3, <2>1 DEF Part
  <2> HIDE DEF a, b
  <2>3. v \in Seq(S) /\ Len(v) = b - a /\ \A i \in 1 .. b - a : v[i] = s[a + i - 1]
    BY ZenonT(40), <2>1, PartTyped
  <2>4. w \in Seq(S) /\ Len(w) = b - a /\ \A i \in 1 .. b - a : w[i] = s[a + i - 1]
    <3> HIDE DEF v
    <3> QED
      BY <2>2, <2>3
  <2>5. b - a = n - p /\ \A i \in 1 .. n - p : a + i - 1 = p + i
    BY <1>0, <1>4 DEF a, b
  <2> QED
    BY <2>4, <2>5
<1>6. DOMAIN w = 1 .. n - p
  BY <1>5, LenProperties
<1>7. ASSUME NEW i \in DOMAIN w PROVE w[i] = s[p + i] /\ p + i \in p + 1 .. n
  BY <1>0, <1>4, <1>5, <1>6
<1>8. \A i \in DOMAIN w : w[i] # Text!Backslash
  <2>1. \A k \in p + 1 .. n : s[k] # Text!Backslash
    BY <1>0, <1>1, <1>2
  <2> HIDE DEF p
  <2> QED
    BY <1>7, <2>1
<1>10. ~(B > 0) => \A i \in DOMAIN w : w[i] # Text!Slash
  <2> SUFFICES ASSUME ~(B > 0) PROVE \A i \in DOMAIN w : w[i] # Text!Slash
    OBVIOUS
  <2>1. p = L
    OBVIOUS
  <2> HIDE DEF p
  <2> QED
    BY <1>2, <1>7, <2>1
<1>9. B > 0 => \E i \in DOMAIN s : s[i] = Text!Backslash
  BY <1>0, <1>1
<1>11. Text!IsSuffix(w, s)
  BY <1>4, <1>5, SuffixIs
<1> HIDE DEF p
<1> QED
  BY <1>8, <1>9, <1>10, <1>11

-----------------------------------------------------------------------------
(* Hexadecimal text *)

\* The two digits of a character, and what is read of two digits.
Digits(c) == <<Text!hex2char(c \div 16), Text!hex2char(c % 16)>>

ByteRead(x, y) == Text!Signed(((Text!char2hex(x) * 16) % 256) + Text!char2hex(y))

\* A digit that is written is read as what it was.
LEMMA DigitReturns ==
    ASSUME NEW h \in 0 .. 15
    PROVE  Text!hex2char(h) \in Int /\ Text!char2hex(Text!hex2char(h)) = h
<1>1. CASE h < 10
  BY <1>1 DEF Text!hex2char, Text!char2hex, Text!Digit0
<1>2. CASE ~(h < 10)
  <2>1. Text!hex2char(h) = h + 87 /\ h + 87 \in 97 .. 102
    BY <1>2 DEF Text!hex2char
  <2> DEFINE c == h + 87
  <2>2. c \notin 48 .. 57 /\ c \notin 65 .. 90 /\ c - 97 + 10 = h
    BY <1>2
  <2> HIDE DEF c
  <2> QED
    BY <2>1, <2>2 DEF Text!char2hex, Text!Digit0, Text!Lower, c
<1> QED
  BY <1>1, <1>2

\* So is a character that is not negative.
LEMMA CharReturns ==
    ASSUME NEW c \in 0 .. 127
    PROVE  /\ Digits(c) \in Seq(Int) /\ Len(Digits(c)) = 2
           /\ ByteRead(Digits(c)[1], Digits(c)[2]) = c
<1> DEFINE h == c \div 16
           l == c % 16
           x == Text!hex2char(h)
           y == Text!hex2char(l)
<1>1. h \in 0 .. 7 /\ l \in 0 .. 15 /\ h * 16 + l = c
  OBVIOUS
<1> HIDE DEF h, l
<1>2. x \in Int /\ y \in Int /\ Text!char2hex(x) = h /\ Text!char2hex(y) = l
  BY <1>1, DigitReturns
<1>3. Digits(c) = <<x, y>>
  BY DEF Digits, h, l
<1> HIDE DEF x, y
<1>4. ByteRead(x, y) = c
  <2>1. (h * 16) % 256 = h * 16
    BY <1>1
  <2> QED
    BY <1>1, <1>2, <2>1 DEF ByteRead, Text!Signed
<1> QED
  BY <1>2, <1>3, <1>4

\* The texts of two characters that pairs are, one behind the other.
Paired(f, pairs, i) ==
    /\ Len(f) = 2 * i
    /\ \A k \in 1 .. i : f[2 * k - 1] = pairs[k][1] /\ f[2 * k] = pairs[k][2]

\* One more pair behind them.
LEMMA OneMorePair ==
    ASSUME NEW f \in Seq(Int), NEW pairs, NEW i \in Nat, Paired(f, pairs, i),
           NEW p \in Seq(Int), Len(p) = 2, pairs[i + 1] = p
    PROVE  Paired(Cat(f, p), pairs, i + 1)
<1> DEFINE g == f \o p
<1>0. Len(f) = 2 * i /\ \A k \in 1 .. i : f[2 * k - 1] = pairs[k][1] /\ f[2 * k] = pairs[k][2]
  BY DEF Paired
<1>1. Len(g) = 2 * i + 2 /\ \A j \in 1 .. 2 * i + 2 : g[j] = IF j <= 2 * i THEN f[j] ELSE p[j - 2 * i]
  <2>1. /\ f \o p \in Seq(Int) /\ Len(f \o p) = Len(f) + Len(p)
        /\ \A j \in 1 .. Len(f) + Len(p) :
               (f \o p)[j] = IF j <= Len(f) THEN f[j] ELSE p[j - Len(f)]
    BY ConcatProperties
  <2> QED
    BY <1>0, <2>1
<1> HIDE DEF g
<1>2. ASSUME NEW k \in 1 .. i + 1
      PROVE  g[2 * k - 1] = pairs[k][1] /\ g[2 * k] = pairs[k][2]
  <2>1. CASE k <= i
    <3>1. 2 * k - 1 \in 1 .. 2 * i + 2 /\ 2 * k - 1 <= 2 * i /\ 2 * k \in 1 .. 2 * i + 2
            /\ 2 * k <= 2 * i /\ k \in 1 .. i
      BY <2>1
    <3> DEFINE a == 2 * k - 1
               b == 2 * k
    <3>2. f[a] = pairs[k][1] /\ f[b] = pairs[k][2]
      BY <1>0, <3>1
    <3> HIDE DEF a, b
    <3>3. g[a] = f[a] /\ g[b] = f[b]
      BY <1>1, <3>1 DEF a, b
    <3> QED
      BY <3>2, <3>3 DEF a, b
  <2>2. CASE ~(k <= i)
    <3>1. k = i + 1 /\ 2 * k - 1 \in 1 .. 2 * i + 2 /\ ~(2 * k - 1 <= 2 * i) /\ 2 * k \in 1 .. 2 * i + 2
            /\ ~(2 * k <= 2 * i) /\ 2 * k - 1 - 2 * i = 1 /\ 2 * k - 2 * i = 2
      BY <2>2
    <3> DEFINE a == 2 * k - 1
               b == 2 * k
    <3> HIDE DEF a, b
    <3>2. g[a] = p[a - 2 * i] /\ g[b] = p[b - 2 * i]
      BY <1>1, <3>1 DEF a, b
    <3> QED
      BY <3>1, <3>2 DEF a, b
  <2> QED
    BY <2>1, <2>2
<1>3. Len(g) = 2 * (i + 1)
  BY <1>1
<1>4. Cat(f, p) = g
  BY DEF Cat, g
<1> QED
  BY <1>2, <1>3, <1>4 DEF Paired

\* And so is a text of them.
LEMMA HexText ==
    ASSUME NEW S, NEW s \in Seq(S), \A i \in DOMAIN s : s[i] \in 0 .. 127
    PROVE  Text!hexstring2hexbinary(Text!charstring2hexstring(s)) = s
<1> DEFINE n == Len(s)
           pairs == [i \in 1 .. n |-> Digits(s[i])]
           h == Text!charstring2hexstring(s)
           b == Text!hexstring2hexbinary(h)
<1>0. n \in Nat /\ DOMAIN s = 1 .. n
  BY LenProperties
<1>1. \A i \in 1 .. n : s[i] \in 0 .. 127
  BY <1>0
<1>2. h = Flat(pairs)
  BY DEF Text!charstring2hexstring, Text!FlattenSeq, Flat, Digits
<1>3. b = [i \in 1 .. Len(h) \div 2 |-> ByteRead(h[2 * i - 1], h[2 * i])]
  BY DEF Text!hexstring2hexbinary, ByteRead
<1>4. pairs \in [1 .. n -> Seq(Int)]
  BY <1>1, CharReturns
<1>5. \A i \in 1 .. n : pairs[i] = Digits(s[i])
  OBVIOUS
<1> HIDE DEF h, b
<1>6. Paired(h, pairs, n)
  <2>1. CASE n = 0
    <3>1. Len(pairs) = 0 /\ pairs = <<>>
      BY <2>1
    <3> HIDE DEF pairs
    <3>2. h = <<>>
      BY <1>2, <3>1 DEF Flat
    <3> QED
      BY <2>1, <3>2 DEF Paired
  <2>2. CASE n # 0
    <3> DEFINE l == n - 1
    <3>0. n \in Nat \ {0} /\ l \in Nat
      BY <1>0, <2>2
    <3> HIDE DEF pairs
    <3>1. PICK f : Together(f, pairs, n, Int) /\ Flat(pairs) = f[n]
      <4> HIDE DEF n
      <4> QED
        BY <1>4, <3>0, FlatUnfold
    <3> DEFINE T == {i \in 0 .. l : Paired(f[i + 1], pairs, i + 1)}
    <3>2. \A i \in 1 .. n : f[i] \in Seq(Int) /\ pairs[i] \in Seq(Int) /\ Len(pairs[i]) = 2
      <4>1. ASSUME NEW i \in 1 .. n PROVE f[i] \in Seq(Int)
        BY <3>1 DEF Together
      <4>2. ASSUME NEW i \in 1 .. n PROVE pairs[i] \in Seq(Int) /\ Len(pairs[i]) = 2
        <5> DEFINE c == s[i]
        <5>1. c \in 0 .. 127 /\ pairs[i] = Digits(c)
          BY <1>1, <1>5
        <5> HIDE DEF c, n
        <5> QED
          BY <5>1, CharReturns
      <4> QED
        BY <4>1, <4>2
    <3>3. 0 \in T
      <4>1. f[1] = pairs[1] /\ 1 \in 1 .. n
        BY <3>0, <3>1 DEF Together
      <4>3. Len(pairs[1]) = 2 /\ 0 + 1 = 1
        BY <3>2, <4>1
      <4>4. Paired(f[1], pairs, 1)
        BY <4>1, <4>3 DEF Paired
      <4>5. 0 \in 0 .. l
        BY <3>0
      <4> QED
        BY <4>3, <4>4, <4>5
    <3>4. ASSUME NEW i \in 0 .. l - 1, i \in T PROVE i + 1 \in T
      <4> DEFINE j == i + 1
      <4>1. j \in 1 .. n - 1 /\ j \in 1 .. n /\ j + 1 \in 1 .. n /\ j \in Nat /\ j \in 0 .. l
        BY <3>0, <3>4
      <4>2. Paired(f[j], pairs, j)
        BY <3>4
      <4> HIDE DEF j, n, l
      <4>3. f[j + 1] = Cat(f[j], pairs[j + 1])
        BY <3>1, <4>1 DEF Together
      <4>4. f[j] \in Seq(Int) /\ pairs[j + 1] \in Seq(Int) /\ Len(pairs[j + 1]) = 2
        BY <3>2, <4>1
      <4>5. Paired(f[j + 1], pairs, j + 1)
        BY <4>1, <4>2, <4>3, <4>4, OneMorePair
      <4> QED
        BY <4>1, <4>5 DEF j
    <3>5. 0 .. l \subseteq T
      <4> HIDE DEF T, l
      <4> QED
        BY <3>0, <3>3, <3>4, UpTo
    <3>6. l \in 0 .. l /\ l + 1 = n
      BY <3>0
    <3> HIDE DEF l, n
    <3>7. l \in T
      BY <3>5, <3>6
    <3> QED
      BY <1>2, <3>1, <3>6, <3>7
  <2> QED
    BY <2>1, <2>2
<1>7. Len(h) \div 2 = n
  <2>1. Len(h) = 2 * n
    BY <1>6 DEF Paired
  <2> HIDE DEF n
  <2>2. (2 * n) \div 2 = n
    BY <1>0
  <2> QED
    BY <2>1, <2>2
<1>8. ASSUME NEW i \in 1 .. n PROVE ByteRead(h[2 * i - 1], h[2 * i]) = s[i]
  <2>1. h[2 * i - 1] = pairs[i][1] /\ h[2 * i] = pairs[i][2]
    BY <1>6 DEF Paired
  <2>2. ByteRead(Digits(s[i])[1], Digits(s[i])[2]) = s[i]
    BY <1>1, CharReturns
  <2> HIDE DEF pairs
  <2> QED
    BY <1>5, <2>1, <2>2
<1>9. b = [i \in 1 .. n |-> s[i]]
  <2> HIDE DEF pairs, n
  <2> QED
    BY <1>3, <1>7, <1>8
<1>10. s = [i \in 1 .. n |-> s[i]]
  <2>1. s \in [1 .. n -> S]
    BY LenProperties
  <2> QED
    BY <2>1
<1> QED
  BY <1>9, <1>10 DEF b, h

-----------------------------------------------------------------------------
(* The specification *)

\* The codes of characters.
CharCodes == -128 .. 127

\* The argument is a text, and the answers of the last call are those of its forms.
TextInv ==
    /\ argument \in Seq(CharCodes) /\ Delim \in CharCodes
    /\ \/ forms = [call |-> "none"]
       \/ forms = [call |-> "trim", byPointer |-> Text!strtrim(argument),
                   byLength |-> Text!strtrimN(argument)]
       \/ forms = [call |-> "split", char |-> Text!splitChar(argument, Delim),
                   string |-> Text!splitString(argument, <<Delim>>),
                   any |-> Text!splitAny(argument, {Delim}),
                   long |-> Text!splitString(argument, <<Delim, Delim>>)]
       \/ forms = [call |-> "name", text |-> Text!get_short_name(argument)]
       \/ forms = [call |-> "hex",
                   text |-> Text!hexstring2hexbinary(Text!charstring2hexstring(argument))]

\* The first states are such states.
LEMMA TextInitial == LibInit => TextInv
<1> SUFFICES ASSUME LibInit PROVE TextInv
  OBVIOUS
<1>1. Texts \subseteq Seq(CharCodes) /\ Delim \in CharCodes
  BY TextAssumption DEF CharCodes
<1>2. forms = [call |-> "none"]
  BY DEF LibInit, Text!StringInit
<1>3. argument \in Texts \/ argument = <<>>
  BY DEF LibInit, Text!StringInit
<1>4. <<>> \in Seq(CharCodes)
  OBVIOUS
<1>5. argument \in Seq(CharCodes)
  BY <1>1, <1>3, <1>4
<1> QED
  BY <1>1, <1>2, <1>5 DEF TextInv

\* A call keeps the argument and answers as its form does.
LEMMA TextStep == TextInv /\ [LibNext]_libVars => TextInv'
<1> SUFFICES ASSUME TextInv, [LibNext]_libVars PROVE TextInv'
  OBVIOUS
<1>1. Text!StringNext \/ UNCHANGED stringVars
  BY DEF LibNext, Still, libVars
<1>2. CASE UNCHANGED stringVars
  BY <1>2 DEF stringVars, TextInv
<1>3. CASE Text!StringNext
  <2>1. argument' = argument
    BY <1>3 DEF Text!StringNext, Text!Trim, Text!Split, Text!ShortName, Text!Hex
  <2>2. CASE Text!Trim
    BY <2>1, <2>2 DEF Text!Trim, TextInv
  <2>3. CASE Text!Split
    BY <2>1, <2>3 DEF Text!Split, TextInv
  <2>4. CASE Text!ShortName
    BY <2>1, <2>4 DEF Text!ShortName, TextInv
  <2>5. CASE Text!Hex
    BY <2>1, <2>5 DEF Text!Hex, TextInv
  <2> QED
    BY <1>3, <2>2, <2>3, <2>4, <2>5 DEF Text!StringNext
<1> QED
  BY <1>1, <1>2, <1>3

\* What the forms are makes them agree.
LEMMA FormsHold == TextInv => TextFormsAgree
<1> SUFFICES ASSUME TextInv PROVE TextFormsAgree
  OBVIOUS
<1>0. argument \in Seq(CharCodes) /\ Delim \in CharCodes
  BY DEF TextInv
<1>1. Text!TrimsAgree
  <2> SUFFICES ASSUME forms.call = "trim"
               PROVE  IF Seen(argument)
                      THEN /\ forms.byPointer = forms.byLength
                           /\ forms.byPointer.count = Len(forms.byPointer.text)
                      ELSE /\ forms.byPointer =
                                [text |-> <<>>, count |-> IF argument = <<>> THEN 0 ELSE 1]
                           /\ forms.byLength.count = 0
    BY DEF Text!TrimsAgree, Seen
  <2>1. forms.byPointer = Text!strtrim(argument) /\ forms.byLength = Text!strtrimN(argument)
    BY DEF TextInv
  <2> QED
    BY <1>0, <2>1, FormsOfTrim
<1>2. Text!SplitsAgree
  <2> SUFFICES ASSUME forms.call = "split"
               PROVE  /\ forms.char = forms.string /\ forms.string = forms.any
                      /\ Text!Fields(forms.char, argument, Delim)
                      /\ Text!FlattenSeq([k \in DOMAIN forms.long |->
                                             Text!splitChar(forms.long[k], Delim)]) = forms.char
    BY DEF Text!SplitsAgree
  <2>1. /\ forms.char = Text!splitChar(argument, Delim)
        /\ forms.string = Text!splitString(argument, <<Delim>>)
        /\ forms.any = Text!splitAny(argument, {Delim})
        /\ forms.long = Text!splitString(argument, <<Delim, Delim>>)
    BY DEF TextInv
  <2> QED
    BY <1>0, <2>1, FormsOfSplit
<1>3. Text!NameIsInDirectory
  <2> SUFFICES ASSUME forms.call = "name"
               PROVE  /\ \A i \in DOMAIN forms.text : forms.text[i] # Text!Backslash
                      /\ \/ \E i \in DOMAIN argument : argument[i] = Text!Backslash
                         \/ \A i \in DOMAIN forms.text : forms.text[i] # Text!Slash
                      /\ Text!IsSuffix(forms.text, argument)
    BY DEF Text!NameIsInDirectory
  <2>1. forms.text = Text!get_short_name(argument)
    BY DEF TextInv
  <2> QED
    BY <1>0, <2>1, ShortNameBehind
<1>4. Text!HexReturns
  <2> SUFFICES ASSUME forms.call = "hex", \A i \in DOMAIN argument : argument[i] >= 0
               PROVE  forms.text = argument
    BY DEF Text!HexReturns
  <2>1. forms.text = Text!hexstring2hexbinary(Text!charstring2hexstring(argument))
    BY DEF TextInv
  <2>2. ASSUME NEW i \in DOMAIN argument PROVE argument[i] \in 0 .. 127
    <3>1. argument[i] \in CharCodes
      BY <1>0, ElementOfSeq
    <3> QED
      BY <3>1 DEF CharCodes
  <2> QED
    BY <1>0, <2>1, <2>2, HexText
<1> QED
  BY <1>1, <1>2, <1>3, <1>4 DEF TextFormsAgree

\* The forms of the helpers on text agree, whatever the texts and the delimiter.
THEOREM FormsAgree == LibSpec => []TextFormsAgree
<1>1. LibSpec => []TextInv
  BY TextInitial, TextStep, PTL DEF LibSpec
<1> QED
  BY <1>1, FormsHold, PTL
=============================================================================
