--------------------------- MODULE IoAdaptersProofs ---------------------------
(***************************************************************************)
(* What the io adapters promise holds whatever the sizes of blocks, units, *)
(* chunks, writes and reads, wherever a write fails, a source ends or is   *)
(* cut off: IoAdapters's WriterDelivers and EndIsHonest.                   *)
(*                                                                         *)
(* Two inductive invariants.  Of a Writer: the content of the units made   *)
(* and what still waits for a block are what was written, and what left    *)
(* the queue is a prefix of the units' bytes with nothing of a later unit, *)
(* all of it as long as no error was reported.  Of a Reader: what it has   *)
(* decoded is a prefix of the units, the longest that what it was handed   *)
(* holds, and the content of those units is what it delivered and what is  *)
(* left in the decoder.                                                    *)
(***************************************************************************)
EXTENDS IoAdapters, WellFoundedInduction, TLAPS

-----------------------------------------------------------------------------
\* Sequences.

\* Concatenation is associative.
LEMMA ConcatOfConcat ==
  ASSUME NEW E, NEW a \in Seq(E), NEW b \in Seq(E), NEW c \in Seq(E)
  PROVE  (a \o b) \o c = a \o (b \o c)
OBVIOUS

\* Concatenation is associative, over any elements.
LEMMA ConcatAll == \A E : \A a, b, c \in Seq(E) : (a \o b) \o c = a \o (b \o c)
BY ConcatOfConcat

\* The same for the bytes the adapters move, in the form the provers instantiate.
LEMMA ConcatNat == \A a, b, c \in Seq(Nat) : (a \o b) \o c = a \o (b \o c)
BY ConcatAll

\* Sequences of one length with the same elements are the same.
LEMMA SameSeq ==
  ASSUME NEW E, NEW s \in Seq(E), NEW t \in Seq(E), Len(s) = Len(t),
         \A k \in 1..Len(s) : s[k] = t[k]
  PROVE  s = t
OBVIOUS

\* A sequence cut in two and joined is what it was.
LEMMA CutAndJoin ==
  ASSUME NEW E, NEW s \in Seq(E), NEW a \in 0..Len(s)
  PROVE  /\ SubSeq(s, 1, a) \in Seq(E) /\ SubSeq(s, a + 1, Len(s)) \in Seq(E)
         /\ SubSeq(s, 1, a) \o SubSeq(s, a + 1, Len(s)) = s
<1>1. PICK x : x = SubSeq(s, 1, a)
  OBVIOUS
<1>2. PICK y : y = SubSeq(s, a + 1, Len(s))
  OBVIOUS
<1>3. x \in Seq(E) /\ Len(x) = a /\ \A k \in 1..a : x[k] = s[k]
  BY <1>1
<1>4. y \in Seq(E) /\ Len(y) = Len(s) - a /\ \A k \in 1..Len(s) - a : y[k] = s[a + k]
  BY <1>2
<1>5. PICK z : z = x \o y
  OBVIOUS
<1>6. z \in Seq(E) /\ Len(z) = Len(s)
  <2>1. z \in Seq(E) /\ Len(z) = Len(x) + Len(y)
    <3>1. PICK u \in Seq(E) : u = x
      BY <1>3
    <3>2. PICK v \in Seq(E) : v = y
      BY <1>4
    <3>3. u \o v \in Seq(E) /\ Len(u \o v) = Len(u) + Len(v)
      OBVIOUS
    <3> QED BY <1>5, <3>1, <3>2, <3>3
  <2>2. Len(x) + Len(y) = Len(s)
    BY <1>3, <1>4
  <2> QED BY <2>1, <2>2
<1>7. ASSUME NEW k \in 1..Len(s) PROVE z[k] = s[k]
  <2>1. k <= a => z[k] = x[k]
    BY <1>3, <1>4, <1>5
  <2>2. k > a => z[k] = y[k - a]
    BY <1>3, <1>4, <1>5
  <2> QED BY <1>3, <1>4, <2>1, <2>2
<1>8. z = s
  BY <1>6, <1>7
<1> QED BY <1>1, <1>2, <1>3, <1>4, <1>5, <1>8

-----------------------------------------------------------------------------
\* Flattening.

\* A nonempty set of naturals has a least member.
LEMMA Least ==
  ASSUME NEW S \in SUBSET Nat, S # {}
  PROVE  \E n \in S : \A m \in S : n <= m
<1>1. PICK n \in S : \A m \in S : ~(<<m, n>> \in OpToRel(<, Nat))
  BY Zenon, NatLessThanWellFounded, WFMin
<1>2. \A m \in S : ~(m < n)
  BY <1>1 DEF OpToRel
<1> QED BY <1>2

\* f joins the first sequences of s, one more at every step: the function behind FlattenSeq.
Joins(f, s, N) == f = [i \in 1..N |-> IF i = 1 THEN s[i] ELSE f[i - 1] \o s[i]]

\* There is such a function, however long the sequence.
LEMMA JoinsExists ==
  ASSUME NEW s, NEW N \in Nat
  PROVE  \E f : Joins(f, s, N)
<1> DEFINE Bad == {n \in Nat : ~\E f : Joins(f, s, n)}
<1>1. SUFFICES ASSUME Bad # {} PROVE FALSE
  OBVIOUS
<1>2. PICK n \in Bad : \A m \in Bad : n <= m
  BY <1>1, Least
<1>3. n # 0
  <2>1. Joins([i \in 1..0 |-> 0], s, 0)
    BY DEF Joins
  <2> QED BY <2>1
<1>4. PICK g : Joins(g, s, n - 1)
  BY <1>2, <1>3
<1> DEFINE h == [i \in 1..n |-> IF i < n THEN g[i] ELSE IF n = 1 THEN s[n] ELSE g[n - 1] \o s[n]]
<1>5. Joins(h, s, n)
  <2>1. \A i \in 1..n : h[i] = IF i = 1 THEN s[i] ELSE h[i - 1] \o s[i]
    <3>1. \A i \in 1..n-1 : g[i] = IF i = 1 THEN s[i] ELSE g[i - 1] \o s[i]
      BY <1>3, <1>4 DEF Joins
    <3> QED BY <1>3, <3>1
  <2>2. h = [i \in 1..n |-> h[i]]
    OBVIOUS
  <2> QED BY <2>1, <2>2 DEF Joins
<1> QED BY <1>5

\* FlattenSeq is the last value of one.
LEMMA FlattenIs ==
  ASSUME NEW s, Len(s) \in Nat, Len(s) # 0
  PROVE  \E f : Joins(f, s, Len(s)) /\ FlattenSeq(s) = f[Len(s)]
<1>1. \E f : Joins(f, s, Len(s))
  BY JoinsExists
<1> QED BY <1>1 DEF FlattenSeq, Joins

\* Two of them agree as far as their sequences do.
LEMMA JoinsAgree ==
  ASSUME NEW E, NEW s \in Seq(E), NEW t \in Seq(E), NEW N \in Nat, NEW M \in Nat, N <= M,
         \A i \in 1..N : s[i] = t[i],
         NEW f, NEW g, Joins(f, s, N), Joins(g, t, M)
  PROVE  \A i \in 1..N : f[i] = g[i]
<1> DEFINE Bad == {n \in 1..N : f[n] # g[n]}
<1>1. SUFFICES ASSUME Bad # {} PROVE FALSE
  OBVIOUS
<1>2. PICK n \in Bad : \A m \in Bad : n <= m
  <2>1. Bad \subseteq Nat
    OBVIOUS
  <2> HIDE DEF Bad
  <2> QED BY <1>1, <2>1, Least
<1>0. n \in 1..N /\ n \in 1..M
  BY <1>2
<1>3. /\ f[n] = IF n = 1 THEN s[n] ELSE f[n - 1] \o s[n]
      /\ g[n] = IF n = 1 THEN t[n] ELSE g[n - 1] \o t[n]
  <2> HIDE DEF Bad
  <2>1. \A i \in 1..N : f[i] = IF i = 1 THEN s[i] ELSE f[i - 1] \o s[i]
    BY DEF Joins
  <2>2. \A i \in 1..M : g[i] = IF i = 1 THEN t[i] ELSE g[i - 1] \o t[i]
    BY DEF Joins
  <2> QED BY <1>0, <2>1, <2>2
<1>4. n # 1 => f[n - 1] = g[n - 1]
  BY <1>2
<1> QED BY <1>2, <1>3, <1>4

\* One more sequence behind the others.
LEMMA FlattenAppend ==
  ASSUME NEW D, NEW s \in Seq(Seq(D)), NEW x \in Seq(D), FlattenSeq(s) \in Seq(D)
  PROVE  /\ FlattenSeq(Append(s, x)) = FlattenSeq(s) \o x
         /\ FlattenSeq(Append(s, x)) \in Seq(D)
<1>1. PICK t : t = Append(s, x)
  OBVIOUS
<1>0. t \in Seq(Seq(D))
  BY <1>1
<1>2. PICK n \in Nat : n = Len(s)
  OBVIOUS
<1>3. /\ Len(t) = n + 1 /\ t[n + 1] = x /\ \A i \in 1..n : s[i] = t[i]
  BY <1>1, <1>2
<1>4. PICK g : Joins(g, t, n + 1) /\ FlattenSeq(t) = g[n + 1]
  BY <1>3, FlattenIs
<1>5. CASE n = 0
  <2>1. s = << >>
    <3>1. Len(s) = 0
      BY <1>2, <1>5
    <3> QED BY <3>1
  <2>0. << >> \o x = x
    OBVIOUS
  <2>2. FlattenSeq(s) = << >>
    BY <2>1 DEF FlattenSeq
  <2>3. FlattenSeq(t) = x
    BY <1>3, <1>4, <1>5 DEF Joins
  <2> QED BY <1>1, <2>0, <2>2, <2>3
<1>6. CASE n # 0
  <2>1. PICK f : Joins(f, s, n) /\ FlattenSeq(s) = f[n]
    BY <1>2, <1>6, FlattenIs
  <2>2. \A i \in 1..n : f[i] = g[i]
    <3>1. PICK m \in Nat : m = n + 1
      OBVIOUS
    <3>2. Joins(g, t, m) /\ n <= m
      BY <1>4, <3>1
    <3>3. PICK E : E = Seq(D)
      OBVIOUS
    <3>4. s \in Seq(E) /\ t \in Seq(E)
      BY <1>0, <3>3
    <3>5. \A i \in 1..n : s[i] = t[i]
      BY <1>3
    <3> QED BY SMTT(30), <2>1, <3>2, <3>4, <3>5, JoinsAgree
  <2>3. \A i \in 1..n + 1 : g[i] = IF i = 1 THEN t[i] ELSE g[i - 1] \o t[i]
    BY <1>4 DEF Joins
  <2>4. g[n + 1] = g[n] \o x /\ f[n] = g[n]
    <3>1. n \in 1..n /\ n + 1 \in 1..n + 1 /\ n + 1 # 1
      BY <1>6
    <3>2. g[n + 1] = IF n + 1 = 1 THEN t[n + 1] ELSE g[n + 1 - 1] \o t[n + 1]
      <4>1. PICK m : m = n + 1
        OBVIOUS
      <4>2. m \in 1..n + 1
        BY <3>1, <4>1
      <4>3. g[m] = IF m = 1 THEN t[m] ELSE g[m - 1] \o t[m]
        BY <2>3, <4>2
      <4> QED BY <4>1, <4>3
    <3>3. f[n] = g[n]
      BY <2>2, <3>1
    <3> QED BY <1>3, <3>1, <3>2, <3>3
  <2> QED BY <1>1, <1>4, <2>1, <2>4
<1> QED BY <1>5, <1>6

\* What a sequence of sequences flattens to behind another.
LEMMA FlattenConcat ==
  ASSUME NEW D, NEW s \in Seq(Seq(D)), NEW t \in Seq(Seq(D)), FlattenSeq(s) \in Seq(D)
  PROVE  /\ FlattenSeq(t) \in Seq(D)
         /\ FlattenSeq(s \o t) = FlattenSeq(s) \o FlattenSeq(t)
<1> DEFINE P(r) == /\ FlattenSeq(r) \in Seq(D)
                   /\ FlattenSeq(s \o r) = FlattenSeq(s) \o FlattenSeq(r)
           Bad == {m \in 0..Len(t) : ~P(SubSeq(t, 1, m))}
<1>1. SubSeq(t, 1, Len(t)) = t
  OBVIOUS
<1>2. P(<< >>)
  <2>1. FlattenSeq(<< >>) = << >>
    BY DEF FlattenSeq
  <2>2. s \o << >> = s /\ << >> \in Seq(D) /\ FlattenSeq(s) \o << >> = FlattenSeq(s)
    OBVIOUS
  <2> QED BY <2>1, <2>2
<1>3. ASSUME NEW r \in Seq(Seq(D)), NEW x \in Seq(D), P(r) PROVE P(Append(r, x))
  <2>1. FlattenSeq(r) \in Seq(D) /\ FlattenSeq(s \o r) = FlattenSeq(s) \o FlattenSeq(r)
    BY <1>3
  <2>2. /\ FlattenSeq(Append(r, x)) \in Seq(D)
        /\ FlattenSeq(s \o Append(r, x)) = FlattenSeq(s) \o FlattenSeq(Append(r, x))
    <3> HIDE DEF P, Bad
    <3>1. FlattenSeq(Append(r, x)) = FlattenSeq(r) \o x /\ FlattenSeq(Append(r, x)) \in Seq(D)
      BY <2>1, FlattenAppend
    <3>2. s \o r \in Seq(Seq(D)) /\ s \o Append(r, x) = Append(s \o r, x)
      OBVIOUS
    <3>3. FlattenSeq(Append(s \o r, x)) = FlattenSeq(s \o r) \o x
      <4>1. FlattenSeq(s \o r) \in Seq(D)
        BY <2>1
      <4> QED BY <3>2, <4>1, FlattenAppend
    <3>4. (FlattenSeq(s) \o FlattenSeq(r)) \o x = FlattenSeq(s) \o (FlattenSeq(r) \o x)
      <4>1. \A a, b, c \in Seq(D) : (a \o b) \o c = a \o (b \o c)
        BY SMTT(30), ConcatAll
      <4> QED BY <2>1, <4>1
    <3> QED BY <2>1, <3>1, <3>2, <3>3, <3>4
  <2> QED BY <2>2
<1> HIDE DEF P
<1>4. Bad \subseteq Nat
  OBVIOUS
<1>5. ASSUME Bad # {} PROVE FALSE
  <2>1. PICK m \in Bad : \A k \in Bad : m <= k
    <3> HIDE DEF Bad
    <3> QED BY <1>4, <1>5, Least
  <2>2. m \in 0..Len(t) /\ ~P(SubSeq(t, 1, m)) /\ (m # 0 => P(SubSeq(t, 1, m - 1)))
    BY <2>1
  <2>3. m # 0
    <3>1. SubSeq(t, 1, 0) = << >>
      OBVIOUS
    <3> QED BY <1>2, <2>2, <3>1
  <2> HIDE DEF Bad
  <2>0. m \in 1..Len(t) /\ m - 1 \in 0..Len(t)
    BY <2>2, <2>3
  <2>4. PICK r : r = SubSeq(t, 1, m - 1)
    OBVIOUS
  <2>5. t[m] \in Seq(D) /\ SubSeq(t, 1, m) = Append(r, t[m])
    BY <2>0, <2>4
  <2>6. r \in Seq(Seq(D))
    BY <2>0, <2>4
  <2> QED BY <1>3, <2>2, <2>3, <2>4, <2>5, <2>6
<1>6. P(t)
  <2>1. Len(t) \in 0..Len(t)
    OBVIOUS
  <2> QED BY <1>1, <1>5, <2>1
<1> QED BY <1>6 DEF P

\* Chunks of a sequence, cut one behind the other, flatten to what they were cut from.
LEMMA FlattenChunks ==
  ASSUME NEW D, NEW h \in Seq(D), NEW B \in Nat, NEW q \in Nat, q * B <= Len(h)
  PROVE  FlattenSeq([k \in 1..q |-> SubSeq(h, (k - 1) * B + 1, k * B)]) = SubSeq(h, 1, q * B)
<1> DEFINE C(n) == [k \in 1..n |-> SubSeq(h, (k - 1) * B + 1, k * B)]
           P(n) == FlattenSeq(C(n)) = SubSeq(h, 1, n * B)
           Bad == {n \in 0..q : ~P(n)}
<1>1. \A n \in 0..q : n * B \in Nat /\ n * B <= Len(h)
  OBVIOUS
<1>2. P(0)
  <2>1. C(0) = << >> /\ SubSeq(h, 1, 0 * B) = << >>
    OBVIOUS
  <2> QED BY <2>1 DEF FlattenSeq
<1>3. ASSUME NEW n \in 1..q, P(n - 1) PROVE P(n)
  <2>1. PICK a \in Nat : a = (n - 1) * B
    OBVIOUS
  <2>2. a + B = n * B /\ a + B <= Len(h)
    BY <1>1, <2>1
  <2>3. PICK x : x = SubSeq(h, a + 1, a + B)
    OBVIOUS
  <2>8. x \in Seq(D)
    BY <2>2, <2>3
  <2>4. C(n - 1) \in Seq(Seq(D)) /\ C(n) = Append(C(n - 1), x)
    <3>1. \A k \in 1..n : SubSeq(h, (k - 1) * B + 1, k * B) \in Seq(D)
      <4>1. \A k \in 1..n : (k - 1) * B \in Nat /\ k * B \in Nat /\ k * B <= Len(h)
        BY <1>1
      <4> QED BY <4>1
    <3>2. SubSeq(h, (n - 1) * B + 1, n * B) = x
      BY <2>1, <2>2, <2>3
    <3>3. C(n - 1) \in Seq(Seq(D)) /\ C(n) \in Seq(Seq(D)) /\ Len(C(n)) = n /\ Len(C(n - 1)) = n - 1
      BY <3>1
    <3>4. C(n)[n] = x /\ \A k \in 1..n - 1 : C(n)[k] = C(n - 1)[k]
      BY <3>2
    <3> HIDE DEF C
    <3> QED BY <2>8, <3>3, <3>4
  <2>5. FlattenSeq(C(n - 1)) = SubSeq(h, 1, a) /\ SubSeq(h, 1, a) \in Seq(D)
    <3> HIDE DEF C
    <3> QED BY <1>3, <2>1, <2>2
  <2>6. FlattenSeq(C(n)) = SubSeq(h, 1, a) \o x
    <3> HIDE DEF C
    <3>1. PICK c \in Seq(Seq(D)) : c = C(n - 1)
      BY <2>4
    <3> QED BY <2>4, <2>5, <2>8, <3>1, FlattenAppend
  <2>7. SubSeq(h, 1, a) \o SubSeq(h, a + 1, a + B) = SubSeq(h, 1, a + B)
    BY <2>2
  <2> QED BY <2>2, <2>3, <2>6, <2>7
<1> HIDE DEF P
<1>4. Bad \subseteq Nat
  OBVIOUS
<1>5. ASSUME Bad # {} PROVE FALSE
  <2>1. PICK m \in Bad : \A k \in Bad : m <= k
    <3> HIDE DEF Bad
    <3> QED BY <1>4, <1>5, Least
  <2>2. m \in 0..q /\ ~P(m) /\ (m # 0 => P(m - 1))
    BY <2>1
  <2> HIDE DEF Bad
  <2> QED BY <1>2, <1>3, <2>2
<1>6. P(q)
  BY <1>5
<1> QED BY <1>6 DEF P

-----------------------------------------------------------------------------
\* Numbers.

\* A division is known by what it leaves.
LEMMA DivMod ==
  ASSUME NEW b \in Nat \ {0}, NEW a \in Nat, NEW q \in Nat, NEW r \in Nat, a = b * q + r, r < b
  PROVE  a \div b = q /\ a % b = r
OBVIOUS

\* And it leaves less than it divides by.
LEMMA DivLeaves ==
  ASSUME NEW b \in Nat \ {0}, NEW a \in Nat
  PROVE  \E q \in Nat, r \in Nat : q = a \div b /\ a = b * q + r /\ r < b
<1>1. a \div b \in Nat /\ a % b \in 0..b - 1
  OBVIOUS
<1>2. a = b * (a \div b) + (a % b)
  OBVIOUS
<1> QED BY <1>1, <1>2

-----------------------------------------------------------------------------
\* The bytes of units.

\* The bytes behind the first a, up to the b-th.
Run(a, b) == [k \in 1..b - a |-> a + k]

\* Two runs, one behind the other, are one.
LEMMA RunConcat ==
  ASSUME NEW a \in Nat, NEW b \in Nat, NEW c \in Nat, a <= b, b <= c
  PROVE  Run(a, b) \o Run(b, c) = Run(a, c)
<1>1. /\ Run(a, b) \in Seq(Nat) /\ Len(Run(a, b)) = b - a
      /\ Run(b, c) \in Seq(Nat) /\ Len(Run(b, c)) = c - b
      /\ Run(a, c) \in Seq(Nat) /\ Len(Run(a, c)) = c - a
  BY DEF Run
<1>2. \A k \in 1..c - a : (Run(a, b) \o Run(b, c))[k] = a + k
  BY <1>1 DEF Run
<1>3. \A k \in 1..c - a : Run(a, c)[k] = a + k
  BY DEF Run
<1>4. Len(Run(a, b) \o Run(b, c)) = c - a /\ Run(a, b) \o Run(b, c) \in Seq(Nat)
  BY <1>1
<1>5. PICK s \in Seq(Nat) : s = Run(a, b) \o Run(b, c)
  BY <1>4
<1>6. PICK t \in Seq(Nat) : t = Run(a, c)
  BY <1>1
<1>7. Len(s) = Len(t) /\ \A k \in 1..Len(s) : s[k] = t[k]
  BY <1>1, <1>2, <1>3, <1>4, <1>5, <1>6
<1>8. s = t
  BY <1>7, SameSeq
<1> QED BY <1>5, <1>6, <1>8

\* The bytes of whole units are a run.
LEMMA BytesAreRun ==
  ASSUME NEW n \in Nat, NEW m \in Nat, n <= m
  PROVE  /\ BytesOf(n, m) = Run(n * UnitBytes, m * UnitBytes)
         /\ n * UnitBytes \in Nat /\ m * UnitBytes \in Nat
         /\ n * UnitBytes <= m * UnitBytes
<1>1. UnitBytes \in Nat \ {0}
  BY IoAssumption
<1>2. /\ n * UnitBytes \in Nat /\ m * UnitBytes \in Nat
      /\ (m - n) * UnitBytes = m * UnitBytes - n * UnitBytes /\ (m - n) * UnitBytes \in Nat
  BY <1>1
<1> QED BY <1>2 DEF BytesOf, Run

\* What a drain leaves of a queue that is a run: nothing queued, the sink in order and
\* below the run's end, and without an error all of it there.
LEMMA DrainDelivers ==
  ASSUME NEW a \in Nat, NEW b \in Nat, a <= b,
         NEW into \in Seq(Nat), \A k \in 1..Len(into) : into[k] <= a, Increasing(into),
         NEW d \in drain(Run(a, b), into)
  PROVE  /\ d.pending = << >> /\ d.ok \in BOOLEAN
         /\ d.sink \in Seq(Nat) /\ Increasing(d.sink) /\ \A k \in 1..Len(d.sink) : d.sink[k] <= b
         /\ into = Run(0, a) => \A k \in 1..Len(d.sink) : d.sink[k] = k
         /\ into = Run(0, a) /\ d.ok => d.sink = Run(0, b)
<1>1. /\ Run(a, b) \in Seq(Nat) /\ Len(Run(a, b)) = b - a
      /\ \A k \in 1..b - a : Run(a, b)[k] = a + k
  BY DEF Run
<1>2. PICK q : q = Run(a, b)
  OBVIOUS
<1>3. q \in Seq(Nat) /\ Len(q) = b - a /\ \A k \in 1..b - a : q[k] = a + k
  BY <1>1, <1>2
<1>4. PICK n \in 0..b - a : d = [pending |-> << >>, sink |-> into \o SubSeq(q, 1, n), ok |-> n = b - a]
  BY <1>2, <1>3 DEF drain, KeepAfterDrain
<1>5. PICK s : s = into \o SubSeq(q, 1, n)
  OBVIOUS
<1>6. PICK l \in Nat : l = Len(into)
  OBVIOUS
<1>7. /\ s \in Seq(Nat) /\ Len(s) = l + n
      /\ \A k \in 1..l : s[k] = into[k]
      /\ \A k \in l + 1..l + n : s[k] = a + (k - l)
  BY <1>3, <1>5, <1>6
<1>8. Increasing(s)
  <2>1. ASSUME NEW i \in 1..l + n - 1 PROVE s[i] < s[i + 1]
    <3>1. CASE i + 1 <= l
      BY <1>6, <1>7, <3>1 DEF Increasing
    <3>2. CASE i = l
      <4>1. s[i] <= a /\ s[i + 1] = a + 1 /\ s[i] \in Nat
        <5>1. i \in 1..l /\ i \in 1..Len(into) /\ i + 1 \in l + 1..l + n /\ i + 1 - l = 1
          BY <1>6, <2>1, <3>2
        <5>2. s[i] = into[i] /\ into[i] \in Nat /\ into[i] <= a
          BY <1>7, <5>1
        <5>3. s[i + 1] = a + (i + 1 - l)
          BY <1>7, <5>1
        <5> QED BY <5>1, <5>2, <5>3
      <4> QED BY <4>1
    <3>3. CASE i > l
      BY <1>7, <2>1, <3>3
    <3> QED BY <1>6, <3>1, <3>2, <3>3
  <2> QED BY <1>7, <2>1 DEF Increasing
<1>9. \A k \in 1..Len(s) : s[k] <= b
  <2>1. ASSUME NEW k \in 1..l + n PROVE s[k] <= b
    <3>1. CASE k <= l
      <4>1. k \in 1..l /\ k \in 1..Len(into)
        BY <1>6, <2>1, <3>1
      <4>2. s[k] = into[k] /\ into[k] <= a /\ into[k] \in Nat
        BY <1>7, <4>1
      <4> QED BY <4>2
    <3>2. CASE k > l
      <4>1. s[k] = a + (k - l)
        BY <1>7, <2>1, <3>2
      <4> QED BY <1>4, <2>1, <3>2, <4>1
    <3> QED BY <1>6, <2>1, <3>1, <3>2
  <2> QED BY <1>7, <2>1
<1>10. ASSUME into = Run(0, a)
       PROVE  /\ l = a /\ \A k \in 1..Len(s) : s[k] = k
              /\ n = b - a => s = Run(0, b)
  <2>1. l = a /\ \A k \in 1..a : into[k] = k
    BY <1>6, <1>10 DEF Run
  <2>2. \A k \in 1..Len(s) : s[k] = k
    <3>1. ASSUME NEW k \in 1..l + n PROVE s[k] = k
      <4>1. k <= l => s[k] = into[k]
        BY <1>7
      <4>2. k > l => s[k] = a + (k - l)
        BY <1>7
      <4> QED BY <2>1, <4>1, <4>2
    <3> QED BY <1>7, <3>1
  <2>3. n = b - a => s = Run(0, b)
    <3>1. SUFFICES ASSUME n = b - a PROVE s = Run(0, b)
      OBVIOUS
    <3>2. Len(s) = b
      BY <1>7, <2>1, <3>1
    <3> QED BY <1>7, <2>2, <3>2 DEF Run
  <2> QED BY <2>1, <2>2, <2>3
<1> QED BY <1>4, <1>5, <1>7, <1>8, <1>9, <1>10

-----------------------------------------------------------------------------
\* Content.

Unit == [kind : {"header", "block", "last"}, data : Seq(Nat)]
ContentOf(us) == FlattenSeq([k \in 1..Len(us) |-> us[k].data])

\* What the units of one sequence behind another carry.
LEMMA ContentConcat ==
  ASSUME NEW us \in Seq(Unit), NEW vs \in Seq(Unit)
  PROVE  /\ ContentOf(us) \in Seq(Nat) /\ ContentOf(vs) \in Seq(Nat)
         /\ ContentOf(us \o vs) = ContentOf(us) \o ContentOf(vs)
<1> DEFINE D(ws) == [k \in 1..Len(ws) |-> ws[k].data]
<1>1. \A ws \in Seq(Unit) : D(ws) \in Seq(Seq(Nat)) /\ Len(D(ws)) = Len(ws)
  <2>1. ASSUME NEW ws \in Seq(Unit) PROVE D(ws) \in Seq(Seq(Nat)) /\ Len(D(ws)) = Len(ws)
    <3>1. ASSUME NEW k \in 1..Len(ws) PROVE ws[k].data \in Seq(Nat)
      <4>1. ws[k] \in Unit
        OBVIOUS
      <4> QED BY <4>1 DEF Unit
    <3> QED BY <3>1
  <2> QED BY <2>1
<1>2. FlattenSeq(<< >>) = << >>
  BY DEF FlattenSeq
<1>3. D(us \o vs) = D(us) \o D(vs)
  <2>1. us \o vs \in Seq(Unit) /\ Len(us \o vs) = Len(us) + Len(vs)
    OBVIOUS
  <2>2. \A k \in 1..Len(us) + Len(vs) : D(us \o vs)[k] = (D(us) \o D(vs))[k]
    BY <1>1, <2>1
  <2>3. PICK s \in Seq(Seq(Nat)) : s = D(us \o vs)
    BY <1>1, <2>1
  <2>4. PICK t : t = D(us) \o D(vs)
    OBVIOUS
  <2>7. t \in Seq(Seq(Nat)) /\ Len(t) = Len(us) + Len(vs)
    <3>1. PICK a \in Seq(Seq(Nat)) : a = D(us) /\ Len(a) = Len(us)
      BY <1>1
    <3>2. PICK b \in Seq(Seq(Nat)) : b = D(vs) /\ Len(b) = Len(vs)
      BY <1>1
    <3>3. t = a \o b
      BY <2>4, <3>1, <3>2
    <3> HIDE DEF D
    <3> QED BY <3>1, <3>2, <3>3
  <2>5. Len(s) = Len(t) /\ \A k \in 1..Len(s) : s[k] = t[k]
    BY <1>1, <2>1, <2>2, <2>3, <2>4, <2>7
  <2> HIDE DEF D
  <2>6. s = t
    <3>1. PICK E : E = Seq(Nat)
      OBVIOUS
    <3>2. s \in Seq(E) /\ t \in Seq(E)
      BY <2>3, <2>7, <3>1
    <3> QED BY <2>5, <3>2, SameSeq
  <2> QED BY <2>3, <2>4, <2>6
<1>4. PICK s \in Seq(Seq(Nat)) : s = D(us)
  BY <1>1
<1>5. PICK t \in Seq(Seq(Nat)) : t = D(vs)
  BY <1>1
<1>6. FlattenSeq(s) \in Seq(Nat)
  <2>1. << >> \in Seq(Seq(Nat)) /\ << >> \in Seq(Nat)
    OBVIOUS
  <2> QED BY <1>2, <2>1, FlattenConcat
<1>7. FlattenSeq(t) \in Seq(Nat) /\ FlattenSeq(s \o t) = FlattenSeq(s) \o FlattenSeq(t)
  BY <1>6, FlattenConcat
<1> HIDE DEF D
<1>8. /\ ContentOf(us) = FlattenSeq(s) /\ ContentOf(vs) = FlattenSeq(t)
      /\ ContentOf(us \o vs) = FlattenSeq(s \o t)
  BY <1>3, <1>4, <1>5 DEF ContentOf, D
<1> QED BY <1>6, <1>7, <1>8

\* A single unit carries its data.
LEMMA ContentOne ==
  ASSUME NEW u \in Unit
  PROVE  ContentOf(<<u>>) = u.data
<1>1. [k \in 1..Len(<<u>>) |-> <<u>>[k].data] = <<u.data>>
  OBVIOUS
<1>2. u.data \in Seq(Nat) /\ << >> \o u.data = u.data
  BY DEF Unit
<1>3. FlattenSeq(<< >>) = << >> /\ << >> \in Seq(Seq(Nat)) /\ << >> \in Seq(Nat)
  BY DEF FlattenSeq
<1>4. FlattenSeq(Append(<< >>, u.data)) = FlattenSeq(<< >>) \o u.data
  BY <1>2, <1>3, FlattenAppend
<1>5. Append(<< >>, u.data) = <<u.data>>
  OBVIOUS
<1> QED BY <1>1, <1>2, <1>3, <1>4, <1>5 DEF ContentOf

\* A unit behind others.
LEMMA ContentAppend ==
  ASSUME NEW us \in Seq(Unit), NEW u \in Unit
  PROVE  ContentOf(Append(us, u)) = ContentOf(us) \o u.data
<1>1. Append(us, u) = us \o <<u>> /\ <<u>> \in Seq(Unit)
  OBVIOUS
<1> QED BY <1>1, ContentConcat, ContentOne

-----------------------------------------------------------------------------
\* A Writer.

\* The units carry what was written and no longer waits for a block.
WrittenInv ==
  /\ units \in Seq(Unit) /\ buffered \in Seq(Nat) /\ written \in Nat
  /\ ContentOf(units) \o buffered = Run(0, written)

\* The units before u left the queue, the others are in it.
SentUpTo(u) ==
  /\ pending = BytesOf(u, Len(units))
  /\ \A k \in 1..Len(sink) : sink[k] <= u * UnitBytes
  /\ ~reported /\ writer # "dropped" => sink = BytesOf(0, u)

QueueInv ==
  /\ writer \in {"open", "finished", "dropped"} /\ reported \in BOOLEAN /\ synced \in BOOLEAN
  /\ sink \in Seq(Nat) /\ Increasing(sink)
  /\ \E u \in 0..Len(units) : SentUpTo(u)
  /\ ~reported => \A k \in 1..Len(sink) : sink[k] = k
  /\ synced => ~reported /\ writer = "open"
  /\ synced \/ writer = "finished" => buffered = << >> /\ pending = << >>

WriterInv == WrittenInv /\ QueueInv

\* A frame of no content yet, its header queued.
LEMMA WriterInitInv == IoInit => WriterInv
<1> SUFFICES ASSUME IoInit PROVE WriterInv
  OBVIOUS
<1>1. Header \in Unit /\ Header.data = << >>
  BY DEF Header, Unit
<1>2. WrittenInv
  <2>1. ContentOf(<<Header>>) = << >>
    BY <1>1, ContentOne
  <2>2. Run(0, 0) = << >> /\ << >> \o << >> = << >>
    BY DEF Run
  <2> QED BY <1>1, <2>1, <2>2 DEF IoInit, WrittenInv
<1>3. SentUpTo(0)
  <2>1. BytesOf(0, 0) = << >>
    BY BytesAreRun DEF Run
  <2> QED BY <2>1 DEF IoInit, SentUpTo
<1>4. Increasing(<< >>)
  BY DEF Increasing
<1>5. \E u \in 0..Len(units) : SentUpTo(u)
  BY <1>3 DEF IoInit
<1>6. sink = << >> /\ writer = "open" /\ reported = FALSE /\ synced = FALSE
  BY DEF IoInit
<1>7. \A k \in 1..Len(sink) : sink[k] = k
  BY <1>6
<1>8. QueueInv
  <2>1. sink \in Seq(Nat) /\ Increasing(sink)
    BY <1>4, <1>6
  <2>2. /\ writer \in {"open", "finished", "dropped"} /\ reported \in BOOLEAN /\ synced \in BOOLEAN
        /\ ~synced /\ writer # "finished"
    BY <1>6
  <2> QED BY <1>5, <1>7, <2>1, <2>2 DEF QueueInv
<1> QED BY <1>2, <1>8 DEF WriterInv

\* push loses no content and makes nothing up.
LEMMA PushKeeps ==
  ASSUME WrittenInv, NEW n \in Nat, push([k \in 1..n |-> written + k]), written' = written + n
  PROVE  WrittenInv' /\ Len(units) <= Len(units')
<1>0. units \in Seq(Unit) /\ buffered \in Seq(Nat) /\ written \in Nat
  BY DEF WrittenInv
<1>1. PICK buf : buf = [k \in 1..n |-> written + k]
  OBVIOUS
<1>2. buf = Run(written, written + n) /\ buf \in Seq(Nat)
  BY <1>0, <1>1 DEF Run
<1>3. PICK held : held = buffered \o buf
  OBVIOUS
<1>14. held \in Seq(Nat)
  BY <1>0, <1>2, <1>3
<1>4. PICK full \in Nat : full = Len(held) \div BlockSize /\ full * BlockSize <= Len(held)
  <2>1. Len(held) \in Nat /\ BlockSize \in Nat \ {0}
    BY <1>14, IoAssumption
  <2>2. PICK q \in Nat, r \in Nat : q = Len(held) \div BlockSize /\ Len(held) = BlockSize * q + r
    <3>1. PICK h \in Nat : h = Len(held)
      BY <2>1
    <3>2. PICK b \in Nat \ {0} : b = BlockSize
      BY <2>1
    <3>3. \E q \in Nat, r \in Nat : q = h \div b /\ h = b * q + r /\ r < b
      BY DivLeaves
    <3> QED BY <3>1, <3>2, <3>3
  <2>3. q * BlockSize <= Len(held)
    BY <2>1, <2>2
  <2> QED BY <2>2, <2>3
<1> DEFINE blocks == [k \in 1..full |->
                        Block("block", SubSeq(held, (k - 1) * BlockSize + 1, k * BlockSize))]
<1>5. units' = units \o blocks /\ buffered' = SubSeq(held, full * BlockSize + 1, Len(held))
  BY <1>1, <1>3, <1>4 DEF push
<1>6. \A k \in 1..full : SubSeq(held, (k - 1) * BlockSize + 1, k * BlockSize) \in Seq(Nat)
  <2>1. \A k \in 1..full : (k - 1) * BlockSize \in Nat /\ k * BlockSize \in Nat
                            /\ k * BlockSize <= full * BlockSize
    BY IoAssumption
  <2>2. full * BlockSize \in Nat
    BY IoAssumption
  <2>3. ASSUME NEW k \in 1..full
        PROVE SubSeq(held, (k - 1) * BlockSize + 1, k * BlockSize) \in Seq(Nat)
    <3>1. PICK a \in Nat : a = (k - 1) * BlockSize
      BY <2>1
    <3>2. PICK b \in Nat : b = k * BlockSize /\ b <= Len(held)
      BY <1>4, <1>14, <2>1, <2>2
    <3>3. SubSeq(held, a + 1, b) \in Seq(Nat)
      BY <1>14, <3>1, <3>2
    <3> QED BY <3>1, <3>2, <3>3
  <2> QED BY <2>3
<1>7. blocks \in Seq(Unit) /\ Len(blocks) = full
  BY <1>6 DEF Block, Unit
<1>8. ContentOf(blocks) = SubSeq(held, 1, full * BlockSize)
  <2>1. [k \in 1..Len(blocks) |-> blocks[k].data]
          = [k \in 1..full |-> SubSeq(held, (k - 1) * BlockSize + 1, k * BlockSize)]
    BY <1>7 DEF Block
  <2>2. BlockSize \in Nat
    BY IoAssumption
  <2> QED BY <1>4, <1>14, <2>1, <2>2, FlattenChunks DEF ContentOf
<1> HIDE DEF blocks
<1>9. PICK c : c = ContentOf(units)
  OBVIOUS
<1>15. c \in Seq(Nat) /\ c \o buffered = Run(0, written)
  BY <1>0, <1>9, ContentConcat DEF WrittenInv
<1>10. ContentOf(units') \o buffered' = c \o held
  <2>1. PICK a \in Nat : a = full * BlockSize
    BY IoAssumption
  <2>2. ContentOf(units') = c \o SubSeq(held, 1, a)
    BY <1>0, <1>5, <1>7, <1>8, <1>9, <2>1, ContentConcat
  <2>3. /\ SubSeq(held, 1, a) \in Seq(Nat) /\ SubSeq(held, a + 1, Len(held)) \in Seq(Nat)
        /\ SubSeq(held, 1, a) \o SubSeq(held, a + 1, Len(held)) = held
    <3>1. a \in 0..Len(held)
      BY <1>4, <1>14, <2>1
    <3>2. PICK h \in Seq(Nat) : h = held
      BY <1>14
    <3>3. /\ SubSeq(h, 1, a) \in Seq(Nat) /\ SubSeq(h, a + 1, Len(h)) \in Seq(Nat)
          /\ SubSeq(h, 1, a) \o SubSeq(h, a + 1, Len(h)) = h
      BY <3>1, <3>2, CutAndJoin
    <3> QED BY <3>2, <3>3
  <2>4. (c \o SubSeq(held, 1, a)) \o SubSeq(held, a + 1, Len(held)) = c \o held
    <3>1. PICK x \in Seq(Nat) : x = SubSeq(held, 1, a)
      BY <2>3
    <3>2. PICK y \in Seq(Nat) : y = SubSeq(held, a + 1, Len(held))
      BY <2>3
    <3>3. x \o y = held
      BY <2>3, <3>1, <3>2
    <3>5. PICK d \in Seq(Nat) : d = c
      BY <1>15
    <3>6. (d \o x) \o y = d \o (x \o y)
      BY ConcatNat
    <3>4. (c \o x) \o y = c \o (x \o y)
      BY <3>5, <3>6
    <3> QED BY <3>1, <3>2, <3>3, <3>4
  <2> QED BY <1>5, <2>1, <2>2, <2>4
<1>11. c \o held = (c \o buffered) \o buf
  <2>1. PICK b \in Seq(Nat) : b = buffered
    BY <1>0
  <2>2. (c \o b) \o buf = c \o (b \o buf)
    BY <1>2, <1>15, <2>1, ConcatNat
  <2> QED BY <1>3, <2>1, <2>2
<1>12. (c \o buffered) \o buf = Run(0, written + n)
  <2>1. PICK w \in Nat : w = written
    BY <1>0
  <2>3. PICK m \in Nat : m = w + n
    OBVIOUS
  <2>4. 0 \in Nat /\ 0 <= w /\ w <= m
    BY <2>3
  <2>2. Run(0, w) \o Run(w, m) = Run(0, m)
    BY <2>4, RunConcat
  <2> QED BY <1>2, <1>15, <2>1, <2>2, <2>3
<1>13. units' \in Seq(Unit) /\ buffered' \in Seq(Nat) /\ Len(units) <= Len(units')
  <2>1. full * BlockSize \in Nat
    BY IoAssumption
  <2>2. buffered' \in Seq(Nat)
    BY <1>4, <1>5, <1>14, <2>1
  <2>3. units' \in Seq(Unit) /\ Len(units) <= Len(units')
    BY <1>0, <1>5, <1>7
  <2> QED BY <2>2, <2>3
<1> QED BY <1>10, <1>11, <1>12, <1>13 DEF WrittenInv

\* Draining what is queued, with the units up to m: in order, nothing twice, and
\* everything when no write failed.
LEMMA CallDelivers ==
  ASSUME WriterInv, writer = "open", NEW m \in Nat, Len(units) <= m,
         NEW d \in drain(pending \o BytesOf(Len(units), m), sink)
  PROVE  /\ d.pending = << >> /\ d.ok \in BOOLEAN
         /\ d.sink \in Seq(Nat) /\ Increasing(d.sink)
         /\ \A k \in 1..Len(d.sink) : d.sink[k] <= m * UnitBytes
         /\ ~reported => \A k \in 1..Len(d.sink) : d.sink[k] = k
         /\ ~reported /\ d.ok => d.sink = BytesOf(0, m)
<1>1. PICK u \in 0..Len(units) : SentUpTo(u)
  BY DEF WriterInv, QueueInv
<1>2. PICK l \in Nat : l = Len(units)
  BY DEF WriterInv, WrittenInv
<1>3. u \in Nat /\ u <= l /\ l <= m /\ u <= m
  BY <1>1, <1>2
<1>4. PICK a \in Nat : a = u * UnitBytes
  BY <1>3, BytesAreRun
<1>5. PICK b \in Nat : b = l * UnitBytes
  BY <1>3, BytesAreRun
<1>6. PICK c \in Nat : c = m * UnitBytes
  BY <1>3, BytesAreRun
<1>7. a <= b /\ b <= c /\ BytesOf(u, l) = Run(a, b) /\ BytesOf(l, m) = Run(b, c)
  BY <1>3, <1>4, <1>5, <1>6, BytesAreRun
<1>8. BytesOf(0, u) = Run(0, a) /\ BytesOf(0, m) = Run(0, c)
  <2>1. 0 \in Nat /\ 0 <= u /\ 0 <= m /\ 0 * UnitBytes = 0
    BY <1>3, IoAssumption
  <2> QED BY <1>3, <1>4, <1>6, <2>1, BytesAreRun
<1>9. pending \o BytesOf(Len(units), m) = Run(a, c)
  <2>1. Run(a, b) \o Run(b, c) = Run(a, c)
    <3>1. a <= b /\ b <= c
      BY <1>7
    <3> QED BY <3>1, RunConcat
  <2>2. pending = Run(a, b)
    BY <1>1, <1>2, <1>7 DEF SentUpTo
  <2>3. BytesOf(Len(units), m) = Run(b, c)
    BY <1>2, <1>7
  <2> QED BY <2>1, <2>2, <2>3
<1>10. /\ sink \in Seq(Nat) /\ Increasing(sink)
       /\ \A k \in 1..Len(sink) : sink[k] <= a
       /\ ~reported => sink = Run(0, a)
  BY <1>1, <1>4, <1>8 DEF SentUpTo, WriterInv, QueueInv
<1>11. a <= c
  BY <1>7
<1>12. d \in drain(Run(a, c), sink)
  BY <1>9
<1>13. PICK into \in Seq(Nat) : into = sink
  BY <1>10
<1>14. /\ \A k \in 1..Len(into) : into[k] <= a
       /\ Increasing(into) /\ d \in drain(Run(a, c), into)
  BY <1>10, <1>12, <1>13
<1>15. /\ d.pending = << >> /\ d.ok \in BOOLEAN
       /\ d.sink \in Seq(Nat) /\ Increasing(d.sink) /\ \A k \in 1..Len(d.sink) : d.sink[k] <= c
       /\ into = Run(0, a) => \A k \in 1..Len(d.sink) : d.sink[k] = k
       /\ into = Run(0, a) /\ d.ok => d.sink = Run(0, c)
  BY <1>11, <1>14, DrainDelivers
<1> QED BY <1>6, <1>8, <1>10, <1>13, <1>15

\* The same when the call made no units.
LEMMA RestDelivers ==
  ASSUME WriterInv, writer = "open", NEW d \in drain(pending, sink)
  PROVE  /\ d.pending = << >>
         /\ d.sink \in Seq(Nat) /\ Increasing(d.sink)
         /\ \A k \in 1..Len(d.sink) : d.sink[k] <= Len(units) * UnitBytes
         /\ ~reported => \A k \in 1..Len(d.sink) : d.sink[k] = k
<1>1. Len(units) \in Nat
  BY DEF WriterInv, WrittenInv
<1>2. PICK u \in 0..Len(units) : SentUpTo(u)
  BY DEF WriterInv, QueueInv
<1>3. BytesOf(Len(units), Len(units)) = << >>
  BY <1>1, BytesAreRun DEF Run
<1>4. pending \in Seq(Nat)
  <2>1. u \in Nat /\ Len(units) \in Nat /\ u <= Len(units)
    BY <1>1, <1>2
  <2>2. Run(u * UnitBytes, Len(units) * UnitBytes) \in Seq(Nat)
    <3>1. PICK a \in Nat : a = u * UnitBytes
      BY <2>1, BytesAreRun
    <3>2. PICK b \in Nat : b = Len(units) * UnitBytes
      BY <2>1, BytesAreRun
    <3>3. a <= b
      BY <2>1, <3>1, <3>2, BytesAreRun
    <3>4. Run(a, b) \in Seq(Nat)
      BY <3>3 DEF Run
    <3> QED BY <3>1, <3>2, <3>4
  <2> QED BY <1>2, <2>1, <2>2, BytesAreRun DEF SentUpTo
<1>5. pending \o << >> = pending
  BY <1>4
<1>6. PICK m \in Nat : m = Len(units)
  BY <1>1
<1>7. Len(units) <= m /\ d \in drain(pending \o BytesOf(Len(units), m), sink)
  BY <1>3, <1>5, <1>6
<1> QED BY <1>6, <1>7, CallDelivers

\* What a Writer knows once a drain is behind it and the units end at m.
LEMMA QueueDrained ==
  ASSUME WriterInv, writer = "open", WrittenInv', writer' \in {"open", "finished", "dropped"},
         reported' \in BOOLEAN, synced' \in BOOLEAN, pending' = << >>,
         sink' \in Seq(Nat), Increasing(sink'),
         \A k \in 1..Len(sink') : sink'[k] <= Len(units') * UnitBytes,
         ~reported' => \A k \in 1..Len(sink') : sink'[k] = k,
         ~reported' /\ writer' # "dropped" => sink' = BytesOf(0, Len(units')),
         synced' => ~reported' /\ writer' = "open",
         synced' \/ writer' = "finished" => buffered' = << >>
  PROVE  WriterInv'
<1>1. Len(units') \in Nat
  BY DEF WrittenInv
<1>2. BytesOf(Len(units'), Len(units')) = << >>
  BY <1>1, BytesAreRun DEF Run
<1>3. SentUpTo(Len(units))'
  BY <1>2 DEF SentUpTo
<1>4. (\E u \in 0..Len(units) : SentUpTo(u))'
  BY <1>1, <1>3
<1> QED BY <1>4 DEF WriterInv, QueueInv

\* Making one unit of what waits leaves nothing waiting.
LEMMA UnitMade ==
  ASSUME WrittenInv, NEW kind \in {"block", "last"},
         units' = Append(units, Block(kind, buffered)), buffered' = << >>, written' = written
  PROVE  WrittenInv' /\ Len(units') = Len(units) + 1
<1>1. PICK us \in Seq(Unit) : us = units
  BY DEF WrittenInv
<1>2. PICK u \in Unit : u = Block(kind, buffered) /\ u.data = buffered
  BY DEF Block, Unit, WrittenInv
<1>3. ContentOf(Append(us, u)) = ContentOf(us) \o buffered
  BY <1>2, ContentAppend
<1>4. ContentOf(units') = Run(0, written)
  BY <1>1, <1>2, <1>3 DEF WrittenInv
<1>5. Run(0, written) \o << >> = Run(0, written)
  <2>1. Run(0, written) \in Seq(Nat)
    BY DEF Run, WrittenInv
  <2> QED BY <2>1
<1>6. units' \in Seq(Unit) /\ Len(units') = Len(units) + 1
  BY <1>1, <1>2
<1> QED BY <1>4, <1>5, <1>6 DEF WrittenInv

\* A new frame's header carries nothing.
LEMMA HeaderMade ==
  ASSUME WrittenInv, units' = Append(units, Header), UNCHANGED <<buffered, written>>
  PROVE  WrittenInv' /\ Len(units') = Len(units) + 1
<1>1. PICK us \in Seq(Unit) : us = units
  BY DEF WrittenInv
<1>2. PICK u \in Unit : u = Header /\ u.data = << >>
  <2>1. Header \in Unit /\ Header.data = << >>
    BY DEF Header, Unit
  <2> QED BY <2>1
<1>3. ContentOf(Append(us, u)) = ContentOf(us) \o << >> /\ ContentOf(us) \in Seq(Nat)
  BY <1>2, ContentAppend, ContentConcat
<1>4. ContentOf(units') = ContentOf(units)
  BY <1>1, <1>2, <1>3
<1>6. units' \in Seq(Unit) /\ Len(units') = Len(units) + 1
  BY <1>1, <1>2
<1> QED BY <1>4, <1>6 DEF WrittenInv

\* Every step of a Writer keeps its invariant.
LEMMA WriterStep == WriterInv /\ [IoNext]_ioVars => WriterInv'
<1> SUFFICES ASSUME WriterInv, [IoNext]_ioVars PROVE WriterInv'
  OBVIOUS
<1>0. /\ WrittenInv /\ units \in Seq(Unit) /\ Len(units) \in Nat
      /\ reported \in BOOLEAN /\ synced \in BOOLEAN
  BY DEF WriterInv, QueueInv, WrittenInv
<1>1. CASE write
  <2>1. PICK n \in WriteSizes : push([k \in 1..n |-> written + k]) /\ written' = written + n
    BY <1>1 DEF write
  <2>2. n \in Nat
    BY IoAssumption
  <2>3. WrittenInv' /\ Len(units) <= Len(units')
    BY <1>0, <2>1, <2>2, PushKeeps
  <2>4. PICK d \in drain(Queue, sink) :
          pending' = d.pending /\ sink' = d.sink /\ reported' = (reported \/ ~d.ok)
    BY <1>1 DEF write, Drained
  <2>5. PICK m \in Nat : m = Len(units')
    BY <2>3 DEF WrittenInv
  <2>6. writer = "open" /\ writer' = "open" /\ synced' = FALSE
    BY <1>1 DEF write
  <2>7. Len(units) <= m /\ d \in drain(pending \o BytesOf(Len(units), m), sink)
    BY <2>3, <2>4, <2>5 DEF Queue
  <2>8. /\ d.pending = << >> /\ d.ok \in BOOLEAN
        /\ d.sink \in Seq(Nat) /\ Increasing(d.sink)
        /\ \A k \in 1..Len(d.sink) : d.sink[k] <= m * UnitBytes
        /\ ~reported => \A k \in 1..Len(d.sink) : d.sink[k] = k
        /\ ~reported /\ d.ok => d.sink = BytesOf(0, m)
    BY <2>6, <2>7, CallDelivers
  <2>9. reported' \in BOOLEAN /\ (~reported' => ~reported /\ d.ok)
    BY <1>0, <2>4, <2>8
  <2> QED BY <2>3, <2>4, <2>5, <2>6, <2>8, <2>9, QueueDrained
<1>2. CASE flush
  <2>3. WrittenInv' /\ Len(units) <= Len(units') /\ buffered' = << >>
    <3>1. CASE buffered = << >>
      <4>1. units' = units /\ buffered' = buffered /\ written' = written
        BY <1>2, <3>1 DEF flush, EncoderFlush
      <4>2. WrittenInv'
        BY <1>0, <4>1 DEF WrittenInv
      <4> QED BY <1>0, <3>1, <4>1, <4>2
    <3>2. CASE buffered # << >>
      <4>1. units' = Append(units, Block("block", buffered)) /\ buffered' = << >> /\ written' = written
        BY <1>2, <3>2 DEF flush, EncoderFlush
      <4> QED BY <1>0, <4>1, UnitMade
    <3> QED BY <3>1, <3>2
  <2>4. PICK d \in drain(Queue, sink) : \E inner \in BOOLEAN :
          /\ pending' = d.pending /\ sink' = d.sink /\ (inner => d.ok)
          /\ reported' = (reported \/ ~inner) /\ synced' = (inner /\ ~reported)
    BY <1>2 DEF flush, Drained
  <2>5. PICK m \in Nat : m = Len(units')
    BY <2>3 DEF WrittenInv
  <2>6. writer = "open" /\ writer' = "open"
    BY <1>2 DEF flush
  <2>7. Len(units) <= m /\ d \in drain(pending \o BytesOf(Len(units), m), sink)
    BY <2>3, <2>4, <2>5 DEF Queue
  <2>8. /\ d.pending = << >> /\ d.ok \in BOOLEAN
        /\ d.sink \in Seq(Nat) /\ Increasing(d.sink)
        /\ \A k \in 1..Len(d.sink) : d.sink[k] <= m * UnitBytes
        /\ ~reported => \A k \in 1..Len(d.sink) : d.sink[k] = k
        /\ ~reported /\ d.ok => d.sink = BytesOf(0, m)
    BY <2>6, <2>7, CallDelivers
  <2>9. /\ pending' = d.pending /\ sink' = d.sink
        /\ reported' \in BOOLEAN /\ synced' \in BOOLEAN
        /\ ~reported' => ~reported /\ d.ok
        /\ synced' => ~reported'
    BY <1>0, <2>4
  <2> QED BY <2>3, <2>5, <2>6, <2>8, <2>9, QueueDrained
<1>3. CASE finish
  <2>1. writer = "open" /\ synced' = FALSE /\ written' = written
    BY <1>3 DEF finish
  <2>2. CASE pledged \in {Unpledged, written - began}
    <3>1. units' = Append(units, Block("last", buffered)) /\ buffered' = << >>
      BY <1>3, <2>2 DEF finish
    <3>2. WrittenInv' /\ Len(units') = Len(units) + 1
      BY <1>0, <2>1, <3>1, UnitMade
    <3>3. PICK d \in drain(Queue, sink) :
            IF d.ok
            THEN /\ pending' = d.pending /\ sink' = d.sink
                 /\ \E inner \in BOOLEAN : /\ writer' = IF inner THEN "finished" ELSE "dropped"
                                           /\ reported' = (reported \/ ~inner)
            ELSE /\ \E e \in drain(d.pending, d.sink) : pending' = e.pending /\ sink' = e.sink
                 /\ writer' = "dropped" /\ reported' = TRUE
      BY <1>3, <2>2 DEF finish, Drained
    <3>4. PICK m \in Nat : m = Len(units')
      BY <1>0, <3>2
    <3>5. Len(units) <= m /\ d \in drain(pending \o BytesOf(Len(units), m), sink)
      BY <1>0, <3>2, <3>3, <3>4 DEF Queue
    <3>6. /\ d.pending = << >> /\ d.ok \in BOOLEAN
          /\ d.sink \in Seq(Nat) /\ Increasing(d.sink)
          /\ \A k \in 1..Len(d.sink) : d.sink[k] <= m * UnitBytes
          /\ ~reported => \A k \in 1..Len(d.sink) : d.sink[k] = k
          /\ ~reported /\ d.ok => d.sink = BytesOf(0, m)
      BY <2>1, <3>5, CallDelivers
    <3>7. \A e \in drain(d.pending, d.sink) : e.pending = << >> /\ e.sink = d.sink
      <4>1. PICK t \in Seq(Nat) : t = d.sink
        BY <3>6
      <4>2. SubSeq(<< >>, 1, 0) = << >> /\ t \o << >> = t
        OBVIOUS
      <4>3. ASSUME NEW e \in drain(<< >>, t) PROVE e.pending = << >> /\ e.sink = t
        <5>1. PICK n \in 0..Len(<< >>) : e.pending = << >> /\ e.sink = t \o SubSeq(<< >>, 1, n)
          BY <4>3 DEF drain, KeepAfterDrain
        <5>2. n = 0
          OBVIOUS
        <5> QED BY <4>2, <5>1, <5>2
      <4> QED BY <3>6, <4>1, <4>3
    <3>8. /\ pending' = << >> /\ sink' = d.sink /\ reported' \in BOOLEAN
          /\ writer' \in {"open", "finished", "dropped"}
          /\ ~reported' => ~reported /\ d.ok
      BY <1>0, <3>3, <3>6, <3>7
    <3> QED BY <2>1, <3>1, <3>2, <3>4, <3>6, <3>8, QueueDrained
  <2>3. CASE pledged \notin {Unpledged, written - began}
    <3>1. PICK e \in drain(pending, sink) : pending' = e.pending /\ sink' = e.sink
      BY <1>3, <2>3 DEF finish, Drained
    <3>2. /\ writer' = "dropped" /\ reported' = TRUE
          /\ units' = units /\ buffered' = buffered
      BY <1>3, <2>3 DEF finish
    <3>3. WrittenInv'
      BY <1>0, <2>1, <3>2 DEF WrittenInv
    <3>4. /\ e.pending = << >>
          /\ e.sink \in Seq(Nat) /\ Increasing(e.sink)
          /\ \A k \in 1..Len(e.sink) : e.sink[k] <= Len(units) * UnitBytes
      BY <2>1, RestDelivers
    <3> QED BY <2>1, <3>1, <3>2, <3>3, <3>4, QueueDrained
  <2> QED BY <2>2, <2>3
<1>4. CASE drop
  <2>1. PICK e \in drain(pending, sink) : pending' = e.pending /\ sink' = e.sink
    BY <1>4 DEF drop, Drained
  <2>2. /\ writer = "open" /\ writer' = "dropped" /\ synced' = FALSE /\ reported' = reported
        /\ units' = units /\ buffered' = buffered /\ written' = written
    BY <1>4 DEF drop, encoderVars
  <2>3. WrittenInv'
    BY <1>0, <2>2 DEF WrittenInv
  <2>4. /\ e.pending = << >>
        /\ e.sink \in Seq(Nat) /\ Increasing(e.sink)
        /\ \A k \in 1..Len(e.sink) : e.sink[k] <= Len(units) * UnitBytes
        /\ ~reported => \A k \in 1..Len(e.sink) : e.sink[k] = k
    BY <2>2, RestDelivers
  <2> QED BY <1>0, <2>1, <2>2, <2>3, <2>4, QueueDrained
<1>5. CASE with_options
  <2>1. /\ writer = "finished" /\ writer' = "open" /\ units' = Append(units, Header)
        /\ pending' = BytesOf(Len(units), Len(units) + 1)
        /\ UNCHANGED <<buffered, written, sink, reported, synced>>
    BY <1>5 DEF with_options
  <2>2. WrittenInv' /\ Len(units') = Len(units) + 1
    BY <1>0, <2>1, HeaderMade
  <2>3. PICK u \in 0..Len(units) : SentUpTo(u)
    BY DEF WriterInv, QueueInv
  <2>4. u = Len(units)
    <3>1. BytesOf(u, Len(units)) = << >>
      BY <2>1, <2>3 DEF SentUpTo, WriterInv, QueueInv
    <3>2. PICK w \in Nat : w = Len(units) - u
      BY <1>0, <2>3
    <3>3. UnitBytes \in Nat \ {0} /\ w * UnitBytes \in Nat
      BY IoAssumption, <3>2
    <3>4. Len(BytesOf(u, Len(units))) = w * UnitBytes
      BY <3>2, <3>3 DEF BytesOf
    <3>5. w * UnitBytes = 0
      BY <3>1, <3>4
    <3>6. w = 0
      BY <3>3, <3>5
    <3> QED BY <1>0, <3>2, <3>6
  <2>5. SentUpTo(Len(units))
    BY <2>3, <2>4
  <2>6. /\ pending' = BytesOf(Len(units), Len(units'))
        /\ \A k \in 1..Len(sink') : sink'[k] <= Len(units) * UnitBytes
        /\ ~reported' => sink' = BytesOf(0, Len(units))
    BY <2>1, <2>2, <2>5 DEF SentUpTo
  <2>7. (\E v \in 0..Len(units) : SentUpTo(v))'
    <3>1. Len(units) \in 0..Len(units')
      BY <1>0, <2>2
    <3> QED BY <2>6, <3>1 DEF SentUpTo
  <2>8. ~synced'
    BY <2>1 DEF WriterInv, QueueInv
  <2> QED BY <2>1, <2>2, <2>7, <2>8 DEF WriterInv, QueueInv
<1>6. CASE UNCHANGED writerVars
  BY <1>6 DEF WriterInv, QueueInv, WrittenInv, SentUpTo, writerVars
<1>7. CASE open_reader \/ read \/ read_to_end \/ ReaderTurn \/ refill_fails
  BY <1>6, <1>7 DEF open_reader, read, read_to_end, ReaderTurn, refill_fails, deliver,
     end_of_stream, finish_decoder, refill, refill_nothing
<1> QED BY <1>1, <1>2, <1>3, <1>4, <1>5, <1>6, <1>7 DEF IoNext, ioVars

\* Flattening every unit made is flattening the first Len(units).
LEMMA AllContent ==
  ASSUME WrittenInv
  PROVE  Content(0, Len(units)) = ContentOf(units)
<1>1. Len(units) \in Nat
  BY DEF WrittenInv
<1>2. [k \in 1..Len(units) - 0 |-> units[0 + k].data] = [k \in 1..Len(units) |-> units[k].data]
  BY <1>1
<1> QED BY <1>2 DEF Content, ContentOf

\* What the invariant says of a sink that everything reached.
LEMMA WriterInvDelivers == WriterInv => WriterDelivers
<1> SUFFICES ASSUME WriterInv PROVE WriterDelivers
  OBVIOUS
<1>1. /\ Increasing(sink)
      /\ ~reported => \A k \in 1..Len(sink) : sink[k] = k
  BY DEF WriterInv, QueueInv
<1>2. ASSUME synced \/ (writer = "finished" /\ ~reported)
      PROVE  Content(0, Len(sink) \div UnitBytes) = [k \in 1..written |-> k]
  <2>1. buffered = << >> /\ pending = << >> /\ ~reported /\ writer # "dropped"
    BY <1>2 DEF WriterInv, QueueInv
  <2>2. PICK u \in 0..Len(units) : SentUpTo(u)
    BY DEF WriterInv, QueueInv
  <2>3. PICK l \in Nat : l = Len(units)
    BY DEF WriterInv, WrittenInv
  <2>4. u = l
    <3>1. BytesOf(u, l) = << >>
      BY <2>1, <2>2, <2>3 DEF SentUpTo
    <3>0. u \in Nat /\ u <= l
      BY <2>2, <2>3
    <3>2. PICK w \in Nat : w = l - u
      BY <3>0
    <3>3. UnitBytes \in Nat \ {0} /\ w * UnitBytes \in Nat
      BY IoAssumption, <3>2
    <3>4. Len(BytesOf(u, l)) = w * UnitBytes
      BY <3>2, <3>3 DEF BytesOf
    <3>5. w * UnitBytes = 0
      BY <3>1, <3>4
    <3>6. w = 0
      BY <3>3, <3>5
    <3> QED BY <3>0, <3>2, <3>6
  <2>5. sink = BytesOf(0, l)
    BY <2>1, <2>2, <2>4 DEF SentUpTo
  <2>6. Len(sink) = UnitBytes * l /\ UnitBytes * l \in Nat
    <3>1. UnitBytes \in Nat \ {0} /\ (l - 0) * UnitBytes = UnitBytes * l /\ UnitBytes * l \in Nat
      BY IoAssumption
    <3> QED BY <2>5, <3>1 DEF BytesOf
  <2>7. Len(sink) \div UnitBytes = l
    <3>1. UnitBytes \in Nat \ {0} /\ 0 \in Nat /\ 0 < UnitBytes /\ Len(sink) \in Nat
      BY <2>6, IoAssumption
    <3>2. Len(sink) = UnitBytes * l + 0
      BY <2>6, <3>1
    <3> QED BY <3>1, <3>2, DivMod
  <2>8. Content(0, l) = ContentOf(units)
    BY <2>3, AllContent DEF WriterInv
  <2>9. ContentOf(units) = ContentOf(units) \o << >>
    <3>1. PICK us \in Seq(Unit) : us = units
      BY DEF WriterInv, WrittenInv
    <3>2. ContentOf(us) \in Seq(Nat)
      BY ContentConcat
    <3> QED BY <3>1, <3>2
  <2>10. ContentOf(units) \o << >> = Run(0, written) /\ written \in Nat
    BY <2>1 DEF WriterInv, WrittenInv
  <2>11. Run(0, written) = [k \in 1..written |-> k]
    BY <2>10 DEF Run
  <2> QED BY <2>7, <2>8, <2>9, <2>10, <2>11
<1> QED BY <1>1, <1>2 DEF WriterDelivers

\* Whatever is written in whatever pieces, and wherever the inner writer fails: it gets
\* every compressed byte at most once and in order, without a gap until an error was
\* reported, and after an Ok of flush or finish all that was written decodes from it.
THEOREM WriterIsHonest == IoSpec => []WriterDelivers
<1>1. IoInit => WriterInv
  BY WriterInitInv
<1>2. WriterInv /\ [IoNext]_ioVars => WriterInv'
  BY WriterStep
<1>3. WriterInv => WriterDelivers
  BY WriterInvDelivers
<1> QED BY <1>1, <1>2, <1>3, PTL DEF IoSpec

-----------------------------------------------------------------------------
\* A Reader.

\* What the decoder holds, over a source whose k-th byte is k.
DecoderInv ==
  /\ decoder = [input |-> decoder.input, done |-> decoder.done, out |-> decoder.out,
                finished_input |-> decoder.finished_input]
  /\ decoder.done \in 0..Len(units)
  /\ decoder.done * UnitBytes <= got
  /\ decoder.input = Run(decoder.done * UnitBytes, got)
  /\ Stops(decoder.done) \/ got < decoder.done * UnitBytes + UnitBytes
  /\ decoder.out \in Seq(Nat) /\ delivered \in Seq(Nat)
  /\ delivered \o decoder.out = Content(0, decoder.done)

ReaderInv ==
  /\ reader \in {"closed", "open"} /\ call \in {"none", "read", "read_to_end"}
  /\ single_frame \in BOOLEAN /\ input_done \in BOOLEAN /\ finished \in BOOLEAN
  /\ file \in Nat /\ got \in Nat /\ dst \in Nat /\ chunk \in Nat
  /\ got <= file
  /\ reader = "closed" => /\ file = 0 /\ call = "none" /\ verdict = "none"
                          /\ decoder.done = 0 /\ ~input_done /\ ~finished
  /\ reader = "open" => /\ writer # "open" /\ file <= Len(sink)
                        /\ \A k \in 1..Len(sink) : sink[k] = k
  /\ DecoderInv
  /\ call # "none" => verdict = "none"
  /\ input_done => got = file
  /\ finished => input_done /\ Ends(decoder.done) /\ got = decoder.done * UnitBytes
  /\ EndIsHonest

IoInv == WriterInv /\ ReaderInv

\* A part of a source whose k-th byte is k.
LEMMA PartIsRun ==
  ASSUME NEW s \in Seq(Nat), \A k \in 1..Len(s) : s[k] = k,
         NEW a \in Nat, NEW b \in Nat, a <= b, b <= Len(s)
  PROVE  SubSeq(s, a + 1, b) = Run(a, b)
<1>1. PICK t : t = SubSeq(s, a + 1, b)
  OBVIOUS
<1>2. t \in Seq(Nat) /\ Len(t) = b - a /\ \A k \in 1..b - a : t[k] = s[a + k]
  BY <1>1
<1>3. ASSUME NEW k \in 1..b - a PROVE t[k] = a + k
  <2>1. a + k \in 1..Len(s)
    OBVIOUS
  <2> QED BY <1>2, <2>1
<1> QED BY <1>1, <1>2, <1>3 DEF Run

\* The rest of a run.
LEMMA RestOfRun ==
  ASSUME NEW a \in Nat, NEW b \in Nat, NEW c \in Nat, a <= b, b <= c
  PROVE  SubSeq(Run(a, c), b - a + 1, Len(Run(a, c))) = Run(b, c)
<1>1. PICK r : r = Run(a, c)
  OBVIOUS
<1>2. r \in Seq(Nat) /\ Len(r) = c - a /\ \A k \in 1..c - a : r[k] = a + k
  BY <1>1 DEF Run
<1>3. PICK t : t = SubSeq(r, b - a + 1, c - a)
  OBVIOUS
<1>4. t \in Seq(Nat) /\ Len(t) = c - b
  BY <1>2, <1>3
<1>5. \A k \in 1..c - b : t[k] = r[b - a + k]
  BY <1>2, <1>3
<1>6. \A k \in 1..c - b : t[k] = b + k
  BY <1>2, <1>5
<1> QED BY <1>1, <1>2, <1>3, <1>4, <1>6 DEF Run

\* The content of the first n units and of the next is that of the first m.
LEMMA ContentSplits ==
  ASSUME WrittenInv, NEW n \in Nat, NEW m \in Nat, n <= m, m <= Len(units)
  PROVE  /\ Content(0, n) \in Seq(Nat) /\ Content(n, m) \in Seq(Nat)
         /\ Content(0, n) \o Content(n, m) = Content(0, m)
<1>1. PICK us \in Seq(Unit) : us = units
  BY DEF WrittenInv
<1>2. ASSUME NEW a \in Nat, NEW b \in Nat, a <= b, b <= Len(us)
      PROVE  /\ SubSeq(us, a + 1, b) \in Seq(Unit)
             /\ Content(a, b) = ContentOf(SubSeq(us, a + 1, b))
  <2>1. PICK t : t = SubSeq(us, a + 1, b)
    OBVIOUS
  <2>2. t \in Seq(Unit) /\ Len(t) = b - a /\ \A k \in 1..b - a : t[k] = us[a + k]
    BY <1>2, <2>1
  <2>3. [k \in 1..Len(t) |-> t[k].data] = [k \in 1..b - a |-> units[a + k].data]
    BY <1>1, <2>2
  <2> QED BY <2>1, <2>2, <2>3 DEF Content, ContentOf
<1>3. PICK w \in Seq(Unit) : w = SubSeq(us, 1, m) /\ Len(w) = m
  <2>1. m <= Len(us)
    BY <1>1
  <2>2. SubSeq(us, 1, m) \in Seq(Unit) /\ Len(SubSeq(us, 1, m)) = m
    BY <2>1
  <2> QED BY <2>2
<1>4. n \in 0..Len(w)
  BY <1>3
<1>5. /\ SubSeq(w, 1, n) \in Seq(Unit) /\ SubSeq(w, n + 1, Len(w)) \in Seq(Unit)
      /\ SubSeq(w, 1, n) \o SubSeq(w, n + 1, Len(w)) = w
  BY <1>4, CutAndJoin
<1>6. SubSeq(w, 1, n) = SubSeq(us, 1, n) /\ SubSeq(w, n + 1, Len(w)) = SubSeq(us, n + 1, m)
  BY <1>1, <1>3
<1>7. PICK x \in Seq(Unit) : x = SubSeq(us, 1, n)
  BY <1>5, <1>6
<1>8. PICK y \in Seq(Unit) : y = SubSeq(us, n + 1, m)
  BY <1>5, <1>6
<1>9. x \o y = w
  BY <1>5, <1>6, <1>7, <1>8
<1>10. ContentOf(x) \in Seq(Nat) /\ ContentOf(y) \in Seq(Nat) /\ ContentOf(w) = ContentOf(x) \o ContentOf(y)
  BY <1>9, ContentConcat
<1>11. 0 \in Nat /\ 0 <= n /\ 0 <= m /\ n <= Len(us) /\ m <= Len(us)
  BY <1>1
<1>12. Content(0, n) = ContentOf(x) /\ Content(n, m) = ContentOf(y) /\ Content(0, m) = ContentOf(w)
  BY <1>2, <1>3, <1>7, <1>8, <1>11
<1> QED BY <1>10, <1>12

\* A nonempty set of numbers with a bound has a greatest member.
LEMMA Greatest ==
  ASSUME NEW S \in SUBSET Nat, S # {}, NEW b \in Nat, \A k \in S : k <= b
  PROVE  \E x \in S : \A k \in S : k <= x
<1> DEFINE Above == {m \in Nat : \A k \in S : k <= m}
<1>1. PICK m \in Above : \A j \in Above : m <= j
  <2>1. b \in Above /\ Above \subseteq Nat
    OBVIOUS
  <2> HIDE DEF Above
  <2> QED BY <2>1, Least
<1>2. m \in Nat /\ \A k \in S : k <= m
  OBVIOUS
<1>3. ASSUME m \notin S PROVE FALSE
  <2>1. \A k \in S : k <= m - 1
    BY <1>2, <1>3
  <2>2. m - 1 \in Nat
    <3>1. PICK k \in S : TRUE
      OBVIOUS
    <3>2. k \in Nat /\ k <= m - 1
      BY <2>1, <3>1
    <3> QED BY <1>2, <3>2
  <2>3. m - 1 \in Above
    BY <2>1, <2>2
  <2> QED BY <1>1, <1>2, <2>3
<1> QED BY <1>2, <1>3

\* process decodes every whole unit it holds, and stops early only behind a frame that
\* was to be the only one.
LEMMA ProcessReads ==
  ASSUME WrittenInv, NEW c \in Nat, c <= Len(units) * UnitBytes,
         NEW n \in 0..Len(units), n * UnitBytes <= c, NEW out, NEW fi,
         NEW d, d = [input |-> Run(n * UnitBytes, c), done |-> n, out |-> out, finished_input |-> fi]
  PROVE  \E last \in n..Len(units) :
           /\ process(d) = [input |-> Run(last * UnitBytes, c), done |-> last,
                            out |-> out \o Content(n, last), finished_input |-> fi]
           /\ last * UnitBytes <= c
           /\ Stops(last) \/ c < last * UnitBytes + UnitBytes
<1>0. UnitBytes \in Nat \ {0} /\ Len(units) \in Nat /\ n \in Nat
  BY IoAssumption DEF WrittenInv
<1>1. PICK a \in Nat : a = n * UnitBytes
  BY <1>0
<1>2. c - a \in Nat /\ Len(Run(a, c)) = c - a
  BY <1>1 DEF Run
<1>3. PICK w \in Nat, r \in Nat : w = (c - a) \div UnitBytes /\ c - a = UnitBytes * w + r /\ r < UnitBytes
  BY <1>0, <1>2, DivLeaves
<1> DEFINE reach == {x \in n..n + w : \A k \in n..x - 1 : ~Stops(k)}
<1>4. n \in reach /\ \A x \in reach : x \in Nat /\ x <= n + w
  BY <1>0
<1>5. \E x \in reach : \A k \in reach : k <= x
  <2>1. reach # {} /\ reach \in SUBSET Nat /\ n + w \in Nat /\ \A k \in reach : k <= n + w
    <3> HIDE DEF reach
    <3> QED BY <1>0, <1>4
  <2> HIDE DEF reach
  <2> QED BY <2>1, Greatest
<1>6. PICK last : last = CHOOSE x \in reach : \A k \in reach : k <= x
  OBVIOUS
<1>7. last \in reach /\ \A k \in reach : k <= last
  <2> HIDE DEF reach
  <2> QED BY <1>5, <1>6
<1>8. process(d) = [d EXCEPT !.done = last, !.out = @ \o Content(d.done, last),
                             !.input = SubSeq(@, (last - d.done) * UnitBytes + 1, Len(@))]
  <2>1. d.done = n /\ Len(d.input) \div UnitBytes = w
    BY <1>1, <1>2, <1>3
  <2>2. reach = {x \in d.done..d.done + Len(d.input) \div UnitBytes : \A k \in d.done..x - 1 : ~Stops(k)}
    BY <2>1
  <2> HIDE DEF reach
  <2> QED BY <1>6, <2>2 DEF process
<1>9. last \in Nat /\ n <= last /\ last <= n + w
  BY <1>0, <1>7
<1>10. PICK q \in Nat : last = n + q /\ q <= w
  BY <1>0, <1>9
<1>11. /\ q * UnitBytes \in Nat /\ q * UnitBytes <= UnitBytes * w
       /\ last * UnitBytes = a + q * UnitBytes /\ (last - n) * UnitBytes = q * UnitBytes
  BY <1>0, <1>1, <1>10
<1>12. last * UnitBytes \in Nat /\ last * UnitBytes <= c /\ a <= last * UnitBytes
  <2>1. UnitBytes * w \in Nat
    BY <1>0
  <2> QED BY <1>2, <1>3, <1>11, <2>1
<1>13. last <= Len(units)
  <2>1. last * UnitBytes <= Len(units) * UnitBytes
    <3>1. Len(units) * UnitBytes \in Nat
      BY <1>0
    <3> QED BY <1>12, <3>1
  <2>2. ASSUME last > Len(units) PROVE FALSE
    <3>1. last * UnitBytes >= Len(units) * UnitBytes + UnitBytes
      <4>1. PICK e \in Nat : last = Len(units) + 1 + e
        <5>1. last - Len(units) - 1 \in Nat
          BY <1>0, <1>9, <2>2
        <5>2. last = Len(units) + 1 + (last - Len(units) - 1)
          BY <1>0, <1>9
        <5> QED BY <5>1, <5>2
      <4>2. last * UnitBytes = Len(units) * UnitBytes + UnitBytes + e * UnitBytes /\ e * UnitBytes \in Nat
        BY <1>0, <4>1
      <4>3. Len(units) * UnitBytes \in Nat
        BY <1>0
      <4> QED BY <1>0, <4>2, <4>3
    <3>2. Len(units) * UnitBytes \in Nat
      BY <1>0
    <3> QED BY <1>0, <1>12, <2>1, <3>1, <3>2
  <2> QED BY <1>0, <1>9, <2>2
<1>14. Stops(last) \/ c < last * UnitBytes + UnitBytes
  <2>1. CASE last = n + w
    <3>1. last * UnitBytes = a + UnitBytes * w /\ UnitBytes * w \in Nat
      BY <1>0, <1>1, <2>1
    <3> QED BY <1>0, <1>2, <1>3, <3>1
  <2>2. CASE last # n + w
    <3>1. last + 1 \in n..n + w /\ last + 1 \notin reach
      BY <1>0, <1>7, <1>9, <2>2
    <3>2. PICK k \in n..last : Stops(k)
      BY <1>9, <3>1
    <3>3. k = last
      BY <1>7, <1>9, <3>2
    <3> QED BY <3>2, <3>3
  <2> QED BY <2>1, <2>2
<1>15. SubSeq(Run(a, c), (last - n) * UnitBytes + 1, Len(Run(a, c))) = Run(last * UnitBytes, c)
  <2>1. PICK b \in Nat : b = last * UnitBytes
    BY <1>12
  <2>2. a <= b /\ b <= c /\ b - a = (last - n) * UnitBytes
    BY <1>11, <1>12, <2>1
  <2>3. SubSeq(Run(a, c), b - a + 1, Len(Run(a, c))) = Run(b, c)
    <3>1. a <= b /\ b <= c
      BY <2>2
    <3>2. \A x, y, z \in Nat : x <= y /\ y <= z
                                => SubSeq(Run(x, z), y - x + 1, Len(Run(x, z))) = Run(y, z)
      BY RestOfRun
    <3> HIDE DEF reach
    <3> QED BY <3>1, <3>2
  <2> QED BY <2>1, <2>2, <2>3
<1>16. process(d) = [input |-> Run(last * UnitBytes, c), done |-> last,
                     out |-> out \o Content(n, last), finished_input |-> fi]
  <2> HIDE DEF reach
  <2>1. d.done = n /\ d.out = out /\ d.input = Run(a, c)
    BY <1>1
  <2> QED BY <1>1, <1>8, <1>15, <2>1
<1>17. last \in n..Len(units)
  BY <1>0, <1>9, <1>13
<1> HIDE DEF reach
<1> QED BY <1>12, <1>14, <1>16, <1>17

\* Nothing has been read yet, and the source may still become anything.
LEMMA ClosedReader ==
  ASSUME ReaderInv, reader = "closed"
  PROVE  got = 0 /\ decoder.input = << >> /\ delivered \o decoder.out = << >> /\ finished = FALSE
<1>1. got = 0 /\ decoder.done = 0 /\ finished = FALSE
  BY DEF ReaderInv
<1>2. 0 * UnitBytes = 0
  BY IoAssumption
<1>3. Run(0, 0) = << >>
  BY DEF Run
<1>4. Content(0, 0) = << >>
  BY DEF Content, FlattenSeq
<1> QED BY <1>1, <1>2, <1>3, <1>4 DEF ReaderInv, DecoderInv

\* As long as there is no reader, whatever the writers do.
LEMMA WritersLeaveReader ==
  ASSUME ReaderInv, reader = "closed", Len(units') \in Nat, UNCHANGED readerVars
  PROVE  ReaderInv'
<1>1. /\ got = 0 /\ decoder.input = << >> /\ delivered \o decoder.out = << >> /\ ~finished
      /\ decoder.done = 0 /\ verdict = "none" /\ call = "none" /\ file = 0 /\ ~input_done
  BY ClosedReader DEF ReaderInv
<1>2. /\ UNCHANGED <<reader, file, single_frame, decoder, got, chunk, input_done, finished>>
      /\ UNCHANGED <<call, dst, delivered, verdict>>
  BY DEF readerVars, callVars
<1>3. 0 * UnitBytes = 0 /\ 0 < UnitBytes
  BY IoAssumption
<1>4. Run(0, 0) = << >> /\ Content(0, 0)' = << >>
  BY DEF Run, Content, FlattenSeq
<1>5. DecoderInv'
  <2>1. decoder = [input |-> decoder.input, done |-> decoder.done, out |-> decoder.out,
                   finished_input |-> decoder.finished_input]
        /\ decoder.out \in Seq(Nat) /\ delivered \in Seq(Nat)
    BY DEF ReaderInv, DecoderInv
  <2>2. 0 \in 0..Len(units')
    OBVIOUS
  <2>3. /\ decoder' = decoder /\ got' = 0 /\ delivered' = delivered /\ decoder'.done = 0
        /\ decoder'.input = << >> /\ delivered' \o decoder'.out = << >>
    BY <1>1, <1>2
  <2>4. /\ decoder'.done * UnitBytes = 0 /\ got' <= 0
        /\ got' < decoder'.done * UnitBytes + UnitBytes
    <3>1. decoder'.done * UnitBytes = 0
      BY <1>3, <2>3
    <3>2. UnitBytes \in Nat
      BY IoAssumption
    <3> QED BY <1>3, <2>3, <3>1, <3>2
  <2>5. Run(decoder'.done * UnitBytes, got') = << >>
    BY <1>4, <2>3, <2>4
  <2>6. Content(0, decoder.done)' = << >>
    BY <2>3 DEF Content, FlattenSeq
  <2>7. decoder'.done * UnitBytes <= got'
    BY <2>3, <2>4
  <2> QED BY <2>1, <2>2, <2>3, <2>4, <2>5, <2>6, <2>7 DEF DecoderInv
<1>6. EndIsHonest'
  BY <1>1, <1>2 DEF EndIsHonest
<1>7. /\ reader = "closed" /\ call \in {"none", "read", "read_to_end"}
      /\ single_frame \in BOOLEAN /\ input_done \in BOOLEAN /\ finished \in BOOLEAN
      /\ file \in Nat /\ got \in Nat /\ dst \in Nat /\ chunk \in Nat /\ got <= file
  BY DEF ReaderInv
<1> QED BY <1>1, <1>2, <1>5, <1>6, <1>7 DEF ReaderInv

\* Before anything is written there is nothing to read.
LEMMA ReaderInitInv == IoInit => ReaderInv
<1> SUFFICES ASSUME IoInit PROVE ReaderInv
  OBVIOUS
<1>1. 0 * UnitBytes = 0 /\ 0 < UnitBytes
  BY IoAssumption
<1>2. Run(0, 0) = << >> /\ Content(0, 0) = << >> /\ << >> \o << >> = << >>
  BY DEF Run, Content, FlattenSeq
<1>3. /\ decoder = [input |-> << >>, done |-> 0, out |-> << >>, finished_input |-> FALSE]
      /\ got = 0 /\ delivered = << >> /\ units = <<Header>>
      /\ decoder.input = << >> /\ decoder.done = 0 /\ decoder.out = << >> /\ decoder.finished_input = FALSE
  BY DEF IoInit
<1>4. DecoderInv
  <2>1. decoder.done \in 0..Len(units) /\ << >> \in Seq(Nat)
    BY <1>3
  <2>2. decoder.done * UnitBytes = 0
    BY <1>1, <1>3
  <2>3. got < decoder.done * UnitBytes + UnitBytes
    <3>1. UnitBytes \in Nat
      BY IoAssumption
    <3> QED BY <1>1, <1>3, <2>2, <3>1
  <2>4. decoder.input = Run(decoder.done * UnitBytes, got)
    BY <1>2, <1>3, <2>2
  <2>5. delivered \o decoder.out = Content(0, decoder.done)
    BY <1>2, <1>3
  <2>6. decoder.done * UnitBytes <= got
    BY <1>3, <2>2
  <2> QED BY <1>3, <2>1, <2>3, <2>4, <2>5, <2>6 DEF DecoderInv
<1>5. EndIsHonest
  BY DEF EndIsHonest, IoInit
<1>6. /\ reader = "closed" /\ call = "none" /\ verdict = "none" /\ single_frame = FALSE
      /\ input_done = FALSE /\ finished = FALSE /\ file = 0 /\ dst = 0 /\ chunk = 0
  BY DEF IoInit
<1>7. got = 0 /\ got <= file /\ got \in Nat /\ file \in Nat /\ dst \in Nat /\ chunk \in Nat
  BY <1>3, <1>6
<1>8. /\ call \in {"none", "read", "read_to_end"} /\ reader \in {"closed", "open"}
      /\ single_frame \in BOOLEAN /\ input_done \in BOOLEAN /\ finished \in BOOLEAN
  BY <1>6
<1> QED BY <1>3, <1>4, <1>5, <1>6, <1>7, <1>8 DEF ReaderInv

\* What a step of a Reader has to keep.
LEMMA ReaderKept ==
  ASSUME IoInv, UNCHANGED writerVars, UNCHANGED <<reader, file, single_frame>>, reader = "open",
         call' \in {"none", "read", "read_to_end"}, input_done' \in BOOLEAN, finished' \in BOOLEAN,
         got' \in Nat, dst' \in Nat, chunk' \in Nat, got' <= file,
         DecoderInv',
         call' # "none" => verdict' = "none",
         input_done' => got' = file,
         finished' => input_done' /\ Ends(decoder'.done) /\ got' = decoder'.done * UnitBytes,
         EndIsHonest'
  PROVE  ReaderInv'
<1>1. /\ writer # "open" /\ file <= Len(sink) /\ \A k \in 1..Len(sink) : sink[k] = k
      /\ single_frame \in BOOLEAN /\ file \in Nat
  BY DEF IoInv, ReaderInv
<1>2. UNCHANGED <<units, writer, sink>>
  BY DEF writerVars
<1>3. Ends(decoder.done)' <=> Ends(decoder'.done)
  BY <1>2 DEF Ends
<1> QED BY <1>1, <1>2, <1>3 DEF ReaderInv

\* The bytes of the source are no more than those of the units.
LEMMA SourceBounded ==
  ASSUME IoInv, reader = "open"
  PROVE  file \in Nat /\ file <= Len(units) * UnitBytes /\ Len(units) * UnitBytes \in Nat
<1>1. /\ file \in Nat /\ file <= Len(sink) /\ \A k \in 1..Len(sink) : sink[k] = k
      /\ sink \in Seq(Nat) /\ units \in Seq(Unit)
  BY DEF IoInv, ReaderInv, WriterInv, QueueInv, WrittenInv
<1>2. PICK u \in 0..Len(units) : SentUpTo(u)
  BY DEF IoInv, WriterInv, QueueInv
<1>3. u \in Nat /\ Len(units) \in Nat /\ u <= Len(units)
  BY <1>1, <1>2
<1>4. PICK a \in Nat : a = u * UnitBytes
  BY <1>3, BytesAreRun
<1>5. PICK b \in Nat : b = Len(units) * UnitBytes /\ a <= b
  BY <1>3, <1>4, BytesAreRun
<1>6. PICK l \in Nat : l = Len(sink)
  BY <1>1
<1>7. l = 0 \/ l <= a
  <2>1. ASSUME l # 0 PROVE l <= a
    <3>1. l \in 1..Len(sink)
      BY <1>6, <2>1
    <3>2. sink[l] = l /\ sink[l] <= a
      BY <1>1, <1>2, <1>4, <3>1 DEF SentUpTo
    <3> QED BY <3>2
  <2> QED BY <2>1
<1> QED BY <1>1, <1>5, <1>6, <1>7

\* When everything the source had was handed over, what was decoded is the whole units
\* of it, if it did not stop before.
LEMMA SourceOver ==
  ASSUME IoInv, got = file, decoder.out = << >>,
         ~Stops(decoder.done) \/ got = decoder.done * UnitBytes
  PROVE  /\ FileUnits = decoder.done /\ delivered = Content(0, FileUnits)
         /\ file % UnitBytes = 0 <=> decoder.input = << >>
<1>1. /\ got \in Nat /\ file \in Nat /\ decoder.done \in Nat /\ UnitBytes \in Nat \ {0}
      /\ delivered \in Seq(Nat)
  BY IoAssumption DEF IoInv, ReaderInv, DecoderInv
<1>2. PICK a \in Nat : a = UnitBytes * decoder.done
  BY <1>1
<1>3. a = decoder.done * UnitBytes
  BY <1>1, <1>2
<1>4. a <= got /\ got < a + UnitBytes /\ decoder.input = Run(a, got)
  BY <1>1, <1>3 DEF IoInv, ReaderInv, DecoderInv
<1>5. PICK r \in Nat : r = got - a
  BY <1>1, <1>4
<1>6. file = UnitBytes * decoder.done + r /\ r < UnitBytes
  <2>1. file = a + r /\ r < UnitBytes
    <3>1. got = a + r /\ got = file
      BY <1>1, <1>2, <1>5
    <3>2. got < a + UnitBytes
      BY <1>4
    <3> QED BY <1>1, <3>1, <3>2
  <2> QED BY <1>2, <2>1
<1>7. FileUnits = decoder.done /\ file % UnitBytes = r
  BY <1>1, <1>6, DivMod DEF FileUnits
<1>8. decoder.input = << >> <=> r = 0
  <2>1. Len(Run(a, got)) = r /\ Run(a, got) \in Seq(Nat)
    BY <1>1, <1>4, <1>5 DEF Run
  <2> QED BY <1>4, <2>1
<1>9. delivered = Content(0, decoder.done)
  <2>1. delivered \o << >> = delivered
    BY <1>1
  <2> QED BY <2>1 DEF IoInv, ReaderInv, DecoderInv
<1> QED BY <1>7, <1>8, <1>9

\* Only what decodes, or what was handed over, changes what the decoder holds.
LEMMA DecoderKept ==
  ASSUME DecoderInv, UNCHANGED <<units, single_frame, got, delivered>>,
         decoder' = [decoder EXCEPT !.finished_input = decoder'.finished_input]
  PROVE  DecoderInv' /\ decoder'.done = decoder.done /\ decoder'.input = decoder.input
                     /\ decoder'.out = decoder.out
<1>1. /\ decoder'.done = decoder.done /\ decoder'.input = decoder.input /\ decoder'.out = decoder.out
      /\ decoder' = [input |-> decoder'.input, done |-> decoder'.done, out |-> decoder'.out,
                     finished_input |-> decoder'.finished_input]
  <2>1. PICK fi : fi = decoder'.finished_input
    OBVIOUS
  <2>2. decoder' = [input |-> decoder.input, done |-> decoder.done, out |-> decoder.out,
                    finished_input |-> fi]
    BY <2>1 DEF DecoderInv
  <2> QED BY <2>1, <2>2
<1>2. Stops(decoder.done)' <=> Stops(decoder.done)
  BY <1>1 DEF Stops, Ends
<1>3. Content(0, decoder.done)' = Content(0, decoder.done)
  BY <1>1 DEF Content
<1> QED BY <1>1, <1>2, <1>3 DEF DecoderInv

\* Handing output over moves it from the decoder to the caller.
LEMMA DeliverStep == IoInv /\ deliver => ReaderInv'
<1> SUFFICES ASSUME IoInv, deliver PROVE ReaderInv'
  OBVIOUS
<1>1. /\ UNCHANGED writerVars /\ UNCHANGED <<reader, file, single_frame, got, chunk, input_done, finished>>
      /\ units' = units
  BY DEF deliver, writerVars
<1>2. PICK o \in Seq(Nat) : o = decoder.out
  BY DEF IoInv, ReaderInv, DecoderInv
<1>3. PICK g \in Seq(Nat) : g = delivered
  BY DEF IoInv, ReaderInv, DecoderInv
<1>4. PICK n : /\ n = IF call = "read" /\ dst < Len(o) THEN dst ELSE Len(o)
               /\ delivered' = g \o SubSeq(o, 1, n)
               /\ decoder' = [decoder EXCEPT !.out = SubSeq(o, n + 1, Len(o))]
  BY <1>2, <1>3 DEF deliver
<1>5. n \in 0..Len(o)
  <2>1. dst \in Nat
    BY DEF IoInv, ReaderInv
  <2> QED BY <1>4, <2>1
<1>6. PICK x \in Seq(Nat) : x = SubSeq(o, 1, n)
  BY <1>5, CutAndJoin
<1>7. PICK y \in Seq(Nat) : y = SubSeq(o, n + 1, Len(o))
  BY <1>5, CutAndJoin
<1>8. x \o y = o
  BY <1>5, <1>6, <1>7, CutAndJoin
<1>9. (g \o x) \o y = g \o (x \o y) /\ g \o x \in Seq(Nat)
  <2>1. (g \o x) \o y = g \o (x \o y)
    BY ConcatNat
  <2>2. g \o x \in Seq(Nat)
    OBVIOUS
  <2> QED BY <2>1, <2>2
<1>10. /\ decoder' = [input |-> decoder.input, done |-> decoder.done, out |-> y,
                      finished_input |-> decoder.finished_input]
       /\ delivered' = g \o x
  BY <1>4, <1>6, <1>7 DEF IoInv, ReaderInv, DecoderInv
<1>11. DecoderInv'
  <2>1. /\ decoder'.done = decoder.done /\ decoder'.input = decoder.input /\ decoder'.out = y
        /\ decoder' = [input |-> decoder'.input, done |-> decoder'.done, out |-> decoder'.out,
                       finished_input |-> decoder'.finished_input]
    BY <1>10
  <2>2. Stops(decoder.done)' <=> Stops(decoder.done)
    BY <1>1, <2>1 DEF Stops, Ends
  <2>3. Content(0, decoder.done)' = Content(0, decoder.done)
    BY <1>1, <2>1 DEF Content
  <2>4. delivered' \o decoder'.out = Content(0, decoder.done)
    BY <1>2, <1>3, <1>8, <1>9, <1>10, <2>1 DEF IoInv, ReaderInv, DecoderInv
  <2>5. delivered' \in Seq(Nat) /\ decoder'.out \in Seq(Nat)
    BY <1>9, <1>10, <2>1
  <2> QED BY <1>1, <2>1, <2>2, <2>3, <2>4, <2>5 DEF IoInv, ReaderInv, DecoderInv
<1>12. /\ call' \in {"none", "read", "read_to_end"} /\ dst' \in Nat /\ verdict' \in {"none", "Ok"}
       /\ call' # "none" => verdict' = "none"
  BY DEF deliver, Return, IoInv, ReaderInv
<1>13. EndIsHonest'
  BY <1>12 DEF EndIsHonest
<1>14. decoder'.done = decoder.done
  BY <1>10
<1> QED BY <1>1, <1>11, <1>12, <1>13, <1>14, ReaderKept DEF deliver, IoInv, ReaderInv

\* Ok(0) is the end of a source of whole frames.
LEMMA EndStep == IoInv /\ end_of_stream => ReaderInv'
<1> SUFFICES ASSUME IoInv, end_of_stream PROVE ReaderInv'
  OBVIOUS
<1>1. /\ UNCHANGED writerVars /\ UNCHANGED <<reader, file, single_frame, decoder, got, chunk, input_done,
                                            finished, delivered>>
      /\ units' = units /\ call' = "none" /\ dst' = 0 /\ verdict' = "Eof"
      /\ decoder.out = << >> /\ finished
  BY DEF end_of_stream, writerVars, Return
<1>2. /\ Ends(decoder.done) /\ got = file /\ got = decoder.done * UnitBytes
  BY <1>1 DEF IoInv, ReaderInv
<1>3. DecoderInv'
  BY <1>1, DecoderKept DEF IoInv, ReaderInv, DecoderInv
<1>4. decoder.input = << >>
  <2>1. PICK a \in Nat : a = got
    BY DEF IoInv, ReaderInv
  <2>2. Run(a, a) = << >>
    BY DEF Run
  <2> QED BY <1>2, <2>1, <2>2 DEF IoInv, ReaderInv, DecoderInv
<1>5. WholeFrames /\ delivered = Content(0, FileUnits)
  BY <1>1, <1>2, <1>4, SourceOver DEF WholeFrames
<1>6. WholeFrames' /\ (delivered = Content(0, FileUnits))'
  BY <1>1, <1>5 DEF WholeFrames, FileUnits, Ends, Content
<1>7. EndIsHonest'
  BY <1>1, <1>6 DEF EndIsHonest
<1> QED BY <1>1, <1>2, <1>3, <1>7, ReaderKept DEF end_of_stream, IoInv, ReaderInv

\* A source that is exhausted is a whole stream or is reported cut, and what it held is
\* delivered by then.
LEMMA FinishStep == IoInv /\ finish_decoder => ReaderInv'
<1> SUFFICES ASSUME IoInv, finish_decoder PROVE ReaderInv'
  OBVIOUS
<1>1. /\ UNCHANGED writerVars /\ UNCHANGED <<reader, file, single_frame, got, chunk, input_done, delivered>>
      /\ units' = units /\ sink' = sink
      /\ call # "none" /\ decoder.out = << >> /\ ~finished /\ input_done
      /\ decoder' = [decoder EXCEPT !.finished_input = TRUE]
  BY DEF finish_decoder, writerVars
<1>2. reader = "open" /\ got = file /\ DecoderInv /\ verdict = "none" /\ dst \in Nat /\ single_frame \in BOOLEAN
  BY <1>1 DEF IoInv, ReaderInv
<1>3. DecoderInv' /\ decoder'.done = decoder.done /\ decoder'.input = decoder.input /\ decoder'.out = decoder.out
  <2>1. decoder'.finished_input = TRUE
    BY <1>1, <1>2 DEF DecoderInv
  <2> QED BY <1>1, <1>2, <2>1, DecoderKept
<1>4. CASE ~Refuses(decoder) /\ AtBoundary(decoder) /\ finished' = TRUE /\ UNCHANGED <<call, dst, verdict>>
  <2>1. Ends(decoder.done) /\ decoder.input = << >>
    BY <1>4 DEF AtBoundary
  <2>2. got = decoder.done * UnitBytes
    <3>1. PICK a \in Nat : a = decoder.done * UnitBytes
      BY <1>2, IoAssumption DEF DecoderInv
    <3>2. got \in Nat /\ a <= got /\ Run(a, got) = << >>
      BY <1>2, <2>1, <3>1 DEF DecoderInv, IoInv, ReaderInv
    <3>3. Len(Run(a, got)) = got - a
      BY <3>2 DEF Run
    <3>4. got - a = 0
      BY <3>2, <3>3
    <3> QED BY <3>1, <3>2, <3>4
  <2>3. EndIsHonest'
    BY <1>2, <1>4 DEF EndIsHonest
  <2> QED BY <1>1, <1>2, <1>3, <1>4, <2>1, <2>2, <2>3, ReaderKept DEF IoInv, ReaderInv
<1>5. CASE ~Refuses(decoder) /\ ~AtBoundary(decoder) /\ Return("UnexpectedEof") /\ UNCHANGED finished
  <2>1. call' = "none" /\ dst' = 0 /\ verdict' = "UnexpectedEof"
    BY <1>5 DEF Return
  <2>2. ~single_frame => ~WholeFrames /\ delivered = Content(0, FileUnits)
    <3>1. SUFFICES ASSUME ~single_frame PROVE ~WholeFrames /\ delivered = Content(0, FileUnits)
      OBVIOUS
    <3>2. ~Stops(decoder.done)
      BY <3>1 DEF Stops
    <3>3. /\ FileUnits = decoder.done /\ delivered = Content(0, FileUnits)
          /\ file % UnitBytes = 0 <=> decoder.input = << >>
      BY <1>1, <1>2, <3>2, SourceOver
    <3> QED BY <1>5, <3>3 DEF WholeFrames, AtBoundary
  <2>3. EndIsHonest'
    <3>1. (~single_frame => ~WholeFrames /\ delivered = Content(0, FileUnits))'
      BY <1>1, <2>2 DEF WholeFrames, FileUnits, Ends, Content
    <3> QED BY <2>1, <3>1 DEF EndIsHonest
  <2> QED BY <1>1, <1>2, <1>3, <1>5, <2>1, <2>3, ReaderKept DEF IoInv, ReaderInv
<1>6. CASE /\ Refuses(decoder) /\ UNCHANGED finished
           /\ Return(IF decoder.finished_input THEN "UnexpectedEof" ELSE "TrailingInput")
  <2>1. call' = "none" /\ dst' = 0 /\ verdict' \in {"UnexpectedEof", "TrailingInput"}
    BY <1>6 DEF Return
  <2>2. single_frame /\ Ends(decoder.done)
    BY <1>6 DEF Refuses, Stops
  <2>3. decoder.input = SubSeq(sink, decoder.done * UnitBytes + 1, got)
    <3>1. PICK a \in Nat : a = decoder.done * UnitBytes
      BY <1>2, IoAssumption DEF DecoderInv
    <3>2. PICK t \in Seq(Nat) : t = sink
      BY DEF IoInv, WriterInv, QueueInv
    <3>3. /\ \A k \in 1..Len(t) : t[k] = k
          /\ got \in Nat /\ a <= got /\ got <= Len(t)
      BY <1>2, <3>1, <3>2 DEF IoInv, ReaderInv, DecoderInv
    <3>4. SubSeq(t, a + 1, got) = Run(a, got)
      BY <3>3, PartIsRun
    <3> QED BY <1>2, <3>1, <3>2, <3>4 DEF DecoderInv
  <2>4. EndIsHonest'
    <3>1. /\ single_frame' = single_frame /\ sink' = sink /\ got' = got
          /\ Ends(decoder.done)' <=> Ends(decoder.done)
      BY <1>1, <1>3 DEF Ends
    <3> QED BY <1>3, <2>1, <2>2, <2>3, <3>1 DEF EndIsHonest
  <2> QED BY <1>1, <1>2, <1>3, <1>6, <2>1, <2>4, ReaderKept DEF IoInv, ReaderInv
<1> QED BY <1>4, <1>5, <1>6 DEF finish_decoder

\* What arrives is decoded as far as it reaches.
LEMMA RefillStep == IoInv /\ refill => ReaderInv'
<1> SUFFICES ASSUME IoInv, refill PROVE ReaderInv'
  OBVIOUS
<1>1. /\ UNCHANGED writerVars /\ UNCHANGED <<reader, file, single_frame, input_done, finished, delivered>>
      /\ units' = units /\ sink' = sink
      /\ call # "none" /\ decoder.out = << >> /\ ~finished /\ ~input_done
  BY DEF refill, Refilling, writerVars
<1>2. /\ reader = "open" /\ DecoderInv /\ verdict = "none" /\ dst \in Nat /\ got \in Nat /\ file \in Nat
      /\ chunk \in Nat /\ call \in {"none", "read", "read_to_end"} /\ single_frame \in BOOLEAN
      /\ WrittenInv /\ input_done = FALSE /\ finished = FALSE
  BY <1>1 DEF IoInv, ReaderInv, WriterInv
<1>3. READ_CHUNK_INITIAL \in Nat /\ READ_CHUNK \in Nat /\ UnitBytes \in Nat \ {0}
  BY IoAssumption
<1>4. Offered \in Nat
  BY <1>2, <1>3 DEF Offered
<1>5. PICK n \in 1..Offered :
        /\ got + n <= file /\ got' = got + n
        /\ decoder' = process([decoder EXCEPT !.input = @ \o SubSeq(sink, got + 1, got + n)])
        /\ IF Refuses(decoder') THEN chunk' = Offered /\ Return("TrailingInput")
           ELSE /\ chunk' = IF n = Offered /\ n < READ_CHUNK THEN READ_CHUNK ELSE Offered
                /\ UNCHANGED <<call, dst, verdict>>
  BY DEF refill
<1>6. PICK c \in Nat : c = got + n
  BY <1>2, <1>4, <1>5
<1>7. PICK t \in Seq(Nat) : t = sink
  BY DEF IoInv, WriterInv, QueueInv
<1>8. /\ \A k \in 1..Len(t) : t[k] = k
      /\ c <= Len(t) /\ c <= file /\ got <= c /\ file <= Len(t)
  BY <1>2, <1>4, <1>5, <1>6, <1>7 DEF IoInv, ReaderInv
<1>9. PICK a \in Nat : a = decoder.done * UnitBytes /\ a <= got
  <2>1. decoder.done \in Nat /\ decoder.done * UnitBytes <= got
    BY <1>2 DEF DecoderInv, WrittenInv
  <2>2. decoder.done * UnitBytes \in Nat
    BY <1>3, <2>1
  <2> QED BY <2>1, <2>2
<1>10. decoder.input \o SubSeq(sink, got + 1, got + n) = Run(a, c)
  <2>1. SubSeq(t, got + 1, c) = Run(got, c)
    BY <1>2, <1>8, PartIsRun
  <2>2. Run(a, got) \o Run(got, c) = Run(a, c)
    BY <1>2, <1>8, <1>9, RunConcat
  <2> QED BY <1>2, <1>6, <1>7, <1>9, <2>1, <2>2 DEF DecoderInv
<1>11. PICK d : d = [decoder EXCEPT !.input = @ \o SubSeq(sink, got + 1, got + n)]
  OBVIOUS
<1>12. d = [input |-> Run(decoder.done * UnitBytes, c), done |-> decoder.done, out |-> decoder.out,
            finished_input |-> decoder.finished_input]
  BY <1>2, <1>9, <1>10, <1>11 DEF DecoderInv
<1>13. c <= Len(units) * UnitBytes
  <2>1. file <= Len(units) * UnitBytes /\ Len(units) * UnitBytes \in Nat
    BY <1>2, SourceBounded
  <2> QED BY <1>2, <1>8, <2>1
<1>14. decoder.done \in 0..Len(units) /\ decoder.done * UnitBytes <= c
  BY <1>2, <1>8, <1>9 DEF DecoderInv
<1>15. PICK last \in decoder.done..Len(units) :
         /\ process(d) = [input |-> Run(last * UnitBytes, c), done |-> last,
                          out |-> decoder.out \o Content(decoder.done, last),
                          finished_input |-> decoder.finished_input]
         /\ last * UnitBytes <= c
         /\ Stops(last) \/ c < last * UnitBytes + UnitBytes
  <2>1. PICK m \in 0..Len(units) : m = decoder.done
    BY <1>14
  <2>2. m * UnitBytes <= c
    BY <1>14, <2>1
  <2>3. PICK o : o = decoder.out
    OBVIOUS
  <2>4. PICK fi : fi = decoder.finished_input
    OBVIOUS
  <2>5. d = [input |-> Run(m * UnitBytes, c), done |-> m, out |-> o, finished_input |-> fi]
    BY <1>12, <2>1, <2>3, <2>4
  <2>6. \E last \in m..Len(units) :
           /\ process(d) = [input |-> Run(last * UnitBytes, c), done |-> last,
                            out |-> o \o Content(m, last), finished_input |-> fi]
           /\ last * UnitBytes <= c
           /\ Stops(last) \/ c < last * UnitBytes + UnitBytes
    BY <1>2, <1>13, <2>2, <2>5, ProcessReads
  <2> QED BY <2>1, <2>3, <2>4, <2>6
<1>16. /\ last \in Nat /\ last \in 0..Len(units) /\ decoder.done \in Nat /\ decoder.done <= last
       /\ last <= Len(units) /\ Len(units) \in Nat
  BY <1>2, <1>14, <1>15 DEF WrittenInv
<1>17. /\ Content(0, decoder.done) \in Seq(Nat) /\ Content(decoder.done, last) \in Seq(Nat)
       /\ Content(0, decoder.done) \o Content(decoder.done, last) = Content(0, last)
  <2>1. PICK m \in Nat : m = decoder.done
    BY <1>16
  <2>2. PICK l \in Nat : l = last
    BY <1>16
  <2>3. m <= l /\ l <= Len(units)
    BY <1>16, <2>1, <2>2
  <2>4. /\ Content(0, m) \in Seq(Nat) /\ Content(m, l) \in Seq(Nat)
        /\ Content(0, m) \o Content(m, l) = Content(0, l)
    BY <1>2, <2>3, ContentSplits
  <2> QED BY <2>1, <2>2, <2>4
<1>18. /\ decoder' = [input |-> Run(last * UnitBytes, c), done |-> last,
                      out |-> Content(decoder.done, last), finished_input |-> decoder.finished_input]
       /\ got' = c /\ delivered' = Content(0, decoder.done)
  <2>1. PICK x \in Seq(Nat) : x = Content(decoder.done, last)
    BY <1>17
  <2>2. << >> \o x = x
    OBVIOUS
  <2>3. decoder.out \o Content(decoder.done, last) = Content(decoder.done, last)
    BY <1>1, <2>1, <2>2
  <2>4. delivered = Content(0, decoder.done)
    <3>1. PICK y \in Seq(Nat) : y = delivered
      BY <1>2 DEF DecoderInv
    <3>2. y \o << >> = y
      OBVIOUS
    <3> QED BY <1>1, <1>2, <3>1, <3>2 DEF DecoderInv
  <2> QED BY <1>1, <1>5, <1>6, <1>11, <1>15, <2>3, <2>4
<1>19. decoder'.done = last /\ decoder'.input = Run(last * UnitBytes, c)
       /\ decoder'.out = Content(decoder.done, last)
  BY <1>18
<1>20. DecoderInv'
  <2>1. decoder' = [input |-> decoder'.input, done |-> decoder'.done, out |-> decoder'.out,
                    finished_input |-> decoder'.finished_input]
    BY <1>18
  <2>2. Stops(decoder.done)' <=> Stops(last)
    BY <1>1, <1>19 DEF Stops, Ends
  <2>3. Content(0, decoder.done)' = Content(0, last)
    BY <1>1, <1>19 DEF Content
  <2>4. /\ decoder'.done \in 0..Len(units') /\ decoder'.done * UnitBytes <= got'
        /\ decoder'.input = Run(decoder'.done * UnitBytes, got')
        /\ Stops(last) \/ got' < decoder'.done * UnitBytes + UnitBytes
    BY <1>1, <1>15, <1>16, <1>18, <1>19
  <2>5. decoder'.out \in Seq(Nat) /\ delivered' \in Seq(Nat) /\ delivered' \o decoder'.out = Content(0, last)
    BY <1>17, <1>18, <1>19
  <2> QED BY <2>1, <2>2, <2>3, <2>4, <2>5 DEF DecoderInv
<1>21. chunk' \in Nat
  BY <1>3, <1>4, <1>5
<1>22. CASE Refuses(decoder')
  <2>1. call' = "none" /\ dst' = 0 /\ verdict' = "TrailingInput"
    BY <1>5, <1>22 DEF Return
  <2>2. Ends(decoder'.done)
    BY <1>22 DEF Refuses, Stops
  <2>3. PICK b \in Nat : b = last * UnitBytes /\ b <= c
    BY <1>3, <1>15, <1>16
  <2>4. SubSeq(t, b + 1, c) = Run(b, c)
    BY <1>8, <2>3, PartIsRun
  <2>5. decoder'.input = SubSeq(sink, decoder'.done * UnitBytes + 1, got')
    BY <1>7, <1>18, <1>19, <2>3, <2>4
  <2>6. EndIsHonest'
    <3>1. Ends(decoder.done)' <=> Ends(decoder'.done)
      BY <1>1 DEF Ends
    <3> QED BY <1>1, <2>1, <2>2, <2>5, <3>1 DEF EndIsHonest
  <2> QED BY <1>1, <1>2, <1>6, <1>8, <1>18, <1>20, <1>21, <2>1, <2>6, ReaderKept
<1>23. CASE ~Refuses(decoder')
  <2>1. UNCHANGED <<call, dst, verdict>>
    BY <1>5, <1>23
  <2>2. EndIsHonest'
    BY <1>2, <2>1 DEF EndIsHonest
  <2> QED BY <1>1, <1>2, <1>6, <1>8, <1>18, <1>20, <1>21, <2>1, <2>2, ReaderKept
<1> QED BY <1>22, <1>23

\* The turns and calls that neither decode nor deliver.
LEMMA QuietStep ==
  ASSUME IoInv, refill_nothing \/ refill_fails \/ read \/ read_to_end
  PROVE  ReaderInv'
<1>1. /\ UNCHANGED writerVars /\ UNCHANGED <<reader, file, single_frame, decoder, got, finished, delivered>>
      /\ units' = units
  BY DEF refill_nothing, refill_fails, read, read_to_end, writerVars, callVars
<1>2. /\ reader = "open"
      /\ DecoderInv /\ dst \in Nat /\ got \in Nat /\ got <= file /\ chunk \in Nat
      /\ call \in {"none", "read", "read_to_end"} /\ input_done \in BOOLEAN /\ finished \in BOOLEAN
      /\ call # "none" => verdict = "none"
      /\ input_done => got = file
      /\ finished => input_done /\ Ends(decoder.done) /\ got = decoder.done * UnitBytes
      /\ EndIsHonest
  BY DEF IoInv, ReaderInv, refill_nothing, refill_fails, read, read_to_end, Refilling
<1>3. DecoderInv'
  BY <1>1, <1>2, DecoderKept DEF DecoderInv
<1>4. Offered \in Nat
  BY <1>2, IoAssumption DEF Offered
<1>5. CASE refill_nothing
  <2>1. input_done' = TRUE /\ got = file /\ chunk' = Offered /\ UNCHANGED <<call, dst, verdict>> /\ verdict = "none"
    BY <1>2, <1>5 DEF refill_nothing, Refilling, callVars
  <2>2. EndIsHonest'
    BY <2>1 DEF EndIsHonest
  <2> QED BY <1>1, <1>2, <1>3, <1>4, <2>1, <2>2, ReaderKept
<1>6. CASE refill_fails
  <2>1. /\ input_done' = input_done /\ chunk' = Offered
        /\ call' \in {"none", "read", "read_to_end"} /\ dst' \in Nat /\ verdict' \in {"none", "Inner"}
        /\ call' # "none" => verdict' = "none"
    BY <1>2, <1>6 DEF refill_fails, Refilling, Return
  <2>2. EndIsHonest'
    BY <2>1 DEF EndIsHonest
  <2> QED BY <1>1, <1>2, <1>3, <1>4, <2>1, <2>2, ReaderKept
<1>7. CASE read
  <2>1. PICK n \in ReadSizes : IF n = 0 THEN UNCHANGED <<call, dst, verdict>>
                               ELSE call' = "read" /\ dst' = n /\ verdict' = "none"
    BY <1>7 DEF read
  <2>2. n \in Nat
    BY IoAssumption
  <2>3. UNCHANGED <<input_done, chunk, sink>>
    BY <1>1, <1>7 DEF read, writerVars
  <2>4. CASE n = 0
    <3>1. UNCHANGED <<call, dst, verdict>>
      BY <2>1, <2>4
    <3>2. EndIsHonest'
      BY <1>1, <1>2, <2>3, <3>1 DEF EndIsHonest, WholeFrames, FileUnits, Ends, Content
    <3> QED BY <1>1, <1>2, <1>3, <2>3, <3>1, <3>2, ReaderKept
  <2>5. CASE n # 0
    <3>1. call' = "read" /\ dst' = n /\ verdict' = "none"
      BY <2>1, <2>5
    <3>2. EndIsHonest'
      BY <3>1 DEF EndIsHonest
    <3> QED BY <1>1, <1>2, <1>3, <2>2, <2>3, <3>1, <3>2, ReaderKept
  <2> QED BY <2>4, <2>5
<1>8. CASE read_to_end
  <2>1. /\ call' = "read_to_end" /\ verdict' = "none" /\ UNCHANGED <<input_done, chunk, dst>>
    BY <1>8 DEF read_to_end
  <2>2. EndIsHonest'
    BY <2>1 DEF EndIsHonest
  <2> QED BY <1>1, <1>2, <1>3, <2>1, <2>2, ReaderKept
<1> QED BY <1>5, <1>6, <1>7, <1>8

\* A new Reader is over what arrived, up to where it was cut.
LEMMA OpenStep == IoInv /\ open_reader => ReaderInv'
<1> SUFFICES ASSUME IoInv, open_reader PROVE ReaderInv'
  OBVIOUS
<1>1. /\ UNCHANGED <<units, writer, sink>> /\ UNCHANGED <<decoder, got, chunk, input_done, finished>>
      /\ UNCHANGED <<call, dst, delivered, verdict>>
      /\ reader = "closed" /\ writer # "open" /\ \A k \in 1..Len(sink) : sink[k] = k
      /\ reader' = "open" /\ file' \in 0..Len(sink) /\ single_frame' \in BOOLEAN
  BY DEF open_reader, writerVars, callVars
<1>2. /\ got = 0 /\ decoder.done = 0 /\ verdict = "none" /\ call = "none" /\ ~input_done /\ ~finished
      /\ DecoderInv /\ dst \in Nat /\ chunk \in Nat /\ sink \in Seq(Nat)
      /\ input_done \in BOOLEAN /\ finished \in BOOLEAN
  BY <1>1, ClosedReader DEF IoInv, ReaderInv, WriterInv, QueueInv
<1>3. DecoderInv'
  <2>1. got < decoder.done * UnitBytes + UnitBytes
    <3>1. UnitBytes \in Nat \ {0}
      BY IoAssumption
    <3> QED BY <1>2, <3>1
  <2>2. Content(0, decoder.done)' = Content(0, decoder.done)
    BY <1>1 DEF Content
  <2> QED BY <1>1, <1>2, <2>1, <2>2 DEF DecoderInv
<1>4. EndIsHonest'
  BY <1>1, <1>2 DEF EndIsHonest
<1>5. /\ file' \in Nat /\ got' <= file' /\ got' \in Nat /\ file' <= Len(sink')
  BY <1>1, <1>2
<1> QED BY <1>1, <1>2, <1>3, <1>4, <1>5 DEF ReaderInv

\* A step in which nothing of it changes.
LEMMA IdleStep == IoInv /\ UNCHANGED ioVars => ReaderInv'
<1> SUFFICES ASSUME IoInv, UNCHANGED ioVars PROVE ReaderInv'
  OBVIOUS
<1>1. /\ UNCHANGED <<units, writer, sink>>
      /\ UNCHANGED <<reader, file, single_frame, decoder, got, chunk, input_done, finished>>
      /\ UNCHANGED <<call, dst, delivered, verdict>>
  BY DEF ioVars, writerVars, readerVars, callVars
<1>2. DecoderInv'
  BY <1>1, DecoderKept DEF IoInv, ReaderInv, DecoderInv
<1>3. EndIsHonest'
  BY <1>1 DEF IoInv, ReaderInv, EndIsHonest, WholeFrames, FileUnits, Ends, Content
<1>4. Ends(decoder.done)' <=> Ends(decoder.done)
  BY <1>1 DEF Ends
<1> QED BY <1>1, <1>2, <1>3, <1>4 DEF IoInv, ReaderInv

\* Every step of either end keeps what a Reader knows.
LEMMA ReaderStep == IoInv /\ [IoNext]_ioVars => ReaderInv'
<1> SUFFICES ASSUME IoInv, [IoNext]_ioVars PROVE ReaderInv'
  OBVIOUS
<1>1. CASE write \/ flush \/ finish \/ drop \/ with_options
  <2>1. reader = "closed" /\ UNCHANGED readerVars
    BY <1>1 DEF write, flush, finish, drop, with_options, IoInv, ReaderInv
  <2>2. Len(units') \in Nat
    BY WriterStep DEF IoInv, WriterInv, WrittenInv
  <2> QED BY <2>1, <2>2, WritersLeaveReader DEF IoInv
<1>2. CASE ReaderTurn
  BY <1>2, DeliverStep, EndStep, FinishStep, RefillStep, QuietStep DEF ReaderTurn
<1>3. CASE open_reader \/ read \/ read_to_end \/ refill_fails
  BY <1>3, OpenStep, QuietStep
<1>4. CASE UNCHANGED ioVars
  BY <1>4, IdleStep
<1> QED BY <1>1, <1>2, <1>3, <1>4 DEF IoNext

\* Whatever the sizes of chunks, reads and units, whatever the source's reads return and
\* wherever it ends: Ok(0) only ends whole frames delivered to the last byte, a
\* truncation is only reported once all that decodes was delivered, and a trailing input
\* leaves exactly the bytes behind the frame.
THEOREM ReaderIsHonest == IoSpec => []EndIsHonest
<1>1. IoInit => IoInv
  BY WriterInitInv, ReaderInitInv DEF IoInv
<1>2. IoInv /\ [IoNext]_ioVars => IoInv'
  BY WriterStep, ReaderStep DEF IoInv
<1>3. IoInv => EndIsHonest
  BY DEF IoInv, ReaderInv
<1> QED BY <1>1, <1>2, <1>3, PTL DEF IoSpec

=============================================================================
