---------------------------- MODULE OneShotProofs ----------------------------
(***************************************************************************)
(* The streaming decoder and the one-shot decoder make the same of the     *)
(* same bytes: StreamDecoder's StreamMatchesOneShot and                    *)
(* VerdictMatchesOneShot, for every wire, cut into pushes, drain pattern,  *)
(* dictionary, cap and number of resets.                                   *)
(*                                                                         *)
(* One block executed in two buffers that end alike appends the same to    *)
(* both (BlockAlike).  The one-shot decoder's run over  *)
(* a prefix of the wire is a function of the units behind it (RunOf).      *)
(* The stream is in step with that run at every unit, whatever more is     *)
(* pushed (SyncInv), and each call ends where the run does (AgreeInv).     *)
(* The buffer holds enough of the open frame for a match to read the same  *)
(* bytes because it implements the abstract window (Retained).             *)
(***************************************************************************)
EXTENDS StreamDecoderProofs

-----------------------------------------------------------------------------
\* Two buffers that end alike: the decoder's own and the one-shot decoder's.

\* What joining two lists puts where.
LEMMA JoinAt ==
  ASSUME NEW a, NEW b, Listed(a), Listed(b), NEW i \in 1..(Len(a) + Len(b))
  PROVE  (a \o b)[i] = IF i <= Len(a) THEN a[i] ELSE b[i - Len(a)]
<1>1. PICK S, T : a \in Seq(S) /\ b \in Seq(T)
  BY DEF Listed
<1>2. PICK U : a \in Seq(U) /\ b \in Seq(U)
  <2>1. a \in Seq(S \cup T) /\ b \in Seq(S \cup T)
    BY <1>1
  <2> QED BY <2>1
<1> QED BY <1>2, ConcatProperties

\* Joining associates.
LEMMA JoinsJoin ==
  ASSUME NEW a, NEW b, NEW c, Listed(a), Listed(b), Listed(c)
  PROVE  (a \o b) \o c = a \o (b \o c)
<1>1. PICK S, T, U : a \in Seq(S) /\ b \in Seq(T) /\ c \in Seq(U)
  BY DEF Listed
<1>2. PICK V : a \in Seq(V) /\ b \in Seq(V) /\ c \in Seq(V)
  <2>1. PICK V : V = S \cup T \cup U
    OBVIOUS
  <2>2. a \in Seq(V) /\ b \in Seq(V) /\ c \in Seq(V)
    BY <1>1, <2>1
  <2> QED BY <2>2
<1> QED BY <1>2, ConcatAssociative

\* ... said of three lists.
Regroup(a, b, c) == (a \o b) \o c = a \o (b \o c)
LEMMA Regroups ==
  ASSUME NEW a, NEW b, NEW c, Listed(a), Listed(b), Listed(c) PROVE Regroup(a, b, c)
BY JoinsJoin DEF Regroup

\* Joining nothing changes nothing.
LEMMA NoneJoined ==
  ASSUME NEW a, Listed(a)
  PROVE  a \o << >> = a /\ << >> \o a = a
<1>1. PICK S : a \in Seq(S)
  BY DEF Listed
<1> QED BY <1>1, ConcatEmptySeq

\* Lists of the same length with the same entries are the same.
LEMMA SameLists ==
  ASSUME NEW a, NEW b, Listed(a), Listed(b), Len(a) = Len(b),
         \A i \in 1..Len(a) : a[i] = b[i]
  PROVE  a = b
<1>1. PICK S, T : a \in Seq(S) /\ b \in Seq(T)
  BY DEF Listed
<1>2. PICK U : a \in Seq(U) /\ b \in Seq(U)
  <2>1. a \in Seq(S \cup T) /\ b \in Seq(S \cup T)
    BY <1>1
  <2> QED BY <2>1
<1> QED BY <1>2, SeqEqual

\* What a cut leaves where.
LEMMA CutAt ==
  ASSUME NEW s, Listed(s), NEW m \in 1..(Len(s) + 1), NEW n \in (m - 1)..Len(s),
         NEW i \in 1..(n - m + 1)
  PROVE  SubSeq(s, m, n)[i] = s[m + i - 1]
<1>1. PICK S : s \in Seq(S)
  BY DEF Listed
<1> QED BY <1>1

\* A beginning of a joined list that takes a beginning of the second along.
LEMMA JoinCut ==
  ASSUME NEW a, Listed(a), NEW b, Listed(b), NEW n \in 0..Len(b)
  PROVE  SubSeq(a \o b, 1, Len(a) + n) = a \o SubSeq(b, 1, n)
<1>1. PICK la \in Nat, lb \in Nat : la = Len(a) /\ lb = Len(b)
  BY ListsJoin
<1>2. PICK c : c = a \o b /\ Listed(c) /\ Len(c) = la + lb
  BY <1>1, ListsJoin
<1>3. SubSeq(c, 1, la + n) = a \o SubSeq(b, 1, n)
  <2>1. PICK l : l = SubSeq(c, 1, la + n)
    OBVIOUS
  <2>2. PICK p : p = SubSeq(b, 1, n)
    OBVIOUS
  <2>3. Listed(l) /\ Len(l) = la + n
    <3>1. 1 \in 1..(Len(c) + 1) /\ la + n \in (1 - 1)..Len(c)
      BY <1>1, <1>2
    <3>2. Listed(SubSeq(c, 1, la + n)) /\ Len(SubSeq(c, 1, la + n)) = (la + n) - 1 + 1
      BY <1>2, <3>1, ListsCut
    <3> QED BY <1>1, <2>1, <3>2
  <2>4. Listed(p) /\ Len(p) = n
    <3>1. 1 \in 1..(Len(b) + 1) /\ n \in (1 - 1)..Len(b)
      BY <1>1
    <3>2. Listed(SubSeq(b, 1, n)) /\ Len(SubSeq(b, 1, n)) = n - 1 + 1
      BY <1>1, <3>1, ListsCut
    <3> QED BY <1>1, <2>2, <3>2
  <2>5. Listed(a \o p) /\ Len(a \o p) = la + n
    BY <1>1, <2>4, ListsJoin
  <2>6. ASSUME NEW i \in 1..(la + n) PROVE l[i] = (a \o p)[i]
    <3>1. l[i] = c[i]
      <4>1. 1 \in 1..(Len(c) + 1) /\ la + n \in (1 - 1)..Len(c) /\ i \in 1..((la + n) - 1 + 1)
        BY <1>1, <1>2
      <4>2. SubSeq(c, 1, la + n)[i] = c[1 + i - 1]
        BY <1>2, <4>1, CutAt
      <4> QED BY <1>1, <2>1, <4>2
    <3>2. c[i] = IF i <= la THEN a[i] ELSE b[i - la]
      BY <1>1, <1>2, JoinAt
    <3>3. (a \o p)[i] = IF i <= la THEN a[i] ELSE p[i - la]
      BY <1>1, <2>4, JoinAt
    <3>4. CASE i <= la
      BY <3>1, <3>2, <3>3, <3>4
    <3>5. CASE ~(i <= la)
      <4>1. PICK j \in 1..n : j = i - la
        BY <1>1, <3>5
      <4>2. 1 \in 1..(Len(b) + 1) /\ n \in (1 - 1)..Len(b) /\ j \in 1..(n - 1 + 1)
        BY <1>1, <4>1
      <4>3. SubSeq(b, 1, n)[j] = b[1 + j - 1]
        BY <4>2, CutAt
      <4>4. 1 + j - 1 = j
        BY <4>1
      <4> QED BY <2>2, <3>1, <3>2, <3>3, <3>5, <4>1, <4>3, <4>4
    <3> QED BY <3>4, <3>5
  <2>7. l = a \o p
    BY <2>3, <2>5, <2>6, SameLists
  <2> QED BY <2>1, <2>2, <2>7
<1> QED BY <1>1, <1>2, <1>3

\* The rest of a joined list behind the first.
LEMMA JoinRest ==
  ASSUME NEW a, Listed(a), NEW b, Listed(b)
  PROVE  SubSeq(a \o b, Len(a) + 1, Len(a) + Len(b)) = b
<1>1. PICK la \in Nat, lb \in Nat : la = Len(a) /\ lb = Len(b)
  BY ListsJoin
<1>2. PICK c : c = a \o b /\ Listed(c) /\ Len(c) = la + lb
  BY <1>1, ListsJoin
<1>3. SubSeq(c, la + 1, la + lb) = b
  <2>1. PICK r : r = SubSeq(c, la + 1, la + lb)
    OBVIOUS
  <2>2. la + 1 \in 1..(Len(c) + 1) /\ la + lb \in ((la + 1) - 1)..Len(c)
    BY <1>1, <1>2
  <2>3. Listed(r) /\ Len(r) = lb
    <3>1. Listed(SubSeq(c, la + 1, la + lb))
          /\ Len(SubSeq(c, la + 1, la + lb)) = (la + lb) - (la + 1) + 1
      BY <1>2, <2>2, ListsCut
    <3> QED BY <1>1, <2>1, <3>1
  <2>4. ASSUME NEW i \in 1..lb PROVE r[i] = b[i]
    <3>1. i \in 1..((la + lb) - (la + 1) + 1)
      BY <1>1
    <3>2. r[i] = c[(la + 1) + i - 1]
      BY <1>2, <2>1, <2>2, <3>1, CutAt
    <3>3. (la + 1) + i - 1 = la + i /\ la + i \in 1..(la + lb) /\ ~(la + i <= la)
          /\ (la + i) - la = i
      BY <1>1
    <3>4. (a \o b)[la + i] = b[(la + i) - la]
      BY <1>1, <3>3, JoinAt
    <3> QED BY <1>2, <3>2, <3>3, <3>4
  <2>5. r = b
    BY <1>1, <2>3, <2>4, SameLists
  <2> QED BY <2>1, <2>5
<1> QED BY <1>1, <1>2, <1>3

\* b and w end in the same c entries.
SameTail(b, w, c) ==
  /\ c \in Nat /\ c <= Len(b) /\ c <= Len(w)
  /\ \A i \in 0..(c - 1) : b[Len(b) - i] = w[Len(w) - i]

\* What is appended to both is part of the common end.
LEMMA TailGrows ==
  ASSUME NEW b, NEW w, NEW z, Listed(b), Listed(w), Listed(z), NEW c, SameTail(b, w, c)
  PROVE  SameTail(b \o z, w \o z, c + Len(z))
<1>1. PICK lb \in Nat, lw \in Nat, lz \in Nat : lb = Len(b) /\ lw = Len(w) /\ lz = Len(z)
  BY ListsJoin
<1>2. c \in Nat /\ c <= lb /\ c <= lw /\ \A i \in 0..(c - 1) : b[lb - i] = w[lw - i]
  BY <1>1 DEF SameTail
<1>3. Len(b \o z) = lb + lz /\ Len(w \o z) = lw + lz
  BY <1>1, ListsJoin
<1>4. ASSUME NEW i \in 0..((c + lz) - 1)
      PROVE  (b \o z)[(lb + lz) - i] = (w \o z)[(lw + lz) - i]
  <2>1. PICK p \in Int, q \in Int : p = (lb + lz) - i /\ q = (lw + lz) - i
    BY <1>2
  <2>2. p \in 1..(lb + lz) /\ q \in 1..(lw + lz)
    BY <1>1, <1>2, <2>1
  <2>3. /\ (b \o z)[p] = IF p <= lb THEN b[p] ELSE z[p - lb]
        /\ (w \o z)[q] = IF q <= lw THEN w[q] ELSE z[q - lw]
    BY <1>1, <2>2, JoinAt
  <2>4. CASE i < lz
    <3>1. ~(p <= lb) /\ ~(q <= lw) /\ p - lb = q - lw
      BY <1>1, <1>2, <2>1, <2>4
    <3> QED BY <2>1, <2>3, <3>1
  <2>5. CASE ~(i < lz)
    <3>1. PICK j \in 0..(c - 1) : j = i - lz
      <4>1. i \in Int /\ i <= (c + lz) - 1
        BY <1>1, <1>2
      <4>2. i - lz \in 0..(c - 1)
        BY <1>1, <1>2, <2>5, <4>1
      <4> QED BY <4>2
    <3>2. p <= lb /\ q <= lw /\ p = lb - j /\ q = lw - j
      BY <1>1, <1>2, <2>1, <2>5, <3>1
    <3>3. b[lb - j] = w[lw - j]
      BY <1>2, <3>1
    <3> QED BY <2>1, <2>3, <3>2, <3>3
  <2> QED BY <2>4, <2>5
<1>5. c + lz \in Nat /\ c + lz <= lb + lz /\ c + lz <= lw + lz
  BY <1>1, <1>2
<1> QED BY <1>1, <1>3, <1>4, <1>5 DEF SameTail

\* x and y are b and w with the same behind them.
Grown(b, w, x, y) == \E m : Listed(m) /\ x = b \o m /\ y = w \o m

\* x is b with something behind it.
Extends(b, x) == \E m : Listed(m) /\ x = b \o m

\* Appending the same list.
LEMMA GrownBy ==
  ASSUME NEW b, NEW w, NEW m, Listed(m) PROVE Grown(b, w, b \o m, w \o m)
BY DEF Grown

\* Appending nothing.
LEMMA GrownNone ==
  ASSUME NEW b, NEW w, Listed(b), Listed(w) PROVE Grown(b, w, b, w)
<1>1. b = b \o << >>
  BY NoneJoined
<1>2. w = w \o << >>
  BY NoneJoined
<1>3. Listed(<< >>)
  BY NoneListed
<1> QED BY <1>1, <1>2, <1>3 DEF Grown

\* Both grow by as much, and so does what they have in common.
LEMMA GrownTail ==
  ASSUME NEW b, NEW w, NEW x, NEW y, Listed(b), Listed(w), Grown(b, w, x, y)
  PROVE  /\ Listed(x) /\ Listed(y) /\ Len(x) \in Nat /\ Len(y) \in Nat
         /\ Len(b) \in Nat /\ Len(w) \in Nat /\ Len(b) <= Len(x) /\ Len(w) <= Len(y)
         /\ Len(x) - Len(b) = Len(y) - Len(w)
         /\ \A c : SameTail(b, w, c) => SameTail(x, y, c + (Len(x) - Len(b)))
<1>1. PICK m : Listed(m) /\ x = b \o m /\ y = w \o m
  BY DEF Grown
<1>2. PICK lb \in Nat, lw \in Nat, n \in Nat : lb = Len(b) /\ lw = Len(w) /\ n = Len(m)
  BY <1>1, ListsJoin
<1>3. Listed(x) /\ Len(x) = lb + n /\ Listed(y) /\ Len(y) = lw + n
  BY <1>1, <1>2, ListsJoin
<1>4. n = Len(x) - lb /\ n = Len(y) - lw
  BY <1>3
<1>5. \A c : SameTail(b, w, c) => SameTail(x, y, c + n)
  BY <1>1, <1>2, TailGrows
<1>6. Len(x) \in Nat /\ Len(y) \in Nat /\ lb <= Len(x) /\ lw <= Len(y)
  BY <1>3
<1> QED BY <1>2, <1>3, <1>4, <1>5, <1>6

\* They may grow again.
LEMMA GrownMore ==
  ASSUME NEW b, NEW w, NEW x, NEW y, NEW u, NEW v, Listed(b), Listed(w),
         Grown(b, w, x, y), Grown(x, y, u, v)
  PROVE  Grown(b, w, u, v)
<1>1. PICK m : Listed(m) /\ x = b \o m /\ y = w \o m
  BY DEF Grown
<1>2. PICK n : Listed(n) /\ u = x \o n /\ v = y \o n
  BY DEF Grown
<1>3. Listed(m) /\ Listed(n)
  BY <1>1, <1>2
<1>4. Listed(m \o n)
  BY <1>3, ListsJoin
<1>5. (b \o m) \o n = b \o (m \o n)
  BY <1>3, JoinsJoin
<1>6. (w \o m) \o n = w \o (m \o n)
  BY <1>3, JoinsJoin
<1>7. u = b \o (m \o n) /\ v = w \o (m \o n)
  BY <1>1, <1>2, <1>5, <1>6
<1> QED BY <1>4, <1>7 DEF Grown

\* What grows extends.
LEMMA GrownExtends ==
  ASSUME NEW b, NEW w, NEW x, NEW y, Grown(b, w, x, y)
  PROVE  Extends(b, x) /\ Extends(w, y) /\ Grown(w, w, y, y)
BY DEF Grown, Extends

\* An extension of an extension.
LEMMA ExtendsMore ==
  ASSUME NEW b, NEW x, NEW u, Listed(b), Extends(b, x), Extends(x, u)
  PROVE  Extends(b, u)
<1>1. Grown(b, b, x, x) /\ Grown(x, x, u, u)
  BY DEF Grown, Extends
<1>2. Grown(b, b, u, u)
  BY <1>1, GrownMore
<1> QED BY <1>2, GrownExtends

\* What is extended is a list still, and as long at least.
LEMMA ExtendsListed ==
  ASSUME NEW b, NEW x, Listed(b), Extends(b, x)
  PROVE  Listed(x) /\ Len(b) \in Nat /\ Len(x) \in Nat /\ Len(b) <= Len(x) /\ IsPrefix(b, x)
<1>1. PICK m : Listed(m) /\ x = b \o m
  BY DEF Extends
<1>2. PICK lb \in Nat, n \in Nat : lb = Len(b) /\ n = Len(m)
  BY <1>1, ListsJoin
<1>3. Listed(x) /\ Len(x) = lb + n
  BY <1>1, <1>2, ListsJoin
<1>4. Len(x) \in Nat /\ lb <= Len(x)
  BY <1>3
<1>5. IsPrefix(b, x)
  <2>1. SubSeq(x, 1, lb + 0) = b \o SubSeq(m, 1, 0)
    <3>1. 0 \in 0..Len(m)
      BY <1>2
    <3> QED BY <1>1, <1>2, <3>1, JoinCut
  <2>2. lb + 0 = lb /\ SubSeq(m, 1, 0) = << >>
    <3>1. PICK S : m \in Seq(S)
      BY <1>1 DEF Listed
    <3> QED BY <3>1
  <2>3. b \o << >> = b
    BY NoneJoined
  <2>4. b = SubSeq(x, 1, lb)
    BY <2>1, <2>2, <2>3
  <2> QED BY <1>2, <1>4, <2>4 DEF IsPrefix
<1> QED BY <1>2, <1>3, <1>4, <1>5

\* Broken off at the same distance, they are grown less.
LEMMA GrownCut ==
  ASSUME NEW b, NEW w, NEW x, NEW y, Listed(b), Listed(w), Grown(b, w, x, y),
         NEW i \in Nat, NEW j \in Nat, Len(b) <= i, i <= Len(x), i - Len(b) = j - Len(w)
  PROVE  /\ Grown(b, w, SubSeq(x, 1, i), SubSeq(y, 1, j))
         /\ Extends(SubSeq(y, 1, j), y)
<1>1. PICK m : Listed(m) /\ x = b \o m /\ y = w \o m
  BY DEF Grown
<1>2. PICK lb \in Nat, lw \in Nat, l \in Nat : lb = Len(b) /\ lw = Len(w) /\ l = Len(m)
  BY <1>1, ListsJoin
<1>3. Len(x) = lb + l
  BY <1>1, <1>2, ListsJoin
<1>4. PICK n \in 0..l : n = i - lb /\ i = lb + n /\ j = lw + n
  <2>1. i - lb \in 0..l /\ i = lb + (i - lb) /\ j = lw + (i - lb)
    BY <1>2, <1>3
  <2> QED BY <2>1
<1>5. PICK p : p = SubSeq(m, 1, n)
  OBVIOUS
<1>6. Listed(m) /\ n \in 0..Len(m)
  BY <1>1, <1>2
<1>7. SubSeq(b \o m, 1, Len(b) + n) = b \o SubSeq(m, 1, n)
  BY <1>6, JoinCut
<1>8. SubSeq(w \o m, 1, Len(w) + n) = w \o SubSeq(m, 1, n)
  BY <1>6, JoinCut
<1>9. SubSeq(x, 1, i) = b \o p /\ SubSeq(y, 1, j) = w \o p
  BY <1>1, <1>2, <1>4, <1>5, <1>7, <1>8
<1>10. Listed(p) /\ Len(p) = n
  <2>1. 1 \in 1..(Len(m) + 1) /\ n \in (1 - 1)..Len(m)
    BY <1>2
  <2>2. Listed(SubSeq(m, 1, n)) /\ Len(SubSeq(m, 1, n)) = n - 1 + 1
    BY <1>1, <2>1, ListsCut
  <2> QED BY <1>5, <2>2
<1>11. PICK r : Listed(r) /\ m = p \o r
  <2>1. PICK r : r = SubSeq(m, n + 1, l)
    OBVIOUS
  <2>2. Listed(r)
    <3>1. n + 1 \in 1..(Len(m) + 1) /\ l \in ((n + 1) - 1)..Len(m)
      BY <1>2
    <3> QED BY <1>1, <2>1, <3>1, ListsCut
  <2>3. m = p \o r
    <3>1. PICK S : m \in Seq(S)
      BY <1>1 DEF Listed
    <3>2. n \in 1..(l - 1) => SubSeq(m, 1, n) \o SubSeq(m, n + 1, l) = SubSeq(m, 1, l)
      BY <1>2, <3>1, ConcatAdjacentSubSeq
    <3>3. SubSeq(m, 1, l) = m
      BY <1>2, <3>1, SubSeqFull
    <3>4. CASE n = 0
      <4>1. p = << >> /\ r = m
        BY <1>2, <1>5, <2>1, <3>1, <3>3, <3>4
      <4> QED BY <4>1, <1>1, NoneJoined
    <3>5. CASE n = l
      <4>1. p = m /\ r = << >>
        BY <1>2, <1>5, <2>1, <3>1, <3>3, <3>5
      <4> QED BY <4>1, <1>1, NoneJoined
    <3>6. CASE n # 0 /\ n # l
      <4>1. n \in 1..(l - 1)
        BY <1>2, <1>4, <3>6
      <4> QED BY <1>5, <2>1, <3>2, <3>3, <4>1
    <3> QED BY <3>4, <3>5, <3>6
  <2> QED BY <2>2, <2>3
<1>12. Grown(b, w, SubSeq(x, 1, i), SubSeq(y, 1, j))
  <2>1. Grown(b, w, b \o p, w \o p)
    BY <1>10, GrownBy
  <2> QED BY <1>9, <2>1
<1>13. Extends(SubSeq(y, 1, j), y)
  <2>1. (w \o p) \o r = w \o (p \o r)
    <3>1. Regroup(w, p, r)
      BY <1>10, <1>11, Regroups
    <3> QED BY <3>1 DEF Regroup
  <2>2. y = SubSeq(y, 1, j) \o r
    BY <1>1, <1>9, <1>11, <2>1
  <2> QED BY <1>11, <2>2 DEF Extends
<1> QED BY <1>12, <1>13

\* A match that begins in the common end appends the same to both.
LEMMA SameMatch ==
  ASSUME NEW b, NEW w, Listed(b), Listed(w), NEW c, SameTail(b, w, c),
         NEW offset \in Nat, 1 <= offset, offset <= c, NEW n \in Nat
  PROVE  Grown(b, w, append_match_from_history(b, Len(b) - offset, n),
                     append_match_from_history(w, Len(w) - offset, n))
<1>1. PICK lb \in Nat, lw \in Nat : lb = Len(b) /\ lw = Len(w)
  BY ListsJoin
<1>2. c \in Nat /\ c <= lb /\ c <= lw /\ \A i \in 0..(c - 1) : b[lb - i] = w[lw - i]
  BY <1>1 DEF SameTail
<1>3. PICK f : f = [i \in 1..n |-> b[(lb - offset) + 1 + ((i - 1) % offset)]]
  OBVIOUS
<1>4. PICK g : g = [i \in 1..n |-> w[(lw - offset) + 1 + ((i - 1) % offset)]]
  OBVIOUS
<1>5. \A i \in 1..n : f[i] = g[i]
  <2> TAKE i \in 1..n
  <2>1. PICK r : r = (i - 1) % offset
    OBVIOUS
  <2>2. r \in 0..(offset - 1)
    BY <1>2, <2>1
  <2>3. PICK j \in 0..(c - 1) : j = (offset - 1) - r
    BY <1>2, <2>2
  <2>4. (lb - offset) + 1 + r = lb - j /\ (lw - offset) + 1 + r = lw - j
    BY <1>1, <1>2, <2>2, <2>3
  <2>5. b[lb - j] = w[lw - j]
    BY <1>2, <2>3
  <2> QED BY <1>3, <1>4, <2>1, <2>4, <2>5
<1>6. f = g
  BY <1>3, <1>4, <1>5
<1>7. Listed(f)
  <2>1. f = [i \in 1..n |-> f[i]]
    BY <1>3
  <2> QED BY <2>1, ListsMade
<1>8. lb - (lb - offset) = offset /\ lw - (lw - offset) = offset
  BY <1>1, <1>2
<1>9. append_match_from_history(b, lb - offset, n) = b \o f
  BY <1>1, <1>3, <1>8 DEF append_match_from_history
<1>10. append_match_from_history(w, lw - offset, n) = w \o g
  BY <1>1, <1>4, <1>8 DEF append_match_from_history
<1>11. Grown(b, w, b \o f, w \o f)
  BY <1>7, GrownBy
<1> QED BY <1>1, <1>6, <1>9, <1>10, <1>11

\* So does one that begins in the dictionary, where both hold the frame from its start.
LEMMA SameDictionaryMatch ==
  ASSUME NEW b, NEW w, Listed(b), Listed(w), NEW h, SameTail(b, w, h),
         NEW fb \in Int, NEW fw \in Int, h = Len(b) - fb, h = Len(w) - fw,
         NEW D, Listed(D), NEW offset \in Nat, h < offset, offset <= Len(D) + h, NEW n \in Nat
  PROVE  Grown(b, w, append_match_from_dictionary_history(b, fb, D, offset, n),
                     append_match_from_dictionary_history(w, fw, D, offset, n))
<1>1. PICK lb \in Nat, lw \in Nat, dl \in Nat : lb = Len(b) /\ lw = Len(w) /\ dl = Len(D)
  <2>1. Len(b) \in Nat /\ Len(w) \in Nat /\ Len(D) \in Nat
    BY ListsJoin
  <2> QED BY <2>1
<1>2. h \in Nat /\ h = lb - fb /\ h = lw - fw
  BY <1>1 DEF SameTail
<1>3. PICK at \in Nat : at = dl + h - offset /\ at < dl
  <2>1. dl + h - offset \in Nat
    BY <1>1, <1>2
  <2>2. dl + h - offset < dl
    BY <1>1, <1>2
  <2> QED BY <2>1, <2>2
<1>4. PICK chunk \in Nat : chunk = Least(dl - at, n) /\ chunk <= n /\ at + chunk <= dl
                           /\ (n # chunk => chunk = dl - at)
  <2>1. PICK r \in Nat : r = dl - at /\ at + r = dl
    <3>1. dl - at \in Nat /\ at + (dl - at) = dl
      BY <1>1, <1>3
    <3> QED BY <3>1
  <2>2. /\ Least(r, n) \in Nat /\ Least(r, n) <= n /\ Least(r, n) <= r
        /\ (n # Least(r, n) => Least(r, n) = r)
    BY DEF Least
  <2>3. at + Least(r, n) <= dl
    <3>1. PICK c \in Nat : c = Least(r, n) /\ c <= r
      BY <2>2
    <3>2. at + c <= dl
      BY <2>1, <3>1
    <3> QED BY <3>1, <3>2
  <2> QED BY <2>1, <2>2, <2>3
<1>5. PICK p : p = SubSeq(D, at + 1, at + chunk)
  OBVIOUS
<1>6. Listed(p) /\ Len(p) = chunk
  <2>1. at + 1 \in 1..(dl + 1) /\ at + chunk \in ((at + 1) - 1)..dl
    <3>1. at + 1 \in 1..(dl + 1)
      BY <1>1, <1>3
    <3>2. at + chunk \in ((at + 1) - 1)..dl
      <4>1. /\ at + chunk \in Int /\ (at + 1) - 1 \in Int /\ dl \in Int
            /\ (at + 1) - 1 <= at + chunk
        OBVIOUS
      <4>2. at + chunk <= dl
        BY <1>4
      <4> QED BY <4>1, <4>2
    <3> QED BY <3>1, <3>2
  <2>2. PICK i, j : i = at + 1 /\ j = at + chunk
    OBVIOUS
  <2>3. i \in 1..(Len(D) + 1) /\ j \in (i - 1)..Len(D)
    BY <1>1, <2>1, <2>2
  <2>4. Listed(SubSeq(D, i, j)) /\ Len(SubSeq(D, i, j)) = j - i + 1
    BY <2>3, ListsCut
  <2>5. j - i + 1 = chunk
    BY <2>2
  <2> QED BY <1>5, <2>2, <2>4, <2>5
<1>7. PICK hb, hw : hb = b \o p /\ hw = w \o p
  OBVIOUS
<1>8. /\ Listed(hb) /\ Len(hb) = lb + chunk /\ Listed(hw) /\ Len(hw) = lw + chunk
      /\ SameTail(hb, hw, h + chunk) /\ Grown(b, w, hb, hw)
  BY <1>1, <1>6, <1>7, ListsJoin, TailGrows, GrownBy
<1>9. append_match_from_dictionary_history(b, fb, D, offset, n)
        = IF n = chunk THEN hb ELSE append_match_from_history(hb, fb, n - chunk)
  BY <1>1, <1>2, <1>3, <1>4, <1>5, <1>7 DEF append_match_from_dictionary_history
<1>10. append_match_from_dictionary_history(w, fw, D, offset, n)
        = IF n = chunk THEN hw ELSE append_match_from_history(hw, fw, n - chunk)
  BY <1>1, <1>2, <1>3, <1>4, <1>5, <1>7 DEF append_match_from_dictionary_history
<1>11. CASE n = chunk
  BY <1>8, <1>9, <1>10, <1>11
<1>12. CASE n # chunk
  <2>1. PICK k \in Nat : k = n - chunk
    BY <1>4
  <2>2. PICK c \in Nat : c = h + chunk /\ 1 <= c
    <3>1. chunk = dl - at
      BY <1>4, <1>12
    <3>2. dl - at >= 1
      BY <1>1, <1>3
    <3>3. h + chunk \in Nat /\ h + chunk >= 1
      <4>1. chunk \in Nat /\ chunk >= 1
        BY <1>4, <3>1, <3>2
      <4> QED BY <1>2, <4>1
    <3> QED BY <3>3
  <2>3. Len(hb) - c = fb /\ Len(hw) - c = fw
    <3>1. Len(hb) = lb + chunk /\ Len(hw) = lw + chunk /\ c = h + chunk
      BY <1>8, <2>2
    <3>2. PICK rb \in Int, rw \in Int, r \in Nat : rb = fb /\ rw = fw /\ r = chunk
      BY <1>4
    <3>3. lb + r - (h + r) = rb /\ lw + r - (h + r) = rw
      <4>1. h = lb - rb /\ h = lw - rw
        BY <1>2, <3>2
      <4> QED BY <4>1
    <3>4. Len(hb) - c = lb + r - (h + r) /\ Len(hw) - c = lw + r - (h + r)
      <4>1. Len(hb) = lb + r /\ Len(hw) = lw + r
        BY <3>1, <3>2
      <4>2. c = h + r
        BY <3>1, <3>2
      <4>3. PICK u \in Nat, v \in Nat, d \in Nat, e \in Nat :
              u = Len(hb) /\ v = Len(hw) /\ d = c /\ e = h
        <5>1. Len(hb) \in Nat /\ Len(hw) \in Nat
          BY <1>1, <1>2, <1>4, <3>2, <4>1
        <5>2. c \in Nat /\ h \in Nat
          BY <1>2, <2>2
        <5> QED BY <5>1, <5>2
      <4>4. u = lb + r /\ v = lw + r /\ d = e + r
        BY <4>1, <4>2, <4>3
      <4>5. u - d = lb + r - (e + r) /\ v - d = lw + r - (e + r)
        BY <4>4
      <4> QED BY <4>3, <4>5
    <3> QED BY <3>2, <3>3, <3>4
  <2>4. Grown(hb, hw, append_match_from_history(hb, fb, k), append_match_from_history(hw, fw, k))
    <3>1. Listed(hb) /\ Listed(hw) /\ SameTail(hb, hw, c) /\ c <= c
      <4>1. c <= c /\ c = h + chunk
        BY <2>2
      <4>2. SameTail(hb, hw, h + chunk)
        BY <1>8
      <4> QED BY <1>8, <4>1, <4>2
    <3>2. Grown(hb, hw, append_match_from_history(hb, Len(hb) - c, k),
                        append_match_from_history(hw, Len(hw) - c, k))
      BY <2>2, <3>1, SameMatch
    <3> QED BY <2>3, <3>2
  <2>5. Grown(b, w, append_match_from_history(hb, fb, k), append_match_from_history(hw, fw, k))
    BY <1>8, <2>4, GrownMore
  <2> QED BY <1>9, <1>10, <1>12, <2>1, <2>5
<1> QED BY <1>11, <1>12

\* A match appends (append_match_from_history).
LEMMA MatchExtends ==
  ASSUME NEW out, NEW from, NEW n \in Nat
  PROVE  Extends(out, append_match_from_history(out, from, n))
<1>1. PICK f : f = [i \in 1..n |-> out[from + 1 + ((i - 1) % (Len(out) - from))]]
  OBVIOUS
<1>2. Listed(f)
  <2>1. f = [i \in 1..n |-> f[i]]
    BY <1>1
  <2> QED BY <2>1, ListsMade
<1>3. append_match_from_history(out, from, n) = out \o f
  BY <1>1 DEF append_match_from_history
<1> QED BY <1>2, <1>3 DEF Extends

\* The beginning of a list is the same in what extends it, and extended by it.
LEMMA BeginningStays ==
  ASSUME NEW a, Listed(a), NEW x, Extends(a, x), NEW v \in 0..Len(a)
  PROVE  /\ SubSeq(x, 1, v) = SubSeq(a, 1, v)
         /\ Listed(SubSeq(a, 1, v)) /\ Len(SubSeq(a, 1, v)) = v
         /\ Extends(SubSeq(a, 1, v), a) /\ Extends(SubSeq(a, 1, v), x)
<1>1. PICK m : Listed(m) /\ x = a \o m
  BY DEF Extends
<1>2. PICK la \in Nat, lm \in Nat : la = Len(a) /\ lm = Len(m)
  BY <1>1, ListsJoin
<1>3. Listed(x) /\ Len(x) = la + lm
  BY <1>1, <1>2, ListsJoin
<1>4. 1 \in 1..(Len(a) + 1) /\ v \in (1 - 1)..Len(a) /\ 1 \in 1..(Len(x) + 1) /\ v \in (1 - 1)..Len(x)
  BY <1>2, <1>3
<1>5. v - 1 + 1 = v
  BY <1>2
<1>6. Listed(SubSeq(a, 1, v)) /\ Len(SubSeq(a, 1, v)) = v
  BY <1>4, <1>5, ListsCut
<1>7. Listed(SubSeq(x, 1, v)) /\ Len(SubSeq(x, 1, v)) = v
  BY <1>3, <1>4, <1>5, ListsCut
<1>8. ASSUME NEW i \in 1..v PROVE SubSeq(x, 1, v)[i] = SubSeq(a, 1, v)[i]
  <2>1. i \in 1..(v - 1 + 1) /\ 1 + i - 1 = i /\ i <= la /\ i \in 1..(la + lm)
    BY <1>2
  <2>2. SubSeq(a, 1, v)[i] = a[1 + i - 1]
    BY <1>4, <2>1, CutAt
  <2>3. SubSeq(x, 1, v)[i] = x[1 + i - 1]
    BY <1>3, <1>4, <2>1, CutAt
  <2>4. (a \o m)[i] = a[i]
    BY <1>1, <1>2, <2>1, JoinAt
  <2> QED BY <1>1, <2>1, <2>2, <2>3, <2>4
<1>9. SubSeq(x, 1, v) = SubSeq(a, 1, v)
  BY <1>6, <1>7, <1>8, SameLists
<1>10. Extends(SubSeq(a, 1, v), a)
  <2>1. << >> \o a = a /\ Listed(<< >>) /\ Len(<< >>) = 0
    BY NoneJoined, NoneListed
  <2>2. Grown(<< >>, << >>, a, a)
    BY <2>1 DEF Grown
  <2>3. v \in Nat /\ Len(<< >>) <= v /\ v <= Len(a) /\ v - Len(<< >>) = v - Len(<< >>)
    BY <1>2, <2>1
  <2> QED BY <2>1, <2>2, <2>3, GrownCut
<1>11. Extends(SubSeq(a, 1, v), x)
  BY <1>6, <1>10, ExtendsMore
<1> QED BY <1>6, <1>9, <1>10, <1>11

-----------------------------------------------------------------------------
\* One block in two buffers.

\* b holds the frame from f, or its last bytes, more than a window of them; w holds it from g.
History(b, f, w, g, window) ==
  /\ Listed(b) /\ Listed(w) /\ f \in Nat /\ g \in Nat
  /\ SameTail(b, w, Len(b) - f) /\ Len(b) - f <= Len(w) - g
  /\ Len(b) - f = Len(w) - g \/ Len(b) - f > window

\* A cap on what b may grow to that is no wider than one on w, and no narrower if same.
Limits(same, l, b, m, w) ==
  \A n \in Nat : /\ OverCap(m, Len(w) + n) => OverCap(l, Len(b) + n)
                 /\ same /\ OverCap(l, Len(b) + n) => OverCap(m, Len(w) + n)

\* A block that is being decoded into b and into w.
Alike(same, blk, b, ref, w) ==
  /\ blk.window_size = ref.window_size /\ blk.block_size_max = ref.block_size_max
  /\ blk.dictionary = ref.dictionary /\ blk.literals = ref.literals
  /\ Len(b) - blk.start = Len(w) - ref.start
  /\ History(b, blk.frame_start, w, ref.frame_start, blk.window_size)
  /\ Limits(same, blk.limit, b, ref.limit, w)

\* Both may grow by the same.
LEMMA HistoryGrown ==
  ASSUME NEW b, NEW w, NEW f, NEW g, NEW window \in Nat, History(b, f, w, g, window),
         NEW x, NEW y, Grown(b, w, x, y)
  PROVE  History(x, f, y, g, window)
<1>1. PICK lb \in Nat, lw \in Nat, lx \in Nat, ly \in Nat :
        /\ lb = Len(b) /\ lw = Len(w) /\ lx = Len(x) /\ ly = Len(y)
        /\ lb <= lx /\ lw <= ly /\ lx - lb = ly - lw
  <2>1. Listed(b) /\ Listed(w)
    BY DEF History
  <2>2. /\ Len(b) \in Nat /\ Len(w) \in Nat /\ Len(x) \in Nat /\ Len(y) \in Nat
        /\ Len(b) <= Len(x) /\ Len(w) <= Len(y) /\ Len(x) - Len(b) = Len(y) - Len(w)
    BY <2>1, GrownTail
  <2> QED BY <2>2
<1>2. f \in Nat /\ g \in Nat /\ SameTail(b, w, lb - f) /\ lb - f <= lw - g
      /\ (lb - f = lw - g \/ lb - f > window)
  BY <1>1 DEF History
<1>3. Listed(x) /\ Listed(y)
  BY GrownTail DEF History
<1>4. SameTail(x, y, lx - f)
  <2>1. SameTail(x, y, (lb - f) + (lx - lb))
    BY <1>1, <1>2, GrownTail DEF History
  <2>2. (lb - f) + (lx - lb) = lx - f
    BY <1>1, <1>2
  <2> QED BY <2>1, <2>2
<1>5. lx - f <= ly - g /\ (lx - f = ly - g \/ lx - f > window)
  <2>1. PICK e \in Nat, h \in Nat, o \in Nat : e = lx - lb /\ e = ly - lw /\ h = f /\ o = g
    <3>1. lx - lb \in Nat /\ f \in Nat /\ g \in Nat
      BY <1>1, <1>2
    <3> QED BY <1>1, <3>1
  <2>2. lx = lb + e /\ ly = lw + e
    BY <1>1, <2>1
  <2>3. lb - h <= lw - o /\ (lb - h = lw - o \/ lb - h > window)
    BY <1>2, <2>1
  <2>4. lx - h <= ly - o
    BY <1>1, <2>1, <2>2, <2>3
  <2>5. CASE lb - h = lw - o
    <3>1. lx - h = ly - o
      BY <2>2, <2>5
    <3> QED BY <2>1, <2>4, <3>1
  <2>6. CASE lb - h > window
    <3>1. lx - h > window
      BY <1>1, <2>1, <2>2, <2>6
    <3> QED BY <2>1, <2>4, <3>1
  <2> QED BY <2>3, <2>5, <2>6
<1> QED BY <1>1, <1>2, <1>3, <1>4, <1>5 DEF History

\* And the limits stay what they are to each other.
LEMMA LimitsGrown ==
  ASSUME NEW same \in BOOLEAN, NEW l, NEW m, NEW b, NEW w, Listed(b), Listed(w), Limits(same, l, b, m, w),
         NEW x, NEW y, Grown(b, w, x, y)
  PROVE  Limits(same, l, x, m, y)
<1>1. PICK lb \in Nat, lw \in Nat, lx \in Nat, ly \in Nat :
        /\ lb = Len(b) /\ lw = Len(w) /\ lx = Len(x) /\ ly = Len(y)
        /\ lb <= lx /\ lw <= ly /\ lx - lb = ly - lw
  BY GrownTail
<1>2. SUFFICES ASSUME NEW n \in Nat
               PROVE  /\ OverCap(m, ly + n) => OverCap(l, lx + n)
                      /\ same /\ OverCap(l, lx + n) => OverCap(m, ly + n)
  BY <1>1 DEF Limits
<1>3. PICK k \in Nat : k = (lx - lb) + n /\ lx + n = lb + k /\ ly + n = lw + k
  <2>1. (lx - lb) + n \in Nat /\ lx + n = lb + ((lx - lb) + n) /\ ly + n = lw + ((lx - lb) + n)
    BY <1>1
  <2> QED BY <2>1
<1>4. /\ OverCap(m, Len(w) + k) => OverCap(l, Len(b) + k)
      /\ same /\ OverCap(l, Len(b) + k) => OverCap(m, Len(w) + k)
  BY DEF Limits
<1> QED BY <1>1, <1>3, <1>4

LEMMA AlikeGrown ==
  ASSUME NEW same \in BOOLEAN, NEW blk, GoodBlk(blk), NEW ref, GoodBlk(ref), NEW b, NEW w,
         Alike(same, blk, b, ref, w), NEW x, NEW y, Grown(b, w, x, y)
  PROVE  Alike(same, blk, x, ref, y)
<1>1. PICK window \in Nat : window = blk.window_size
  BY DEF GoodBlk
<1>2. Listed(b) /\ Listed(w) /\ History(b, blk.frame_start, w, ref.frame_start, window)
  BY <1>1 DEF Alike, History
<1>3. History(x, blk.frame_start, y, ref.frame_start, window)
  BY <1>2, HistoryGrown
<1>4. Limits(same, blk.limit, x, ref.limit, y)
  BY <1>2, LimitsGrown DEF Alike
<1>5. Len(x) - blk.start = Len(y) - ref.start
  <2>1. Len(b) \in Nat /\ Len(w) \in Nat /\ Len(x) \in Nat /\ Len(y) \in Nat
        /\ Len(x) - Len(b) = Len(y) - Len(w)
    BY <1>2, GrownTail
  <2>2. PICK s \in Nat, t \in Nat : s = blk.start /\ t = ref.start
    BY DEF GoodBlk
  <2>3. Len(b) - s = Len(w) - t
    BY <2>2 DEF Alike
  <2>4. PICK lb \in Nat, lw \in Nat : lb = Len(b) /\ lw = Len(w)
    BY <2>1
  <2>5. PICK lx \in Nat, ly \in Nat : lx = Len(x) /\ ly = Len(y)
    BY <2>1
  <2>6. lx - lb = ly - lw /\ lb - s = lw - t
    BY <2>1, <2>3, <2>4, <2>5
  <2>7. lx - s = ly - t
    <3>1. (lx - lb) + (lb - s) = (ly - lw) + (lw - t)
      BY <2>6
    <3>2. (lx - lb) + (lb - s) = lx - s /\ (ly - lw) + (lw - t) = ly - t
      OBVIOUS
    <3> QED BY <3>1, <3>2
  <2> QED BY <2>2, <2>5, <2>7
<1> QED BY <1>1, <1>3, <1>4, <1>5 DEF Alike

\* The same budget, or one that b's cap breaks first.
LEMMA SameBudget ==
  ASSUME NEW same \in BOOLEAN, NEW blk, GoodBlk(blk), NEW ref, GoodBlk(ref), NEW b, NEW w,
         Alike(same, blk, b, ref, w), NEW n \in Nat
  PROVE  \/ BudgetError(blk, b, n) = BudgetError(ref, w, n)
         \/ ~same /\ BudgetError(blk, b, n) = "OutputSizeTooLarge"
<1>1. PICK lb \in Nat, lw \in Nat : lb = Len(b) /\ lw = Len(w)
  <2>1. Len(b) \in Nat /\ Len(w) \in Nat
    BY ListsJoin DEF Alike, History
  <2> QED BY <2>1
<1>2. lb - blk.start + n = lw - ref.start + n /\ blk.block_size_max = ref.block_size_max
  BY <1>1 DEF Alike
<1>3. /\ OverCap(ref.limit, lw + n) => OverCap(blk.limit, lb + n)
      /\ same /\ OverCap(blk.limit, lb + n) => OverCap(ref.limit, lw + n)
  BY <1>1 DEF Alike, Limits
<1>4. BudgetError(blk, b, n) = IF lb - blk.start + n > blk.block_size_max THEN "Corruption"
                               ELSE IF OverCap(blk.limit, lb + n) THEN "OutputSizeTooLarge"
                               ELSE "Ok"
  BY <1>1 DEF BudgetError
<1>5. BudgetError(ref, w, n) = IF lw - ref.start + n > ref.block_size_max THEN "Corruption"
                               ELSE IF OverCap(ref.limit, lw + n) THEN "OutputSizeTooLarge"
                               ELSE "Ok"
  BY <1>1 DEF BudgetError
<1> QED BY <1>2, <1>3, <1>4, <1>5

\* A match is read from the same place.
LEMMA SameSource ==
  ASSUME NEW b, NEW w, NEW f, NEW g, NEW window \in Nat, History(b, f, w, g, window),
         NEW dict_len, NEW offset \in Nat
  PROVE  match_source(Len(b) - f, window, dict_len, offset)
           = match_source(Len(w) - g, window, dict_len, offset)
<1>1. PICK h \in Nat, r \in Nat : h = Len(b) - f /\ r = Len(w) - g
  <2>1. Len(b) \in Nat /\ Len(w) \in Nat /\ f \in Nat /\ g \in Nat
        /\ Len(b) - f \in Nat /\ Len(b) - f <= Len(w) - g
    BY ListsJoin DEF History, SameTail
  <2>2. Len(w) - g \in Nat
    BY <2>1
  <2> QED BY <2>1, <2>2
<1>2. h <= r /\ (h = r \/ h > window)
  BY <1>1 DEF History
<1>3. CASE h = r
  BY <1>1, <1>3
<1>4. CASE h > window /\ r > window
  BY <1>1, <1>2, <1>4 DEF match_source
<1> QED BY <1>2, <1>3, <1>4

\* What one sequence makes of both.
Moved(x, y, p, q) ==
  /\ Grown(x.out, y.out, p.out, q.out)
  /\ p.reps = q.reps /\ p.cursor = q.cursor /\ p.result = q.result
  /\ \/ p.visible = x.visible /\ q.visible = y.visible
     \/ p.visible = Len(p.out) /\ q.visible = Len(q.out)

\* What execute_sequence works with.
Cursor(acc, s)      == acc.cursor + s.ll
Resolved(acc, s)    == execute_offset(acc.reps, s.ll = 0, s.value)
Copied(blk, acc, s) == acc.out \o SubSeq(blk.literals, acc.cursor + 1, Cursor(acc, s))
DictLen(blk)        == IF blk.dictionary.present THEN Len(blk.dictionary.content) ELSE None
Source(blk, acc, s) ==
  IF Resolved(acc, s).offset = BadOffset THEN "corrupt"
  ELSE match_source(Len(Copied(blk, acc, s)) - blk.frame_start, blk.window_size, DictLen(blk),
                    Resolved(acc, s).offset)
Near(blk, acc, s) ==
  append_match_from_history(Copied(blk, acc, s),
                            Len(Copied(blk, acc, s)) - Resolved(acc, s).offset, s.ml)
Served(blk, acc, s) ==
  append_match_from_dictionary_history(Copied(blk, acc, s), blk.frame_start,
                                       blk.dictionary.content, Resolved(acc, s).offset, s.ml)

\* What the loop carries, put together.
Carried(out, reps, cursor, visible, verdict) ==
  [out |-> out, reps |-> reps, cursor |-> cursor, visible |-> visible, result |-> verdict]

LEMMA GoodIsCarried ==
  ASSUME NEW blk, NEW acc, GoodAcc(blk, acc)
  PROVE  acc = Carried(acc.out, acc.reps, acc.cursor, acc.visible, acc.result)
BY DEF Carried, GoodAcc

\* What execute_sequence makes of a loop that has not failed.
LEMMA SequenceMade ==
  ASSUME NEW blk, NEW acc, GoodAcc(blk, acc), acc.result = "Ok", NEW s
  PROVE  LET next   == execute_sequence(blk, acc, s)
             budget == BudgetError(blk, acc.out, s.ll + s.ml)
             source == Source(blk, acc, s)
             fails(e) == Carried(acc.out, acc.reps, acc.cursor, acc.visible, e)
         IN  /\ source \in {"buffer", "dictionary", "corrupt"}
             /\ Cursor(acc, s) > Len(blk.literals) => next = fails("Corruption")
             /\ ~(Cursor(acc, s) > Len(blk.literals)) /\ budget # "Ok" => next = fails(budget)
             /\ ~(Cursor(acc, s) > Len(blk.literals)) /\ budget = "Ok" =>
                  /\ source = "corrupt" => next = fails("Corruption")
                  /\ source = "buffer" =>
                       next = Carried(Near(blk, acc, s), Resolved(acc, s).reps, Cursor(acc, s),
                                      acc.visible, "Ok")
                  /\ source = "dictionary" =>
                       next = Carried(Served(blk, acc, s), Resolved(acc, s).reps, Cursor(acc, s),
                                      Len(Served(blk, acc, s)), "Ok")
<1>1. PICK next, budget, source, near, served, reps, cursor :
        /\ next = execute_sequence(blk, acc, s) /\ budget = BudgetError(blk, acc.out, s.ll + s.ml)
        /\ source = Source(blk, acc, s) /\ near = Near(blk, acc, s)
        /\ served = Served(blk, acc, s) /\ reps = Resolved(acc, s).reps
        /\ cursor = Cursor(acc, s)
  OBVIOUS
<1>2. next = IF acc.result # "Ok" THEN acc
             ELSE IF cursor > Len(blk.literals) THEN [acc EXCEPT !.result = "Corruption"]
             ELSE IF budget # "Ok" THEN [acc EXCEPT !.result = budget]
             ELSE CASE source = "buffer" ->
                         [acc EXCEPT !.out = near, !.reps = reps, !.cursor = cursor]
                    [] source = "dictionary" ->
                         [[acc EXCEPT !.out = served, !.reps = reps, !.cursor = cursor]
                            EXCEPT !.visible = Len(served)]
                    [] source = "corrupt" -> [acc EXCEPT !.result = "Corruption"]
  BY <1>1 DEF execute_sequence, Source, Near, Served, Resolved, Cursor, Copied, DictLen
<1>3. source \in {"buffer", "dictionary", "corrupt"}
  BY <1>1 DEF match_source, Source
<1>4. acc = Carried(acc.out, acc.reps, acc.cursor, acc.visible, "Ok")
  BY GoodIsCarried
<1>5. \A e : [acc EXCEPT !.result = e]
               = Carried(acc.out, acc.reps, acc.cursor, acc.visible, e)
  BY <1>4 DEF Carried
<1>6. [acc EXCEPT !.out = near, !.reps = reps, !.cursor = cursor]
        = Carried(near, reps, cursor, acc.visible, "Ok")
  <2>1. PICK o, r, c, v : acc = Carried(o, r, c, v, "Ok") /\ v = acc.visible
    BY <1>4
  <2>2. PICK a : a = [acc EXCEPT !.out = near]
    OBVIOUS
  <2>3. a = Carried(near, r, c, v, "Ok")
    BY <2>1, <2>2 DEF Carried
  <2>4. [acc EXCEPT !.out = near, !.reps = reps, !.cursor = cursor]
          = [[a EXCEPT !.reps = reps] EXCEPT !.cursor = cursor]
    BY <2>1, <2>2 DEF Carried
  <2>5. [a EXCEPT !.reps = reps] = Carried(near, reps, c, v, "Ok")
    BY <2>3 DEF Carried
  <2>6. [[a EXCEPT !.reps = reps] EXCEPT !.cursor = cursor] = Carried(near, reps, cursor, v, "Ok")
    <3>1. PICK e : e = [a EXCEPT !.reps = reps]
      OBVIOUS
    <3>2. e = Carried(near, reps, c, v, "Ok")
      BY <2>5, <3>1
    <3>3. [e EXCEPT !.cursor = cursor] = Carried(near, reps, cursor, v, "Ok")
      BY <3>2 DEF Carried
    <3> QED BY <3>1, <3>3
  <2> QED BY <2>1, <2>4, <2>6
<1>7. [[acc EXCEPT !.out = served, !.reps = reps, !.cursor = cursor] EXCEPT !.visible = Len(served)]
        = Carried(served, reps, cursor, Len(served), "Ok")
  <2>1. PICK b : b = [acc EXCEPT !.out = served, !.reps = reps, !.cursor = cursor]
    OBVIOUS
  <2>2. b = Carried(served, reps, cursor, acc.visible, "Ok")
    BY <1>4, <2>1 DEF Carried
  <2>3. [b EXCEPT !.visible = Len(served)] = Carried(served, reps, cursor, Len(served), "Ok")
    BY <2>2 DEF Carried
  <2> QED BY <2>1, <2>3
<1>8. cursor > Len(blk.literals) => next = [acc EXCEPT !.result = "Corruption"]
  BY <1>2
<1>9. ~(cursor > Len(blk.literals)) /\ budget # "Ok" => next = [acc EXCEPT !.result = budget]
  BY <1>2
<1>10. ~(cursor > Len(blk.literals)) /\ budget = "Ok" =>
         /\ source = "corrupt" => next = [acc EXCEPT !.result = "Corruption"]
         /\ source = "buffer" =>
              next = [acc EXCEPT !.out = near, !.reps = reps, !.cursor = cursor]
         /\ source = "dictionary" =>
              next = [[acc EXCEPT !.out = served, !.reps = reps, !.cursor = cursor]
                        EXCEPT !.visible = Len(served)]
  BY <1>2
<1> QED BY <1>1, <1>3, <1>5, <1>6, <1>7, <1>8, <1>9, <1>10

\* Both loops stop with the same error.
LEMMA BothFail ==
  ASSUME NEW blk, GoodBlk(blk), NEW ref, GoodBlk(ref), NEW x, GoodAcc(blk, x), NEW y, GoodAcc(ref, y),
         x.reps = y.reps, x.cursor = y.cursor, NEW e,
         NEW p, p = Carried(x.out, x.reps, x.cursor, x.visible, e),
         NEW q, q = Carried(y.out, y.reps, y.cursor, y.visible, e)
  PROVE  Moved(x, y, p, q)
<1>1. p.out = x.out /\ p.reps = x.reps /\ p.cursor = x.cursor /\ p.visible = x.visible /\ p.result = e
  BY DEF Carried
<1>2. q.out = y.out /\ q.reps = y.reps /\ q.cursor = y.cursor /\ q.visible = y.visible /\ q.result = e
  BY DEF Carried
<1>3. Grown(x.out, y.out, x.out, y.out)
  BY GrownNone DEF GoodAcc
<1> QED BY <1>1, <1>2, <1>3 DEF Moved

\* Both go on, with the same behind them.
LEMMA BothMove ==
  ASSUME NEW x, NEW y, NEW o, NEW u, Grown(x.out, y.out, o, u), NEW reps, NEW cursor, NEW v, NEW w,
         (v = x.visible /\ w = y.visible) \/ (v = Len(o) /\ w = Len(u)),
         NEW p, p = Carried(o, reps, cursor, v, "Ok"), NEW q, q = Carried(u, reps, cursor, w, "Ok")
  PROVE  Moved(x, y, p, q)
<1>1. p.out = o /\ p.reps = reps /\ p.cursor = cursor /\ p.visible = v /\ p.result = "Ok"
  BY DEF Carried
<1>2. q.out = u /\ q.reps = reps /\ q.cursor = cursor /\ q.visible = w /\ q.result = "Ok"
  BY DEF Carried
<1> QED BY <1>1, <1>2 DEF Moved

\* The literals a sequence copies.
LEMMA LiteralsCut ==
  ASSUME NEW blk, GoodBlk(blk), NEW acc, GoodAcc(blk, acc), NEW s \in [ll : Nat, ml : Nat, value : Nat],
         ~(Cursor(acc, s) > Len(blk.literals))
  PROVE  Listed(SubSeq(blk.literals, acc.cursor + 1, Cursor(acc, s)))
<1>1. PICK m \in Nat, c \in Nat, ll \in Nat : m = Len(blk.literals) /\ c = acc.cursor /\ ll = s.ll
  <2>1. Len(blk.literals) \in Nat /\ acc.cursor \in Nat /\ s.ll \in Nat
    BY ListsJoin DEF GoodBlk, GoodAcc
  <2> QED BY <2>1
<1>2. c <= m /\ c + ll <= m
  BY <1>1 DEF Cursor, GoodAcc
<1>3. PICK i \in Nat, j \in Nat : i = c + 1 /\ j = c + ll
  BY <1>1
<1>4. i \in 1..(m + 1) /\ j \in (i - 1)..m
  BY <1>1, <1>2, <1>3
<1>5. Listed(blk.literals)
  BY DEF GoodBlk
<1>6. Listed(SubSeq(blk.literals, i, j))
  BY <1>1, <1>4, <1>5, ListsCut
<1> QED BY <1>1, <1>3, <1>6 DEF Cursor

\* A sequence whose match is in the buffer appends the same to both.
LEMMA NearAlike ==
  ASSUME NEW blk, GoodBlk(blk), NEW ref, GoodBlk(ref), NEW x, NEW y, NEW s \in [ll : Nat, ml : Nat, value : Nat],
         Resolved(x, s) = Resolved(y, s), Resolved(x, s).offset \in Nat,
         NEW same \in BOOLEAN, Alike(same, blk, Copied(blk, x, s), ref, Copied(ref, y, s)),
         Source(blk, x, s) = "buffer"
  PROVE  Grown(Copied(blk, x, s), Copied(ref, y, s), Near(blk, x, s), Near(ref, y, s))
<1>1. PICK offset \in Nat, n \in Nat : offset = Resolved(x, s).offset /\ n = s.ml
  <2>1. s.ml \in Nat
    OBVIOUS
  <2> QED BY <2>1
<1>2. PICK b, w :
        /\ b = Copied(blk, x, s) /\ w = Copied(ref, y, s) /\ offset = Resolved(x, s).offset
        /\ n = s.ml
  BY <1>1
<1>3. PICK f \in Nat, g \in Nat, window \in Nat :
        f = blk.frame_start /\ g = ref.frame_start /\ window = blk.window_size
  BY DEF Alike, History, GoodBlk
<1>4. History(b, f, w, g, window)
  BY <1>2, <1>3 DEF Alike
<1>5. offset # BadOffset
      /\ match_source(Len(b) - f, window, DictLen(blk), offset) = "buffer"
  BY <1>2, <1>3 DEF Source
<1>6. offset <= Len(b) - f
  BY <1>5 DEF match_source
<1>7. 1 <= offset
  BY <1>5 DEF BadOffset
<1>8. Listed(b) /\ Listed(w) /\ SameTail(b, w, Len(b) - f)
  BY <1>4 DEF History
<1>9. Grown(b, w, append_match_from_history(b, Len(b) - offset, n),
                  append_match_from_history(w, Len(w) - offset, n))
  BY <1>6, <1>7, <1>8, SameMatch
<1> QED BY <1>2, <1>9 DEF Near

\* So does one whose match begins in the dictionary.
LEMMA ServedAlike ==
  ASSUME NEW blk, GoodBlk(blk), NEW ref, GoodBlk(ref), NEW x, NEW y, NEW s \in [ll : Nat, ml : Nat, value : Nat],
         Resolved(x, s) = Resolved(y, s), Resolved(x, s).offset \in Nat,
         NEW same \in BOOLEAN, Alike(same, blk, Copied(blk, x, s), ref, Copied(ref, y, s)),
         Source(blk, x, s) = "dictionary"
  PROVE  Grown(Copied(blk, x, s), Copied(ref, y, s), Served(blk, x, s), Served(ref, y, s))
<1>1. PICK offset \in Nat, n \in Nat : offset = Resolved(x, s).offset /\ n = s.ml
  <2>1. s.ml \in Nat
    OBVIOUS
  <2> QED BY <2>1
<1>2. PICK b, w, D :
        /\ b = Copied(blk, x, s) /\ w = Copied(ref, y, s) /\ offset = Resolved(x, s).offset
        /\ n = s.ml /\ D = blk.dictionary.content
  BY <1>1
<1>3. PICK f \in Nat, g \in Nat, window \in Nat :
        f = blk.frame_start /\ g = ref.frame_start /\ window = blk.window_size
  BY DEF Alike, History, GoodBlk
<1>4. History(b, f, w, g, window)
  BY <1>2, <1>3 DEF Alike
<1>5. PICK h \in Nat : h = Len(b) - f
  BY <1>4 DEF History, SameTail
<1>6. PICK dl : dl = DictLen(blk)
  OBVIOUS
<1>7. offset # BadOffset /\ match_source(h, window, dl, offset) = "dictionary"
  BY <1>2, <1>3, <1>5, <1>6 DEF Source
<1>8. ~(offset <= h /\ offset <= window) /\ dl # None /\ ~(h > window) /\ ~(offset > dl + h)
  BY <1>7 DEF match_source
<1>9. blk.dictionary.present /\ dl = Len(D) /\ D \in Seq(Nat)
  BY <1>2, <1>6, <1>8 DEF DictLen, GoodBlk
<1>10. Listed(D) /\ Len(D) \in Nat
  BY <1>9 DEF Listed
<1>11. offset <= Len(D) + h
  BY <1>8, <1>9, <1>10
<1>12. h < offset
  BY <1>8
<1>13. h = Len(w) - g
  BY <1>4, <1>5, <1>8 DEF History
<1>14. Listed(b) /\ Listed(w) /\ SameTail(b, w, h)
  BY <1>4, <1>5 DEF History
<1>15. Grown(b, w, append_match_from_dictionary_history(b, f, D, offset, n),
                   append_match_from_dictionary_history(w, g, D, offset, n))
  <2>1. f \in Int /\ g \in Int
    OBVIOUS
  <2> QED BY <1>5, <1>10, <1>11, <1>12, <1>13, <1>14, <2>1, SameDictionaryMatch
<1>16. D = ref.dictionary.content
  BY <1>2 DEF Alike
<1> QED BY <1>2, <1>3, <1>15, <1>16 DEF Served

\* The literals of a sequence, copied behind both.
LEMMA CopiedAlike ==
  ASSUME NEW blk, GoodBlk(blk), NEW ref, GoodBlk(ref), NEW x, GoodAcc(blk, x), NEW y, GoodAcc(ref, y),
         x.cursor = y.cursor, NEW s \in [ll : Nat, ml : Nat, value : Nat],
         ~(Cursor(x, s) > Len(blk.literals)), blk.literals = ref.literals
  PROVE  /\ Grown(x.out, y.out, Copied(blk, x, s), Copied(ref, y, s))
         /\ Cursor(x, s) = Cursor(y, s)
<1>1. PICK z : z = SubSeq(blk.literals, x.cursor + 1, Cursor(x, s))
  OBVIOUS
<1>2. Cursor(x, s) = Cursor(y, s)
  BY DEF Cursor
<1>3. Copied(blk, x, s) = x.out \o z /\ Copied(ref, y, s) = y.out \o z
  BY <1>1, <1>2 DEF Copied
<1>4. Listed(z)
  BY <1>1, LiteralsCut
<1> QED BY <1>2, <1>3, <1>4, GrownBy

\* The match of a sequence is read from the same place in both.
LEMMA SourceAlike ==
  ASSUME NEW blk, GoodBlk(blk), NEW ref, NEW x, NEW y, NEW s,
         Resolved(x, s) = Resolved(y, s), Resolved(x, s).offset \in Nat,
         NEW same \in BOOLEAN, Alike(same, blk, Copied(blk, x, s), ref, Copied(ref, y, s))
  PROVE  Source(blk, x, s) = Source(ref, y, s)
<1>1. PICK window \in Nat, offset \in Nat :
        window = blk.window_size /\ offset = Resolved(x, s).offset
  <2>1. blk.window_size \in Nat
    BY DEF GoodBlk
  <2> QED BY <2>1
<1>2. PICK b, w, f, g, dl :
        /\ b = Copied(blk, x, s) /\ w = Copied(ref, y, s) /\ f = blk.frame_start
        /\ g = ref.frame_start /\ dl = DictLen(blk) /\ window = blk.window_size
        /\ offset = Resolved(x, s).offset
  BY <1>1
<1>3. History(b, f, w, g, window) /\ window = ref.window_size /\ dl = DictLen(ref)
  BY <1>2 DEF Alike, DictLen
<1>4. match_source(Len(b) - f, window, dl, offset) = match_source(Len(w) - g, window, dl, offset)
  BY <1>3, SameSource
<1>5. Source(blk, x, s) = IF offset = BadOffset THEN "corrupt"
                          ELSE match_source(Len(b) - f, window, dl, offset)
  BY <1>2 DEF Source
<1>6. Source(ref, y, s) = IF offset = BadOffset THEN "corrupt"
                          ELSE match_source(Len(w) - g, window, dl, offset)
  BY <1>2, <1>3 DEF Source
<1> QED BY <1>4, <1>5, <1>6

\* One sequence does the same to both, or stops at b's cap.
LEMMA SequenceAlike ==
  ASSUME NEW same \in BOOLEAN, NEW blk, GoodBlk(blk), NEW ref, GoodBlk(ref),
         NEW x, GoodAcc(blk, x), NEW y, GoodAcc(ref, y), x.result = "Ok", y.result = "Ok",
         x.reps = y.reps, x.cursor = y.cursor, Alike(same, blk, x.out, ref, y.out),
         NEW s \in [ll : Nat, ml : Nat, value : Nat],
         NEW p, p = execute_sequence(blk, x, s), NEW q, q = execute_sequence(ref, y, s)
  PROVE  \/ Moved(x, y, p, q)
         \/ ~same /\ p = Carried(x.out, x.reps, x.cursor, x.visible, "OutputSizeTooLarge")
<1>1. PICK bx, by, sx, sy :
        /\ bx = BudgetError(blk, x.out, s.ll + s.ml) /\ by = BudgetError(ref, y.out, s.ll + s.ml)
        /\ sx = Source(blk, x, s) /\ sy = Source(ref, y, s)
  OBVIOUS
<1>2. PICK res, cursor, m : res = Resolved(x, s) /\ cursor = Cursor(x, s) /\ m = Len(blk.literals)
  OBVIOUS
<1>3. res = Resolved(y, s) /\ cursor = Cursor(y, s) /\ m = Len(ref.literals)
      /\ blk.literals = ref.literals
  BY <1>2 DEF Resolved, Cursor, Alike
<1>4. res.offset \in Nat
  <2>1. x.reps \in Triples /\ (s.ll = 0) \in BOOLEAN /\ s.value \in Nat
    BY DEF GoodAcc
  <2> QED BY <1>2, <2>1, OffsetsStay DEF Resolved
<1>5. /\ cursor > m => p = Carried(x.out, x.reps, x.cursor, x.visible, "Corruption")
      /\ ~(cursor > m) /\ bx # "Ok" => p = Carried(x.out, x.reps, x.cursor, x.visible, bx)
      /\ ~(cursor > m) /\ bx = "Ok" =>
           /\ sx = "corrupt" => p = Carried(x.out, x.reps, x.cursor, x.visible, "Corruption")
           /\ sx = "buffer" => p = Carried(Near(blk, x, s), res.reps, cursor, x.visible, "Ok")
           /\ sx = "dictionary" => p = Carried(Served(blk, x, s), res.reps, cursor,
                                               Len(Served(blk, x, s)), "Ok")
      /\ sx \in {"buffer", "dictionary", "corrupt"}
  BY <1>1, <1>2, SequenceMade
<1>6. /\ cursor > m => q = Carried(y.out, y.reps, y.cursor, y.visible, "Corruption")
      /\ ~(cursor > m) /\ by # "Ok" => q = Carried(y.out, y.reps, y.cursor, y.visible, by)
      /\ ~(cursor > m) /\ by = "Ok" =>
           /\ sy = "corrupt" => q = Carried(y.out, y.reps, y.cursor, y.visible, "Corruption")
           /\ sy = "buffer" => q = Carried(Near(ref, y, s), res.reps, cursor, y.visible, "Ok")
           /\ sy = "dictionary" => q = Carried(Served(ref, y, s), res.reps, cursor,
                                               Len(Served(ref, y, s)), "Ok")
  BY <1>1, <1>2, <1>3, SequenceMade
<1>7. \/ bx = by
      \/ ~same /\ bx = "OutputSizeTooLarge"
  <2>1. PICK n \in Nat : n = s.ll + s.ml
    OBVIOUS
  <2>2. PICK b, w : b = x.out /\ w = y.out
    OBVIOUS
  <2>3. Alike(same, blk, b, ref, w)
    BY <2>2
  <2>4. \/ BudgetError(blk, b, n) = BudgetError(ref, w, n)
        \/ ~same /\ BudgetError(blk, b, n) = "OutputSizeTooLarge"
    BY <2>3, SameBudget
  <2>5. bx = BudgetError(blk, b, n) /\ by = BudgetError(ref, w, n)
    BY <1>1, <2>1, <2>2
  <2> QED BY <2>4, <2>5
<1>8. \A e : /\ p = Carried(x.out, x.reps, x.cursor, x.visible, e)
             /\ q = Carried(y.out, y.reps, y.cursor, y.visible, e)
             => Moved(x, y, p, q)
  BY BothFail
<1>9. CASE cursor > m
  BY <1>5, <1>6, <1>8, <1>9
<1>10. CASE ~(cursor > m) /\ bx # by
  BY <1>5, <1>7, <1>10
<1>11. CASE ~(cursor > m) /\ bx = by /\ bx # "Ok"
  BY <1>5, <1>6, <1>8, <1>11
<1>12. CASE ~(cursor > m) /\ bx = by /\ bx = "Ok"
  <2>1. PICK b, w : b = Copied(blk, x, s) /\ w = Copied(ref, y, s)
    OBVIOUS
  <2>2. Grown(x.out, y.out, b, w)
    BY <1>2, <1>3, <1>12, <2>1, CopiedAlike
  <2>3. Alike(same, blk, b, ref, w)
    BY <2>2, AlikeGrown
  <2>4. sx = sy
    <3>1. Resolved(x, s) = Resolved(y, s) /\ Resolved(x, s).offset \in Nat
      BY <1>2, <1>3, <1>4
    <3>2. Alike(same, blk, Copied(blk, x, s), ref, Copied(ref, y, s))
      BY <2>1, <2>3
    <3>3. Source(blk, x, s) = Source(ref, y, s)
      BY <3>1, <3>2, SourceAlike
    <3> QED BY <1>1, <3>3
  <2>5. Listed(x.out) /\ Listed(y.out)
    BY DEF GoodAcc
  <2>6. ASSUME NEW o, NEW u, Grown(b, w, o, u), NEW vx, NEW vy,
               (vx = x.visible /\ vy = y.visible) \/ (vx = Len(o) /\ vy = Len(u)),
               p = Carried(o, res.reps, cursor, vx, "Ok"), q = Carried(u, res.reps, cursor, vy, "Ok")
        PROVE  Moved(x, y, p, q)
    <3>1. Grown(x.out, y.out, o, u)
      BY <2>2, <2>5, <2>6, GrownMore
    <3> QED BY <2>6, <3>1, BothMove
  <2>7. CASE sx = "corrupt"
    BY <1>5, <1>6, <1>8, <1>12, <2>4, <2>7
  <2>8. CASE sx = "buffer"
    <3>1. Grown(b, w, Near(blk, x, s), Near(ref, y, s))
      BY <1>1, <1>2, <1>3, <1>4, <2>1, <2>3, <2>8, NearAlike
    <3> QED BY <1>5, <1>6, <1>12, <2>4, <2>6, <2>8, <3>1
  <2>9. CASE sx = "dictionary"
    <3>1. Grown(b, w, Served(blk, x, s), Served(ref, y, s))
      BY <1>1, <1>2, <1>3, <1>4, <2>1, <2>3, <2>9, ServedAlike
    <3> QED BY <1>5, <1>6, <1>12, <2>4, <2>6, <2>9, <3>1
  <2> QED BY <1>5, <2>7, <2>8, <2>9
<1> QED BY <1>9, <1>10, <1>11, <1>12

-----------------------------------------------------------------------------
\* Two loops over one block's sequences.

\* A list cut nowhere.
LEMMA WholeCut ==
  ASSUME NEW a, Listed(a) PROVE SubSeq(a, 1, Len(a)) = a /\ Len(a) \in Nat
<1>1. PICK S : a \in Seq(S)
  BY DEF Listed
<1> QED BY <1>1, SubSeqFull

\* A list extends itself.
LEMMA ExtendsItself ==
  ASSUME NEW a, Listed(a) PROVE Extends(a, a)
BY GrownNone, GrownExtends

\* A block is alike to itself.
LEMMA AlikeItself ==
  ASSUME NEW blk, GoodBlk(blk), NEW b, Listed(b), blk.frame_start \in Nat,
         blk.frame_start <= Len(b)
  PROVE  Alike(TRUE, blk, b, blk, b)
<1>1. PICK l \in Nat, f \in Nat : l = Len(b) /\ f = blk.frame_start
  BY ListsJoin
<1>2. l - f \in Nat /\ l - f <= l
  BY <1>1
<1>3. SameTail(b, b, l - f)
  BY <1>1, <1>2 DEF SameTail
<1>4. History(b, f, b, f, blk.window_size)
  BY <1>1, <1>2, <1>3 DEF History
<1>5. Limits(TRUE, blk.limit, b, blk.limit, b)
  BY DEF Limits
<1> QED BY <1>1, <1>4, <1>5 DEF Alike

\* What of a loop's output outlives a failure.
Visible(acc) == SubSeq(acc.out, 1, acc.visible)

\* It is a list, and part of what was written.
LEMMA VisibleListed ==
  ASSUME NEW blk, GoodBlk(blk), NEW acc, GoodAcc(blk, acc)
  PROVE  /\ Listed(Visible(acc)) /\ Listed(acc.out) /\ acc.visible \in 0..Len(acc.out)
         /\ Extends(Visible(acc), acc.out)
<1>1. PICK l \in Nat, v \in Nat : l = Len(acc.out) /\ v = acc.visible /\ v <= l
  BY DEF GoodAcc, Allowed
<1>2. v \in 0..Len(acc.out)
  BY <1>1
<1>3. Listed(acc.out)
  BY DEF GoodAcc
<1>4. Extends(acc.out, acc.out)
  BY <1>3, ExtendsItself
<1>5. Listed(SubSeq(acc.out, 1, v)) /\ Extends(SubSeq(acc.out, 1, v), acc.out)
  BY <1>2, <1>3, <1>4, BeginningStays
<1> QED BY <1>1, <1>2, <1>3, <1>5 DEF Visible

\* What is visible stays so when more is written behind it, and all of it may become so.
LEMMA VisibleExtends ==
  ASSUME NEW blk, GoodBlk(blk), NEW acc, GoodAcc(blk, acc), NEW next, Extends(acc.out, next.out),
         next.visible = acc.visible \/ next.visible = Len(next.out)
  PROVE  Extends(Visible(acc), Visible(next))
<1>1. /\ Listed(Visible(acc)) /\ Listed(acc.out) /\ acc.visible \in 0..Len(acc.out)
      /\ Extends(Visible(acc), acc.out)
  BY VisibleListed
<1>2. CASE next.visible = acc.visible
  <2>1. SubSeq(next.out, 1, acc.visible) = SubSeq(acc.out, 1, acc.visible)
    BY <1>1, BeginningStays
  <2>2. Visible(next) = Visible(acc)
    BY <1>2, <2>1 DEF Visible
  <2> QED BY <1>1, <2>2, ExtendsItself
<1>3. CASE next.visible = Len(next.out)
  <2>1. Listed(next.out)
    BY <1>1, ExtendsListed
  <2>2. Visible(next) = next.out
    BY <1>3, <2>1, WholeCut DEF Visible
  <2> QED BY <1>1, <2>2, ExtendsMore
<1> QED BY <1>2, <1>3

\* A sequence only appends, and leaves visible what was.
LEMMA SequenceExtends ==
  ASSUME NEW blk, GoodBlk(blk), NEW acc, GoodAcc(blk, acc), blk.frame_start \in Nat,
         blk.frame_start <= Len(acc.out), NEW s \in [ll : Nat, ml : Nat, value : Nat],
         NEW next, next = execute_sequence(blk, acc, s)
  PROVE  Extends(acc.out, next.out) /\ Extends(Visible(acc), Visible(next))
<1>1. Listed(acc.out) /\ Listed(Visible(acc))
  BY VisibleListed
<1>2. CASE acc.result # "Ok"
  <2>1. next = acc
    BY <1>2 DEF execute_sequence
  <2> QED BY <1>1, <2>1, ExtendsItself
<1>3. CASE acc.result = "Ok"
  <2>1. PICK b : b = acc.out
    OBVIOUS
  <2>2. Alike(TRUE, blk, b, blk, b)
    BY <1>1, <2>1, AlikeItself
  <2>3. PICK same \in BOOLEAN : same = TRUE
    OBVIOUS
  <2>4. Alike(same, blk, acc.out, blk, acc.out)
    BY <2>1, <2>2, <2>3
  <2>5. \/ Moved(acc, acc, next, next)
        \/ ~same /\ next = Carried(acc.out, acc.reps, acc.cursor, acc.visible, "OutputSizeTooLarge")
    BY <1>3, <2>4, SequenceAlike
  <2>6. Moved(acc, acc, next, next)
    BY <2>3, <2>5
  <2>7. Extends(acc.out, next.out)
    BY <2>6, GrownExtends DEF Moved
  <2>8. next.visible = acc.visible \/ next.visible = Len(next.out)
    BY <2>6 DEF Moved
  <2> QED BY <2>7, <2>8, VisibleExtends
<1> QED BY <1>2, <1>3

\* Two loops that began at b and w and did the same.
Together(b, w, x, y) ==
  /\ Grown(b, w, x.out, y.out) /\ x.reps = y.reps /\ x.cursor = y.cursor /\ x.result = y.result
  /\ x.visible - Len(b) = y.visible - Len(w)

\* The first has stopped, and the other has all that it left visible.
Behind(b, w, x, y) ==
  /\ x.result # "Ok"
  /\ \E v : Grown(b, w, Visible(x), v) /\ Extends(v, Visible(y))

Keeping(same, b, w, x, y) == Together(b, w, x, y) \/ (~same /\ Behind(b, w, x, y))

\* Where the first loop stops, all it left visible is visible in the other.
LEMMA StopsBehind ==
  ASSUME NEW b, NEW w, Listed(b), Listed(w), NEW blk, GoodBlk(blk), blk.start = Len(b),
         NEW ref, GoodBlk(ref), NEW x, GoodAcc(blk, x), NEW y, GoodAcc(ref, y),
         Together(b, w, x, y)
  PROVE  Grown(b, w, Visible(x), Visible(y))
<1>1. PICK i \in Nat, j \in Nat : i = x.visible /\ j = y.visible
  BY DEF GoodAcc
<1>2. Len(b) <= i /\ i <= Len(x.out) /\ i - Len(b) = j - Len(w)
  BY <1>1 DEF GoodAcc, Together
<1>3. Grown(b, w, x.out, y.out)
  BY DEF Together
<1>4. Grown(b, w, SubSeq(x.out, 1, i), SubSeq(y.out, 1, j))
  BY <1>2, <1>3, GrownCut
<1> QED BY <1>1, <1>4 DEF Visible

\* What both have grown by since they began.
LEMMA MovedTogether ==
  ASSUME NEW b, NEW w, Listed(b), Listed(w), NEW x, NEW y, Together(b, w, x, y),
         NEW p, NEW q, Moved(x, y, p, q)
  PROVE  Together(b, w, p, q)
<1>1. Grown(b, w, x.out, y.out) /\ Grown(x.out, y.out, p.out, q.out)
  BY DEF Together, Moved
<1>2. Grown(b, w, p.out, q.out)
  BY <1>1, GrownMore
<1>3. Len(p.out) - Len(b) = Len(q.out) - Len(w)
  BY <1>2, GrownTail
<1>4. p.visible - Len(b) = q.visible - Len(w)
  BY <1>3 DEF Together, Moved
<1> QED BY <1>2, <1>4 DEF Together, Moved

\* One sequence more.
LEMMA SequenceKeepsStep ==
  ASSUME NEW same \in BOOLEAN, NEW b, NEW w, NEW blk, GoodBlk(blk), blk.start = Len(b),
         NEW ref, GoodBlk(ref), ref.start = Len(w), Alike(same, blk, b, ref, w),
         ref.frame_start <= Len(w),
         NEW x, GoodAcc(blk, x), NEW y, GoodAcc(ref, y), Keeping(same, b, w, x, y),
         NEW s \in [ll : Nat, ml : Nat, value : Nat],
         NEW p, p = execute_sequence(blk, x, s), NEW q, q = execute_sequence(ref, y, s)
  PROVE  Keeping(same, b, w, p, q)
<1>1. Listed(b) /\ Listed(w) /\ ref.frame_start \in Nat
  BY DEF Alike, History
<1>2. Extends(Visible(y), Visible(q))
  <2>1. ref.frame_start <= Len(y.out)
    <3>1. Len(w) \in Nat /\ Len(y.out) \in Nat /\ Len(w) <= Len(y.out)
      BY <1>1, ListsJoin DEF GoodAcc, Allowed
    <3>2. PICK f \in Nat : f = ref.frame_start
      BY <1>1
    <3>3. f <= Len(w)
      BY <3>2
    <3>4. f <= Len(y.out)
      BY <3>1, <3>3
    <3> QED BY <3>2, <3>4
  <2> QED BY <1>1, <2>1, SequenceExtends
<1>3. CASE Together(b, w, x, y) /\ x.result # "Ok"
  <2>1. p = x
    BY <1>3 DEF execute_sequence
  <2>2. q = y
    BY <1>3 DEF execute_sequence, Together
  <2> QED BY <1>3, <2>1, <2>2 DEF Keeping
<1>4. CASE Together(b, w, x, y) /\ x.result = "Ok"
  <2>1. Alike(same, blk, x.out, ref, y.out)
    BY <1>4, AlikeGrown DEF Together
  <2>2. y.result = "Ok" /\ x.reps = y.reps /\ x.cursor = y.cursor
    BY <1>4 DEF Together
  <2>3. \/ Moved(x, y, p, q)
        \/ ~same /\ p = Carried(x.out, x.reps, x.cursor, x.visible, "OutputSizeTooLarge")
    BY <1>4, <2>1, <2>2, SequenceAlike
  <2>4. CASE Moved(x, y, p, q)
    BY <1>1, <1>4, <2>4, MovedTogether DEF Keeping
  <2>5. CASE ~same /\ p = Carried(x.out, x.reps, x.cursor, x.visible, "OutputSizeTooLarge")
    <3>1. p.out = x.out /\ p.visible = x.visible /\ p.result # "Ok"
      BY <2>5 DEF Carried
    <3>2. Visible(p) = Visible(x)
      BY <3>1 DEF Visible
    <3>3. Grown(b, w, Visible(x), Visible(y))
      BY <1>1, <1>4, StopsBehind
    <3> QED BY <1>2, <2>5, <3>1, <3>2, <3>3 DEF Keeping, Behind
  <2> QED BY <2>3, <2>4, <2>5
<1>5. CASE ~same /\ Behind(b, w, x, y)
  <2>1. p = x
    BY <1>5 DEF execute_sequence, Behind
  <2>2. PICK v : Grown(b, w, Visible(x), v) /\ Extends(v, Visible(y))
    BY <1>5 DEF Behind
  <2>3. Listed(v)
    BY <1>1, <2>2, GrownTail
  <2>4. Extends(v, Visible(q))
    BY <1>2, <2>2, <2>3, ExtendsMore
  <2> QED BY <1>5, <2>1, <2>2, <2>4 DEF Keeping, Behind
<1> QED BY <1>3, <1>4, <1>5 DEF Keeping

\* Two loops over the same sequences do the same with each, until the first stops at its cap.
LEMMA RunsKeep ==
  ASSUME NEW same \in BOOLEAN, NEW b, NEW w, NEW blk, GoodBlk(blk), blk.start = Len(b),
         NEW ref, GoodBlk(ref), ref.start = Len(w), Alike(same, blk, b, ref, w),
         ref.frame_start <= Len(w),
         NEW x, GoodAcc(blk, x), NEW y, GoodAcc(ref, y), Keeping(same, b, w, x, y),
         NEW seqs, NEW n \in Nat,
         \A i \in 1..n : seqs[i] \in [ll : Nat, ml : Nat, value : Nat],
         NEW f, Runs(blk, x, seqs, n, f), NEW g, Runs(ref, y, seqs, n, g)
  PROVE  GoodAcc(blk, f[n]) /\ GoodAcc(ref, g[n]) /\ Keeping(same, b, w, f[n], g[n])
<1> DEFINE Kept(k) == GoodAcc(blk, f[k]) /\ GoodAcc(ref, g[k]) /\ Keeping(same, b, w, f[k], g[k])
           Bad == {k \in 0..n : ~ Kept(k)}
<1>1. SUFFICES ASSUME Bad # {} PROVE FALSE
  <2>1. n \in 0..n
    OBVIOUS
  <2> QED BY <1>1, <2>1
<1>2. PICK k \in Bad : \A j \in Bad : k <= j
  <2>1. Bad \in SUBSET Nat
    OBVIOUS
  <2> HIDE DEF Bad
  <2> QED BY <1>1, <2>1, LeastOf
<1>3. /\ f[0] = x /\ g[0] = y
      /\ \A i \in 1..n : f[i] = execute_sequence(blk, f[i - 1], seqs[i])
      /\ \A i \in 1..n : g[i] = execute_sequence(ref, g[i - 1], seqs[i])
  <2>1. \A i \in 0..n : f[i] = IF i = 0 THEN x ELSE execute_sequence(blk, f[i - 1], seqs[i])
    BY DEF Runs
  <2>2. \A i \in 0..n : g[i] = IF i = 0 THEN y ELSE execute_sequence(ref, g[i - 1], seqs[i])
    BY DEF Runs
  <2>3. 0 \in 0..n /\ \A i \in 1..n : i \in 0..n /\ i # 0
    OBVIOUS
  <2> QED BY <2>1, <2>2, <2>3
<1>4. k # 0
  BY <1>2, <1>3
<1>5. k \in 1..n /\ k - 1 \in 0..n /\ ~(k <= k - 1)
  BY <1>2, <1>4
<1>6. Kept(k - 1)
  BY <1>2, <1>5
<1>7. PICK a, c, s : a = f[k - 1] /\ c = g[k - 1] /\ s = seqs[k]
  OBVIOUS
<1>8. /\ GoodAcc(blk, a) /\ GoodAcc(ref, c) /\ Keeping(same, b, w, a, c)
      /\ s \in [ll : Nat, ml : Nat, value : Nat]
  BY <1>5, <1>6, <1>7
<1>9. f[k] = execute_sequence(blk, a, s) /\ g[k] = execute_sequence(ref, c, s)
  BY <1>3, <1>5, <1>7
<1>10. GoodAcc(blk, f[k]) /\ GoodAcc(ref, g[k])
  BY <1>8, <1>9, SequenceKeeps
<1>11. Keeping(same, b, w, f[k], g[k])
  BY <1>8, <1>9, SequenceKeepsStep
<1> QED BY <1>2, <1>10, <1>11

\* The literals behind the last sequence.
Trailing(blk, acc) == SubSeq(blk.literals, acc.cursor + 1, Len(blk.literals))

\* They are a list.
LEMMA TrailingListed ==
  ASSUME NEW blk, GoodBlk(blk), NEW acc, GoodAcc(blk, acc)
  PROVE  Listed(Trailing(blk, acc)) /\ Len(Trailing(blk, acc)) \in Nat
<1>1. PICK m \in Nat, c \in Nat : m = Len(blk.literals) /\ c = acc.cursor
  <2>1. Len(blk.literals) \in Nat /\ acc.cursor \in Nat
    BY ListsJoin DEF GoodBlk, GoodAcc
  <2> QED BY <2>1
<1>2. c <= m
  BY <1>1 DEF GoodAcc
<1>3. PICK i \in Nat : i = c + 1
  OBVIOUS
<1>4. i \in 1..(m + 1) /\ m \in (i - 1)..m
  BY <1>2, <1>3
<1>5. Listed(blk.literals)
  BY DEF GoodBlk
<1>6. Listed(SubSeq(blk.literals, i, m))
  BY <1>1, <1>4, <1>5, ListsCut
<1>7. Trailing(blk, acc) = SubSeq(blk.literals, i, m)
  BY <1>1, <1>3 DEF Trailing
<1> QED BY <1>6, <1>7, ListsJoin

\* What append_trailing_literals makes of a loop.
LEMMA TrailingMade ==
  ASSUME NEW blk, NEW acc, GoodAcc(blk, acc), NEW sound \in BOOLEAN
  PROVE  LET next   == append_trailing_literals(blk, acc, sound)
             budget == BudgetError(blk, acc.out, Len(Trailing(blk, acc)))
             all    == acc.out \o Trailing(blk, acc)
             fails(e) == Carried(acc.out, acc.reps, acc.cursor, Len(acc.out), e)
         IN  /\ acc.result # "Ok" => next = acc
             /\ acc.result = "Ok" /\ ~sound => next = fails("Corruption")
             /\ acc.result = "Ok" /\ sound /\ budget # "Ok" => next = fails(budget)
             /\ acc.result = "Ok" /\ sound /\ budget = "Ok" =>
                  next = Carried(all, acc.reps, acc.cursor, Len(all), "Ok")
<1>1. PICK next, budget, all, l :
        /\ next = append_trailing_literals(blk, acc, sound) /\ l = Len(acc.out)
        /\ budget = BudgetError(blk, acc.out, Len(Trailing(blk, acc)))
        /\ all = acc.out \o Trailing(blk, acc)
  OBVIOUS
<1>2. next = IF acc.result # "Ok" THEN acc
             ELSE IF ~sound THEN [[acc EXCEPT !.visible = l] EXCEPT !.result = "Corruption"]
             ELSE IF budget # "Ok" THEN [[acc EXCEPT !.visible = l] EXCEPT !.result = budget]
             ELSE [[acc EXCEPT !.visible = l] EXCEPT !.out = all, !.visible = Len(all)]
  BY <1>1 DEF append_trailing_literals, Trailing
<1>3. PICK c : c = [acc EXCEPT !.visible = l]
  OBVIOUS
<1>4. acc = Carried(acc.out, acc.reps, acc.cursor, acc.visible, acc.result)
  BY GoodIsCarried
<1>5. c = Carried(acc.out, acc.reps, acc.cursor, l, acc.result)
  BY <1>3, <1>4 DEF Carried
<1>6. PICK reps, cursor, verdict : reps = acc.reps /\ cursor = acc.cursor /\ verdict = acc.result
  OBVIOUS
<1>7. c = Carried(acc.out, reps, cursor, l, verdict)
  BY <1>5, <1>6
<1>8. \A e : [c EXCEPT !.result = e] = Carried(acc.out, reps, cursor, l, e)
  BY <1>7 DEF Carried
<1>9. [c EXCEPT !.out = all, !.visible = Len(all)] = Carried(all, reps, cursor, Len(all), verdict)
  <2>1. PICK d : d = [c EXCEPT !.out = all]
    OBVIOUS
  <2>2. d = Carried(all, reps, cursor, l, verdict)
    BY <1>7, <2>1 DEF Carried
  <2>3. [c EXCEPT !.out = all, !.visible = Len(all)] = [d EXCEPT !.visible = Len(all)]
    BY <1>7, <2>1 DEF Carried
  <2>4. [d EXCEPT !.visible = Len(all)] = Carried(all, reps, cursor, Len(all), verdict)
    BY <2>2 DEF Carried
  <2> QED BY <2>3, <2>4
<1>10. acc.result # "Ok" => next = acc
  BY <1>2
<1>11. acc.result = "Ok" /\ ~sound => next = [c EXCEPT !.result = "Corruption"]
  BY <1>2, <1>3
<1>12. acc.result = "Ok" /\ sound /\ budget # "Ok" => next = [c EXCEPT !.result = budget]
  BY <1>2, <1>3
<1>13. acc.result = "Ok" /\ sound /\ budget = "Ok" =>
         next = [c EXCEPT !.out = all, !.visible = Len(all)]
  BY <1>2, <1>3
<1> QED BY <1>1, <1>6, <1>8, <1>9, <1>10, <1>11, <1>12, <1>13

\* All that was written becomes visible, and the literals behind it.
LEMMA TrailingExtends ==
  ASSUME NEW blk, GoodBlk(blk), NEW acc, GoodAcc(blk, acc), acc.result = "Ok",
         NEW sound \in BOOLEAN, NEW next, next = append_trailing_literals(blk, acc, sound)
  PROVE  Extends(acc.out, Visible(next)) /\ next.visible = Len(next.out)
<1>1. PICK all, budget : /\ all = acc.out \o Trailing(blk, acc)
                         /\ budget = BudgetError(blk, acc.out, Len(Trailing(blk, acc)))
  OBVIOUS
<1>2. \/ \E e : next = Carried(acc.out, acc.reps, acc.cursor, Len(acc.out), e)
      \/ next = Carried(all, acc.reps, acc.cursor, Len(all), "Ok")
  BY <1>1, TrailingMade
<1>3. Listed(acc.out) /\ Listed(Trailing(blk, acc))
  BY TrailingListed DEF GoodAcc
<1>4. ASSUME NEW out, Listed(out), Extends(acc.out, out), next.out = out, next.visible = Len(out)
      PROVE  Extends(acc.out, Visible(next)) /\ next.visible = Len(next.out)
  BY <1>4, WholeCut DEF Visible
<1>5. CASE \E e : next = Carried(acc.out, acc.reps, acc.cursor, Len(acc.out), e)
  <2>1. next.out = acc.out /\ next.visible = Len(acc.out)
    BY <1>5 DEF Carried
  <2> QED BY <1>3, <1>4, <2>1, ExtendsItself
<1>6. CASE next = Carried(all, acc.reps, acc.cursor, Len(all), "Ok")
  <2>1. next.out = all /\ next.visible = Len(all)
    BY <1>6 DEF Carried
  <2>2. Listed(all) /\ Extends(acc.out, all)
    BY <1>1, <1>3, ListsJoin DEF Extends
  <2> QED BY <1>4, <2>1, <2>2
<1> QED BY <1>2, <1>5, <1>6

\* The literals behind the last sequence.
LEMMA TrailingKeepsStep ==
  ASSUME NEW same \in BOOLEAN, NEW b, NEW w, NEW blk, GoodBlk(blk), blk.start = Len(b),
         NEW ref, GoodBlk(ref), ref.start = Len(w), Alike(same, blk, b, ref, w),
         NEW x, GoodAcc(blk, x), NEW y, GoodAcc(ref, y), Keeping(same, b, w, x, y),
         NEW sound \in BOOLEAN,
         NEW p, p = append_trailing_literals(blk, x, sound),
         NEW q, q = append_trailing_literals(ref, y, sound)
  PROVE  Keeping(same, b, w, p, q)
<1>1. Listed(b) /\ Listed(w)
  BY DEF Alike, History
<1>2. CASE Together(b, w, x, y) /\ x.result # "Ok"
  <2>1. p = x
    BY <1>2 DEF append_trailing_literals
  <2>2. q = y
    BY <1>2 DEF append_trailing_literals, Together
  <2> QED BY <1>2, <2>1, <2>2 DEF Keeping
<1>3. CASE Together(b, w, x, y) /\ x.result = "Ok"
  <2>1. /\ y.result = "Ok" /\ x.reps = y.reps /\ x.cursor = y.cursor
        /\ Grown(b, w, x.out, y.out)
    BY <1>3 DEF Together
  <2>2. Alike(same, blk, x.out, ref, y.out)
    BY <2>1, AlikeGrown
  <2>3. PICK z : z = Trailing(blk, x)
    OBVIOUS
  <2>4. z = Trailing(ref, y)
    BY <2>1, <2>3 DEF Trailing, Alike
  <2>5. Listed(z) /\ Len(z) \in Nat
    BY <2>3, TrailingListed
  <2>6. PICK bx, by : bx = BudgetError(blk, x.out, Len(z)) /\ by = BudgetError(ref, y.out, Len(z))
    OBVIOUS
  <2>7. \/ bx = by
        \/ ~same /\ bx = "OutputSizeTooLarge"
    BY <2>2, <2>5, <2>6, SameBudget
  <2>8. /\ ~sound => p = Carried(x.out, x.reps, x.cursor, Len(x.out), "Corruption")
        /\ sound /\ bx # "Ok" => p = Carried(x.out, x.reps, x.cursor, Len(x.out), bx)
        /\ sound /\ bx = "Ok" => p = Carried(x.out \o z, x.reps, x.cursor, Len(x.out \o z), "Ok")
    BY <1>3, <2>3, <2>6, TrailingMade
  <2>9. /\ ~sound => q = Carried(y.out, y.reps, y.cursor, Len(y.out), "Corruption")
        /\ sound /\ by # "Ok" => q = Carried(y.out, y.reps, y.cursor, Len(y.out), by)
        /\ sound /\ by = "Ok" => q = Carried(y.out \o z, y.reps, y.cursor, Len(y.out \o z), "Ok")
    BY <2>1, <2>4, <2>6, TrailingMade
  <2>10. ASSUME NEW o, NEW u, Grown(x.out, y.out, o, u), NEW e,
                p = Carried(o, x.reps, x.cursor, Len(o), e),
                q = Carried(u, y.reps, y.cursor, Len(u), e)
         PROVE  Keeping(same, b, w, p, q)
    <3>1. Grown(b, w, o, u)
      BY <1>1, <2>1, <2>10, GrownMore
    <3>2. Len(o) - Len(b) = Len(u) - Len(w)
      BY <1>1, <3>1, GrownTail
    <3>3. /\ p.out = o /\ p.reps = x.reps /\ p.cursor = x.cursor /\ p.visible = Len(o)
          /\ p.result = e
      BY <2>10 DEF Carried
    <3>4. /\ q.out = u /\ q.reps = y.reps /\ q.cursor = y.cursor /\ q.visible = Len(u)
          /\ q.result = e
      BY <2>10 DEF Carried
    <3>5. Together(b, w, p, q)
      BY <2>1, <3>1, <3>2, <3>3, <3>4 DEF Together
    <3> QED BY <3>5 DEF Keeping
  <2>11. Grown(x.out, y.out, x.out, y.out) /\ Grown(x.out, y.out, x.out \o z, y.out \o z)
    BY <2>5, GrownNone, GrownBy DEF GoodAcc
  <2>12. CASE ~sound
    BY <2>8, <2>9, <2>10, <2>11, <2>12
  <2>13. CASE sound /\ bx = by /\ bx # "Ok"
    BY <2>8, <2>9, <2>10, <2>11, <2>13
  <2>14. CASE sound /\ bx = by /\ bx = "Ok"
    BY <2>8, <2>9, <2>10, <2>11, <2>14
  <2>15. CASE sound /\ bx # by
    <3>1. ~same /\ p = Carried(x.out, x.reps, x.cursor, Len(x.out), "OutputSizeTooLarge")
      BY <2>7, <2>8, <2>15
    <3>2. p.out = x.out /\ p.visible = Len(x.out) /\ p.result # "Ok"
      BY <3>1 DEF Carried
    <3>3. Visible(p) = x.out
      BY <3>2, WholeCut DEF Visible, GoodAcc
    <3>4. Extends(y.out, Visible(q))
      BY <2>1, TrailingExtends
    <3> QED BY <2>1, <3>1, <3>2, <3>3, <3>4 DEF Keeping, Behind
  <2> QED BY <2>12, <2>13, <2>14, <2>15
<1>4. CASE ~same /\ Behind(b, w, x, y)
  <2>1. p = x
    BY <1>4 DEF append_trailing_literals, Behind
  <2>2. PICK v : Grown(b, w, Visible(x), v) /\ Extends(v, Visible(y))
    BY <1>4 DEF Behind
  <2>3. Listed(v)
    BY <1>1, <2>2, GrownTail
  <2>4. Extends(Visible(y), Visible(q))
    <3>1. /\ Listed(Visible(y)) /\ Listed(y.out) /\ Extends(Visible(y), y.out)
      BY VisibleListed
    <3>2. CASE y.result # "Ok"
      <4>1. q = y
        BY <3>2 DEF append_trailing_literals
      <4> QED BY <3>1, <4>1, ExtendsItself
    <3>3. CASE y.result = "Ok"
      BY <3>1, <3>3, TrailingExtends, ExtendsMore
    <3> QED BY <3>2, <3>3
  <2>5. Extends(v, Visible(q))
    BY <2>2, <2>3, <2>4, ExtendsMore
  <2> QED BY <1>4, <2>1, <2>2, <2>5 DEF Keeping, Behind
<1> QED BY <1>2, <1>3, <1>4 DEF Keeping

-----------------------------------------------------------------------------
\* A whole block in two buffers.

\* The loop of a whole block, trailing literals included.
LEMMA ExecutedAlike ==
  ASSUME NEW same \in BOOLEAN, NEW b, NEW w, NEW blk, GoodBlk(blk), blk.start = Len(b),
         NEW ref, GoodBlk(ref), ref.start = Len(w), Alike(same, blk, b, ref, w),
         ref.frame_start <= Len(w),
         NEW reps \in Triples, NEW seqs, Len(seqs) \in Nat, NEW sound \in BOOLEAN,
         \A i \in 1..Len(seqs) : seqs[i] \in [ll : Nat, ml : Nat, value : Nat],
         NEW x, x = decode_and_execute_sequences(blk, b, reps, seqs, sound),
         NEW y, y = decode_and_execute_sequences(ref, w, reps, seqs, sound)
  PROVE  GoodAcc(blk, x) /\ GoodAcc(ref, y) /\ Keeping(same, b, w, x, y)
<1>1. Listed(b) /\ Listed(w) /\ Len(b) \in Nat /\ Len(w) \in Nat
  BY ListsJoin DEF Alike, History
<1>2. PICK n \in Nat : n = Len(seqs)
  OBVIOUS
<1>3. PICK s, t :
        /\ s = [out |-> b, reps |-> reps, cursor |-> 0, visible |-> Len(b),
                result |-> IF OverCap(blk.limit, Len(b)) THEN "OutputSizeTooLarge" ELSE "Ok"]
        /\ t = [out |-> w, reps |-> reps, cursor |-> 0, visible |-> Len(w),
                result |-> IF OverCap(ref.limit, Len(w)) THEN "OutputSizeTooLarge" ELSE "Ok"]
  OBVIOUS
<1>4. PICK f : f = CHOOSE h :
        h = [i \in 0..n |-> IF i = 0 THEN s ELSE execute_sequence(blk, h[i - 1], seqs[i])]
  OBVIOUS
<1>5. PICK g : g = CHOOSE h :
        h = [i \in 0..n |-> IF i = 0 THEN t ELSE execute_sequence(ref, h[i - 1], seqs[i])]
  OBVIOUS
<1>6. Runs(blk, s, seqs, n, f)
  <2>1. PICK h : Runs(blk, s, seqs, n, h)
    BY RunsExist
  <2>2. h = [i \in 0..n |-> IF i = 0 THEN s ELSE execute_sequence(blk, h[i - 1], seqs[i])]
    BY <2>1 DEF Runs
  <2>3. f = [i \in 0..n |-> IF i = 0 THEN s ELSE execute_sequence(blk, f[i - 1], seqs[i])]
    BY Zenon, <1>4, <2>2
  <2> QED BY <2>3 DEF Runs
<1>7. Runs(ref, t, seqs, n, g)
  <2>1. PICK h : Runs(ref, t, seqs, n, h)
    BY RunsExist
  <2>2. h = [i \in 0..n |-> IF i = 0 THEN t ELSE execute_sequence(ref, h[i - 1], seqs[i])]
    BY <2>1 DEF Runs
  <2>3. g = [i \in 0..n |-> IF i = 0 THEN t ELSE execute_sequence(ref, g[i - 1], seqs[i])]
    BY Zenon, <1>5, <2>2
  <2> QED BY <2>3 DEF Runs
<1>8. x = append_trailing_literals(blk, f[n], sound)
  BY <1>2, <1>3, <1>4 DEF decode_and_execute_sequences
<1>9. y = append_trailing_literals(ref, g[n], sound)
  BY <1>2, <1>3, <1>5 DEF decode_and_execute_sequences
<1>10. ASSUME NEW k, GoodBlk(k), NEW o, Listed(o), k.start = Len(o), NEW a,
              a = [out |-> o, reps |-> reps, cursor |-> 0, visible |-> Len(o),
                   result |-> IF OverCap(k.limit, Len(o)) THEN "OutputSizeTooLarge" ELSE "Ok"]
       PROVE  GoodAcc(k, a)
  <2>1. /\ a.out = o /\ a.reps = reps /\ a.cursor = 0 /\ a.visible = Len(o)
        /\ a.result = IF OverCap(k.limit, Len(o)) THEN "OutputSizeTooLarge" ELSE "Ok"
        /\ a = [out |-> a.out, reps |-> a.reps, cursor |-> a.cursor,
                visible |-> a.visible, result |-> a.result]
    BY <1>10
  <2>2. Allowed(k, Len(o)) /\ Len(k.literals) \in Nat
    <3>1. PICK i \in Nat : i = Len(o)
      BY <1>10, ListsJoin
    <3>2. i = k.start /\ k.block_size_max \in Nat /\ i - i = 0
      BY <1>10, <3>1 DEF GoodBlk
    <3>3. Len(k.literals) \in Nat
      BY <1>10, ListsJoin DEF GoodBlk
    <3>4. Allowed(k, i)
      BY <3>2 DEF Allowed
    <3> QED BY <3>1, <3>3, <3>4
  <2> QED BY <1>10, <2>1, <2>2 DEF GoodAcc, GoodBlk
<1>11. GoodAcc(blk, s) /\ GoodAcc(ref, t)
  BY <1>1, <1>3, <1>10
<1>12. Keeping(same, b, w, s, t)
  <2>1. /\ s.out = b /\ s.reps = reps /\ s.cursor = 0 /\ s.visible = Len(b)
        /\ s.result = IF OverCap(blk.limit, Len(b)) THEN "OutputSizeTooLarge" ELSE "Ok"
    BY <1>3
  <2>2. /\ t.out = w /\ t.reps = reps /\ t.cursor = 0 /\ t.visible = Len(w)
        /\ t.result = IF OverCap(ref.limit, Len(w)) THEN "OutputSizeTooLarge" ELSE "Ok"
    BY <1>3
  <2>3. Grown(b, w, b, w)
    BY <1>1, GrownNone
  <2>4. /\ OverCap(ref.limit, Len(w) + 0) => OverCap(blk.limit, Len(b) + 0)
        /\ same /\ OverCap(blk.limit, Len(b) + 0) => OverCap(ref.limit, Len(w) + 0)
    BY DEF Alike, Limits
  <2>5. Len(w) + 0 = Len(w) /\ Len(b) + 0 = Len(b)
    BY <1>1
  <2>6. CASE s.result = t.result
    <3>1. s.visible - Len(b) = t.visible - Len(w)
      BY <1>1, <2>1, <2>2
    <3>2. Together(b, w, s, t)
      BY <2>1, <2>2, <2>3, <2>6, <3>1 DEF Together
    <3> QED BY <3>2 DEF Keeping
  <2>7. CASE s.result # t.result
    <3>1. ~same /\ s.result # "Ok"
      BY <2>1, <2>2, <2>4, <2>5, <2>7
    <3>2. Visible(s) = b /\ Visible(t) = w
      BY <1>1, <2>1, <2>2, WholeCut DEF Visible
    <3>3. Extends(w, w)
      BY <1>1, ExtendsItself
    <3> QED BY <2>3, <3>1, <3>2, <3>3 DEF Keeping, Behind
  <2> QED BY <2>6, <2>7
<1>13. GoodAcc(blk, f[n]) /\ GoodAcc(ref, g[n]) /\ Keeping(same, b, w, f[n], g[n])
  <2>1. \A i \in 1..n : seqs[i] \in [ll : Nat, ml : Nat, value : Nat]
    BY <1>2
  <2> QED BY <1>6, <1>7, <1>11, <1>12, <2>1, RunsKeep
<1>14. GoodAcc(blk, x) /\ GoodAcc(ref, y)
  BY <1>8, <1>9, <1>13, TrailingKeeps
<1>15. Keeping(same, b, w, x, y)
  BY <1>8, <1>9, <1>13, TrailingKeepsStep
<1> QED BY <1>14, <1>15

\* What one block makes of b and of w: the same, or a stop at b's cap with part of what w has.
SameOutcome(same, b, w, d, e) ==
  \/ Grown(b, w, d.out, e.out) /\ d.result = e.result /\ d.entropy = e.entropy
  \/ ~same /\ d.result # "Ok" /\ \E v : Grown(b, w, d.out, v) /\ Extends(v, e.out)

\* Both fail and leave the buffers as they were.
LEMMA BothRefuse ==
  ASSUME NEW same, NEW b, NEW w, Listed(b), Listed(w), NEW e, NEW entropy
  PROVE  SameOutcome(same, b, w, Failed(e, b, entropy), Failed(e, w, entropy))
BY GrownNone DEF Failed, SameOutcome

\* append_bytes.
LEMMA BytesAlike ==
  ASSUME NEW same \in BOOLEAN, NEW l, NEW m, NEW b, NEW w, Listed(b), Listed(w), Limits(same, l, b, m, w),
         NEW bytes, Listed(bytes), NEW entropy
  PROVE  SameOutcome(same, b, w, append_bytes(bytes, l, b, entropy), append_bytes(bytes, m, w, entropy))
<1>1. PICK n \in Nat : n = Len(bytes)
  BY ListsJoin
<1>2. PICK d, e : d = append_bytes(bytes, l, b, entropy) /\ e = append_bytes(bytes, m, w, entropy)
  OBVIOUS
<1>3. /\ OverCap(m, Len(w) + n) => OverCap(l, Len(b) + n)
      /\ same /\ OverCap(l, Len(b) + n) => OverCap(m, Len(w) + n)
  BY DEF Limits
<1>4. d = IF OverCap(l, Len(b) + n) THEN [result |-> "OutputSizeTooLarge", out |-> b, entropy |-> entropy]
          ELSE [result |-> "Ok", out |-> b \o bytes, entropy |-> entropy]
  BY <1>1, <1>2 DEF append_bytes, Failed
<1>5. e = IF OverCap(m, Len(w) + n) THEN [result |-> "OutputSizeTooLarge", out |-> w, entropy |-> entropy]
          ELSE [result |-> "Ok", out |-> w \o bytes, entropy |-> entropy]
  BY <1>1, <1>2 DEF append_bytes, Failed
<1>6. Grown(b, w, b, w) /\ Grown(b, w, b \o bytes, w \o bytes)
  BY GrownNone, GrownBy
<1>7. Extends(w, w \o bytes)
  BY DEF Extends
<1>8. CASE OverCap(m, Len(w) + n)
  <2>1. /\ d.result = "OutputSizeTooLarge" /\ d.out = b /\ d.entropy = entropy
        /\ e.result = "OutputSizeTooLarge" /\ e.out = w /\ e.entropy = entropy
    BY <1>3, <1>4, <1>5, <1>8
  <2> QED BY <1>2, <1>6, <2>1 DEF SameOutcome
<1>9. CASE ~OverCap(l, Len(b) + n)
  <2>1. /\ d.result = "Ok" /\ d.out = b \o bytes /\ d.entropy = entropy
        /\ e.result = "Ok" /\ e.out = w \o bytes /\ e.entropy = entropy
    BY <1>3, <1>4, <1>5, <1>9
  <2> QED BY <1>2, <1>6, <2>1 DEF SameOutcome
<1>10. CASE OverCap(l, Len(b) + n) /\ ~OverCap(m, Len(w) + n)
  <2>1. ~same /\ d.result # "Ok" /\ d.out = b /\ e.out = w \o bytes
    BY <1>3, <1>4, <1>5, <1>10
  <2> QED BY <1>2, <1>6, <1>7, <2>1 DEF SameOutcome
<1> QED BY <1>3, <1>8, <1>9, <1>10

\* How a compressed block ends.
LEMMA EndsAlike ==
  ASSUME NEW same \in BOOLEAN, NEW b, NEW w, Listed(b), Listed(w),
         NEW blk, GoodBlk(blk), blk.start = Len(b), NEW ref, GoodBlk(ref),
         NEW x, GoodAcc(blk, x), NEW y, GoodAcc(ref, y), Keeping(same, b, w, x, y),
         NEW huffman_table, NEW table, NEW entropy,
         NEW d, d = CompressedOutcome(x, huffman_table, table, entropy),
         NEW e, e = CompressedOutcome(y, huffman_table, table, entropy)
  PROVE  SameOutcome(same, b, w, d, e)
<1>1. ASSUME NEW a, a.result # "Ok", NEW o, o = CompressedOutcome(a, huffman_table, table, entropy)
      PROVE  o.result = a.result /\ o.out = Visible(a) /\ o.entropy = entropy
  BY <1>1 DEF CompressedOutcome, Failed, Visible
<1>2. ASSUME NEW a, a.result = "Ok", NEW o, o = CompressedOutcome(a, huffman_table, table, entropy)
      PROVE  /\ o.result = "Ok" /\ o.out = a.out
             /\ o.entropy = [repeat_offsets |-> a.reps, huffman_table |-> huffman_table,
                             sequence_table |-> table]
  BY <1>2 DEF CompressedOutcome
<1>3. CASE Together(b, w, x, y) /\ x.result # "Ok"
  <2>1. Grown(b, w, Visible(x), Visible(y)) /\ x.result = y.result
    BY <1>3, StopsBehind DEF Together
  <2>2. d.result = x.result /\ d.out = Visible(x) /\ d.entropy = entropy
    BY <1>1, <1>3
  <2>3. e.result = y.result /\ e.out = Visible(y) /\ e.entropy = entropy
    BY <1>1, <1>3, <2>1
  <2> QED BY <2>1, <2>2, <2>3 DEF SameOutcome
<1>4. CASE Together(b, w, x, y) /\ x.result = "Ok"
  <2>1. Grown(b, w, x.out, y.out) /\ y.result = "Ok" /\ x.reps = y.reps
    BY <1>4 DEF Together
  <2>2. /\ d.result = "Ok" /\ d.out = x.out
        /\ d.entropy = [repeat_offsets |-> x.reps, huffman_table |-> huffman_table,
                        sequence_table |-> table]
    BY <1>2, <1>4
  <2>3. /\ e.result = "Ok" /\ e.out = y.out
        /\ e.entropy = [repeat_offsets |-> y.reps, huffman_table |-> huffman_table,
                        sequence_table |-> table]
    BY <1>2, <2>1
  <2> QED BY <2>1, <2>2, <2>3 DEF SameOutcome
<1>5. CASE ~same /\ Behind(b, w, x, y)
  <2>1. x.result # "Ok"
    BY <1>5 DEF Behind
  <2>2. d.result # "Ok" /\ d.out = Visible(x)
    BY <1>1, <2>1
  <2>3. PICK v : Grown(b, w, Visible(x), v) /\ Extends(v, Visible(y))
    BY <1>5 DEF Behind
  <2>4. Listed(v) /\ Extends(Visible(y), y.out)
    BY <2>3, GrownTail, VisibleListed
  <2>5. Extends(v, e.out)
    <3>1. CASE y.result # "Ok"
      BY <1>1, <2>3, <3>1
    <3>2. CASE y.result = "Ok"
      <4>1. e.out = y.out
        BY <1>2, <3>2
      <4> QED BY <2>3, <2>4, <4>1, ExtendsMore
    <3> QED BY <3>1, <3>2
  <2> QED BY <1>5, <2>2, <2>3, <2>5 DEF SameOutcome
<1> QED BY <1>3, <1>4, <1>5 DEF Keeping

\* What is fixed for a block is alike for both buffers.
AlikeEnv(same, env, l, b, rev, m, w) ==
  /\ env.window_size = rev.window_size /\ env.block_size_max = rev.block_size_max
  /\ History(b, env.frame_start, w, rev.frame_start, env.window_size)
  /\ rev.frame_start <= Len(w)
  /\ Limits(same, l, b, m, w)

\* A compressed block.
LEMMA CompressedAlike ==
  ASSUME NEW o \in Configured, NEW u \in CompressedBlocks(o), NEW same \in BOOLEAN,
         NEW env, NEW l, GoodEnv(env, l), NEW rev, NEW m, GoodEnv(rev, m),
         NEW b, NEW w, AlikeEnv(same, env, l, b, rev, m, w), NEW entropy, GoodEntropy(o, entropy),
         NEW d, d = decode_compressed_block(u.body, env, o.dictionary, l, b, entropy),
         NEW e, e = decode_compressed_block(u.body, rev, o.dictionary, m, w, entropy)
  PROVE  SameOutcome(same, b, w, d, e)
<1>1. Listed(b) /\ Listed(w) /\ Len(b) \in Nat /\ Len(w) \in Nat
  BY ListsJoin DEF AlikeEnv, History
<1>2. PICK literals : literals = decode_literals_section(u.body.literals, entropy.huffman_table,
                                                         env.block_size_max)
  OBVIOUS
<1>3. PICK codes : codes = u.body.sequences.codes
  OBVIOUS
<1>4. PICK table : table = IF codes = << >> \/ u.body.sequences.repeat
                           THEN entropy.sequence_table ELSE u.body.sequences.table
  OBVIOUS
<1>5. PICK seqs : seqs = [i \in DOMAIN codes |-> table[codes[i]]]
  OBVIOUS
<1>6. PICK blk : blk = [start |-> Len(b), frame_start |-> env.frame_start,
                window_size |-> env.window_size, block_size_max |-> env.block_size_max,
                dictionary |-> o.dictionary, literals |-> literals.bytes, limit |-> l]
  OBVIOUS
<1>7. PICK ref : ref = [start |-> Len(w), frame_start |-> rev.frame_start,
                window_size |-> rev.window_size, block_size_max |-> rev.block_size_max,
                dictionary |-> o.dictionary, literals |-> literals.bytes, limit |-> m]
  OBVIOUS
<1>8. PICK x, y :
        /\ x = decode_and_execute_sequences(blk, b, entropy.repeat_offsets, seqs, u.body.sound)
        /\ y = decode_and_execute_sequences(ref, w, entropy.repeat_offsets, seqs, u.body.sound)
  OBVIOUS
<1>9. d = IF \/ literals.result # "Ok"
             \/ codes # << >> /\ table = NoTable
             \/ codes = << >> /\ ~u.body.sound
          THEN Failed("Corruption", b, entropy)
          ELSE CompressedOutcome(x, literals.table, table, entropy)
  BY <1>2, <1>3, <1>4, <1>5, <1>6, <1>8 DEF decode_compressed_block
<1>10. literals = decode_literals_section(u.body.literals, entropy.huffman_table, rev.block_size_max)
  BY <1>2 DEF AlikeEnv
<1>11. e = IF \/ literals.result # "Ok"
              \/ codes # << >> /\ table = NoTable
              \/ codes = << >> /\ ~u.body.sound
           THEN Failed("Corruption", w, entropy)
           ELSE CompressedOutcome(y, literals.table, table, entropy)
  BY <1>3, <1>4, <1>5, <1>7, <1>8, <1>10 DEF decode_compressed_block
<1>12. CASE d = Failed("Corruption", b, entropy) /\ e = Failed("Corruption", w, entropy)
  BY <1>1, <1>12, BothRefuse
<1>13. CASE /\ codes = << >> \/ table # NoTable
            /\ d = CompressedOutcome(x, literals.table, table, entropy)
            /\ e = CompressedOutcome(y, literals.table, table, entropy)
  <2>1. u.body.literals.data \in Seq(Nat) /\ u.body.sound \in BOOLEAN
    <3>1. IsUnit(u) /\ u.kind = "block" /\ u.block_type = "Compressed"
      BY SetupsAssumption DEF CompressedBlocks, Configured
    <3> QED BY <3>1 DEF IsUnit, IsBlock
  <2>2. /\ codes \in Seq(Nat)
        /\ \A i \in 1..Len(codes) : table[codes[i]] \in [ll : Nat, ml : Nat, value : Nat]
    <3>1. /\ codes \in Seq(Nat)
          /\ codes = << >> \/ table # NoTable =>
               \A i \in 1..Len(codes) : table[codes[i]] \in [ll : Nat, ml : Nat, value : Nat]
      BY SMTT(30), <1>3, <1>4, SequencesRead
    <3> QED BY <1>13, <3>1
  <2>3. /\ Len(seqs) \in Nat
        /\ \A i \in 1..Len(seqs) : seqs[i] \in [ll : Nat, ml : Nat, value : Nat]
    <3>1. Len(codes) \in Nat /\ DOMAIN codes = 1..Len(codes)
      BY <2>2
    <3>2. seqs = [i \in 1..Len(codes) |-> seqs[i]]
          /\ \A i \in 1..Len(codes) : seqs[i] = table[codes[i]]
      BY <1>5, <3>1
    <3>3. Len(seqs) = Len(codes)
      BY <3>1, <3>2, ListsMade
    <3> QED BY <2>2, <3>1, <3>2, <3>3
  <2>4. /\ blk.start = Len(b) /\ blk.frame_start = env.frame_start
        /\ blk.window_size = env.window_size /\ blk.block_size_max = env.block_size_max
        /\ blk.dictionary = o.dictionary /\ blk.literals = literals.bytes /\ blk.limit = l
    BY <1>6
  <2>5. /\ ref.start = Len(w) /\ ref.frame_start = rev.frame_start
        /\ ref.window_size = rev.window_size /\ ref.block_size_max = rev.block_size_max
        /\ ref.dictionary = o.dictionary /\ ref.literals = literals.bytes /\ ref.limit = m
    BY <1>7
  <2>6. Listed(literals.bytes) /\ o.dictionary.present \in BOOLEAN
        /\ (o.dictionary.present => o.dictionary.content \in Seq(Nat))
    <3>1. Listed(literals.bytes)
      BY <1>2, <2>1, LiteralsListed
    <3>2. /\ o.dictionary.present \in BOOLEAN
          /\ o.dictionary.present => o.dictionary.content \in Seq(Nat)
      BY SetupsAssumption DEF Configured
    <3> QED BY <3>1, <3>2
  <2>7. GoodBlk(blk)
    BY <1>1, <2>4, <2>6 DEF GoodBlk, GoodEnv
  <2>8. GoodBlk(ref)
    BY <1>1, <2>5, <2>6 DEF GoodBlk, GoodEnv
  <2>9. Alike(same, blk, b, ref, w)
    <3>1. Len(b) - blk.start = Len(w) - ref.start
      BY <1>1, <2>4, <2>5
    <3> QED BY <2>4, <2>5, <3>1 DEF Alike, AlikeEnv
  <2>10. ref.frame_start <= Len(w)
    BY <2>5 DEF AlikeEnv
  <2>11. GoodAcc(blk, x) /\ GoodAcc(ref, y) /\ Keeping(same, b, w, x, y)
    <3>1. PICK reps, sound : reps = entropy.repeat_offsets /\ sound = u.body.sound
      OBVIOUS
    <3>2. reps \in Triples /\ sound \in BOOLEAN
      BY <2>1, <3>1 DEF GoodEntropy
    <3>3. x = decode_and_execute_sequences(blk, b, reps, seqs, sound)
          /\ y = decode_and_execute_sequences(ref, w, reps, seqs, sound)
      BY <1>8, <3>1
    <3>4. blk.start = Len(b) /\ ref.start = Len(w)
      BY <2>4, <2>5
    <3> QED BY <2>3, <2>7, <2>8, <2>9, <2>10, <3>2, <3>3, <3>4, ExecutedAlike
  <2>12. PICK h : h = literals.table
    OBVIOUS
  <2>13. d = CompressedOutcome(x, h, table, entropy) /\ e = CompressedOutcome(y, h, table, entropy)
    BY <1>13, <2>12
  <2>14. blk.start = Len(b)
    BY <2>4
  <2> QED BY <1>1, <2>7, <2>8, <2>11, <2>13, <2>14, EndsAlike
<1> QED BY <1>9, <1>11, <1>12, <1>13

\* One block of a frame, decoded behind the one-shot decoder's output and behind what the
\* streaming decoder has kept of it (DecodeBlock).
LEMMA BlockAlike ==
  ASSUME NEW o \in Configured, NEW u \in UnitsOf(o), u.kind = "block", u.block_type # "Reserved",
         NEW same \in BOOLEAN,
         NEW env, NEW l, GoodEnv(env, l), NEW rev, NEW m, GoodEnv(rev, m),
         NEW b, NEW w, AlikeEnv(same, env, l, b, rev, m, w), NEW entropy, GoodEntropy(o, entropy),
         NEW d, d = DecodeBlock(u, env, o.dictionary, l, b, entropy),
         NEW e, e = DecodeBlock(u, rev, o.dictionary, m, w, entropy)
  PROVE  SameOutcome(same, b, w, d, e)
<1>1. Listed(b) /\ Listed(w) /\ Limits(same, l, b, m, w) /\ rev.block_size_max = env.block_size_max
  BY DEF AlikeEnv, History
<1>2. /\ u.block_size \in Nat
      /\ u.block_type \in {"Raw", "Rle", "Compressed"}
      /\ u.block_type = "Raw" => u.body \in Seq(Nat) /\ Len(u.body) = u.block_size
  <2>1. IsUnit(u)
    BY SetupsAssumption DEF Configured
  <2> QED BY <2>1 DEF IsUnit, IsBlock
<1>3. CASE u.block_type = "Compressed"
  <2>1. u \in CompressedBlocks(o)
    BY <1>3 DEF CompressedBlocks
  <2>2. /\ d = decode_compressed_block(u.body, env, o.dictionary, l, b, entropy)
        /\ e = decode_compressed_block(u.body, rev, o.dictionary, m, w, entropy)
    BY <1>3 DEF DecodeBlock
  <2> QED BY <2>1, <2>2, CompressedAlike
<1>4. CASE u.block_type # "Compressed" /\ u.block_size > env.block_size_max
  <2>1. d = Failed("Corruption", b, entropy) /\ e = Failed("Corruption", w, entropy)
    BY <1>1, <1>4 DEF DecodeBlock
  <2> QED BY <1>1, <2>1, BothRefuse
<1>5. CASE u.block_type = "Raw" /\ ~(u.block_size > env.block_size_max)
  <2>1. d = append_bytes(u.body, l, b, entropy) /\ e = append_bytes(u.body, m, w, entropy)
    BY <1>1, <1>5 DEF DecodeBlock
  <2>2. Listed(u.body)
    BY <1>2, <1>5 DEF Listed
  <2> QED BY <1>1, <2>1, <2>2, BytesAlike
<1>6. CASE u.block_type = "Rle" /\ ~(u.block_size > env.block_size_max)
  <2>1. PICK bytes : bytes = [i \in 1..u.block_size |-> u.body[1]]
    OBVIOUS
  <2>2. d = append_bytes(bytes, l, b, entropy) /\ e = append_bytes(bytes, m, w, entropy)
    BY <1>1, <1>6, <2>1 DEF DecodeBlock
  <2>3. Listed(bytes)
    <3>1. bytes = [i \in 1..u.block_size |-> bytes[i]]
      BY <2>1
    <3> QED BY <1>2, <3>1, ListsMade
  <2> QED BY <1>1, <2>2, <2>3, BytesAlike
<1> QED BY <1>2, <1>3, <1>4, <1>5, <1>6

\* A block only appends.
LEMMA BlockExtends ==
  ASSUME NEW o \in Configured, NEW u \in UnitsOf(o), u.kind = "block", u.block_type # "Reserved",
         NEW env, NEW l, GoodEnv(env, l), NEW b, Listed(b), env.frame_start \in Nat,
         env.frame_start <= Len(b), NEW entropy, GoodEntropy(o, entropy),
         NEW d, d = DecodeBlock(u, env, o.dictionary, l, b, entropy)
  PROVE  Extends(b, d.out)
<1>1. PICK n \in Nat, f \in Nat : n = Len(b) /\ f = env.frame_start
  BY ListsJoin
<1>2. n - f \in Nat /\ n - f <= n
  BY <1>1
<1>3. SameTail(b, b, n - f)
  BY <1>1, <1>2 DEF SameTail
<1>4. History(b, f, b, f, env.window_size)
  BY <1>1, <1>2, <1>3 DEF History
<1>5. PICK same \in BOOLEAN : same = TRUE
  OBVIOUS
<1>6. AlikeEnv(same, env, l, b, env, l, b)
  BY <1>1, <1>4 DEF AlikeEnv, Limits
<1>7. SameOutcome(same, b, b, d, d)
  BY <1>6, BlockAlike
<1>8. Grown(b, b, d.out, d.out)
  BY <1>5, <1>7 DEF SameOutcome
<1> QED BY <1>8, GrownExtends

-----------------------------------------------------------------------------
\* What the buffer and what was delivered from it come to.

\* Two cuts that meet make one.
LEMMA CutJoin ==
  ASSUME NEW s, Listed(s), NEW c \in 0..Len(s), NEW b \in 0..c, NEW a \in 0..b
  PROVE  /\ SubSeq(s, a + 1, b) \o SubSeq(s, b + 1, c) = SubSeq(s, a + 1, c)
         /\ Listed(SubSeq(s, a + 1, b)) /\ Len(SubSeq(s, a + 1, b)) = b - a
<1>1. PICK l \in Nat : l = Len(s)
  BY ListsJoin
<1>2. PICK i \in Nat, j \in Nat, k \in Nat : i = a /\ j = b /\ k = c /\ i <= j /\ j <= k /\ k <= l
  BY <1>1
<1>3. ASSUME NEW m \in Nat, NEW n \in Nat, m <= n, n <= l
      PROVE  /\ Listed(SubSeq(s, m + 1, n)) /\ Len(SubSeq(s, m + 1, n)) = n - m
             /\ \A h \in 1..(n - m) : SubSeq(s, m + 1, n)[h] = s[m + h]
  <2>1. m + 1 \in 1..(Len(s) + 1) /\ n \in ((m + 1) - 1)..Len(s)
    BY <1>1, <1>3
  <2>2. Listed(SubSeq(s, m + 1, n)) /\ Len(SubSeq(s, m + 1, n)) = n - (m + 1) + 1
    BY <2>1, ListsCut
  <2>3. ASSUME NEW h \in 1..(n - m) PROVE SubSeq(s, m + 1, n)[h] = s[m + h]
    <3>1. h \in 1..(n - (m + 1) + 1) /\ (m + 1) + h - 1 = m + h
      BY <1>3
    <3>2. SubSeq(s, m + 1, n)[h] = s[(m + 1) + h - 1]
      BY <2>1, <3>1, CutAt
    <3> QED BY <3>1, <3>2
  <2> QED BY <1>3, <2>2, <2>3
<1>4. PICK p : p = SubSeq(s, i + 1, j)
  OBVIOUS
<1>5. PICK q : q = SubSeq(s, j + 1, k)
  OBVIOUS
<1>6. PICK r : r = SubSeq(s, i + 1, k)
  OBVIOUS
<1>7. /\ Listed(p) /\ Len(p) = j - i /\ \A h \in 1..(j - i) : p[h] = s[i + h]
  BY <1>2, <1>3, <1>4
<1>8. /\ Listed(q) /\ Len(q) = k - j /\ \A h \in 1..(k - j) : q[h] = s[j + h]
  BY <1>2, <1>3, <1>5
<1>9. /\ Listed(r) /\ Len(r) = k - i /\ \A h \in 1..(k - i) : r[h] = s[i + h]
  BY <1>2, <1>3, <1>6
<1>10. Listed(p \o q) /\ Len(p \o q) = k - i
  BY <1>2, <1>7, <1>8, ListsJoin
<1>11. ASSUME NEW h \in 1..(k - i) PROVE (p \o q)[h] = r[h]
  <2>1. (p \o q)[h] = IF h <= j - i THEN p[h] ELSE q[h - (j - i)]
    <3>1. h \in 1..(Len(p) + Len(q))
      BY <1>2, <1>7, <1>8
    <3>2. (p \o q)[h] = IF h <= Len(p) THEN p[h] ELSE q[h - Len(p)]
      BY <1>7, <1>8, <3>1, JoinAt
    <3> QED BY <1>7, <3>2
  <2>2. CASE h <= j - i
    <3>1. h \in 1..(j - i)
      BY <1>2, <2>2
    <3> QED BY <1>7, <1>9, <2>1, <2>2, <3>1
  <2>3. CASE ~(h <= j - i)
    <3>1. PICK g \in 1..(k - j) : g = h - (j - i) /\ j + g = i + h
      BY <1>2, <2>3
    <3> QED BY <1>8, <1>9, <2>1, <2>3, <3>1
  <2> QED BY <2>2, <2>3
<1>12. p \o q = r
  BY <1>9, <1>10, <1>11, SameLists
<1> QED BY <1>2, <1>4, <1>5, <1>6, <1>7, <1>12

\* A list is a beginning of it and the rest.
LEMMA Split ==
  ASSUME NEW s, Listed(s), NEW b \in Nat, b <= Len(s)
  PROVE  /\ SubSeq(s, 1, b) \o SubSeq(s, b + 1, Len(s)) = s
         /\ Listed(SubSeq(s, 1, b)) /\ Len(SubSeq(s, 1, b)) = b
         /\ Listed(SubSeq(s, b + 1, Len(s))) /\ Len(SubSeq(s, b + 1, Len(s))) = Len(s) - b
         /\ Len(s) \in Nat
<1>1. PICK l \in Nat : l = Len(s)
  BY ListsJoin
<1>2. l \in 0..Len(s) /\ b \in 0..l /\ 0 \in 0..b /\ b \in 0..b /\ l \in 0..l
  BY <1>1
<1>3. /\ SubSeq(s, 0 + 1, b) \o SubSeq(s, b + 1, l) = SubSeq(s, 0 + 1, l)
      /\ Listed(SubSeq(s, 0 + 1, b)) /\ Len(SubSeq(s, 0 + 1, b)) = b - 0
  BY <1>2, CutJoin
<1>4. Listed(SubSeq(s, b + 1, l)) /\ Len(SubSeq(s, b + 1, l)) = l - b
  BY <1>2, CutJoin
<1>5. SubSeq(s, 1, l) = s
  BY <1>1, WholeCut
<1>6. 0 + 1 = 1 /\ b - 0 = b
  OBVIOUS
<1> QED BY <1>1, <1>3, <1>4, <1>5, <1>6

\* del holds what a buffer out ever held in front of its pos-th byte.
Delivers(del, out, pos) == \E z : Listed(z) /\ del = z \o SubSeq(out, 1, pos)

\* x ends with out.
EndsWith(x, out) == \E z : Listed(z) /\ x = z \o out

\* Everything produced is what was dropped, and the buffer.
LEMMA BehindJoins ==
  ASSUME NEW del, NEW out, Listed(out), NEW pos \in Nat, pos <= Len(out), Delivers(del, out, pos)
  PROVE  EndsWith(del \o SubSeq(out, pos + 1, Len(out)), out)
<1>1. PICK z : Listed(z) /\ del = z \o SubSeq(out, 1, pos)
  BY DEF Delivers
<1>2. PICK a : a = SubSeq(out, 1, pos)
  OBVIOUS
<1>3. PICK c : c = SubSeq(out, pos + 1, Len(out))
  OBVIOUS
<1>4. Listed(a) /\ Listed(c) /\ a \o c = out
  BY <1>2, <1>3, Split
<1>5. (z \o a) \o c = z \o (a \o c)
  <2>1. Listed(z) /\ Listed(a) /\ Listed(c)
    BY <1>1, <1>4
  <2>2. Regroup(z, a, c)
    BY <2>1, Regroups
  <2> QED BY <2>2 DEF Regroup
<1> QED BY <1>1, <1>2, <1>3, <1>4, <1>5 DEF EndsWith

\* Joining associates, for lists joined before.
LEMMA JoinedJoin ==
  ASSUME NEW a, Listed(a), NEW b, Listed(b), NEW c, Listed(c), NEW p, p = a \o b,
         NEW q, q = b \o c
  PROVE  p \o c = a \o q
BY JoinsJoin

\* What was delivered, and what the buffer still has to deliver.
AllOf(del, out, pos) == del \o SubSeq(out, pos + 1, Len(out))

\* A drain up to p that drops d bytes delivers them and leaves del2 and out2.
DrainsTo(del, out, pos, p, d, del2, out2, e) ==
  /\ Listed(del) /\ Listed(out) /\ pos \in Nat /\ Delivers(del, out, pos)
  /\ p \in Nat /\ pos <= p /\ p <= Len(out) /\ d \in Nat /\ d <= p /\ e = p - d
  /\ del2 = del \o SubSeq(out, pos + 1, p)
  /\ out2 = SubSeq(out, d + 1, Len(out))

\* It produces nothing (consume_output).
LEMMA DrainedBehind ==
  ASSUME NEW del, NEW out, NEW pos, NEW p, NEW d, NEW del2, NEW out2, NEW e,
         DrainsTo(del, out, pos, p, d, del2, out2, e)
  PROVE  Delivers(del2, out2, e) /\ AllOf(del2, out2, e) = AllOf(del, out, pos)
<1>1. /\ Listed(del) /\ Listed(out) /\ pos \in Nat /\ Delivers(del, out, pos)
      /\ p \in Nat /\ pos <= p /\ p <= Len(out) /\ d \in Nat /\ d <= p /\ e = p - d
      /\ del2 = del \o SubSeq(out, pos + 1, p)
      /\ out2 = SubSeq(out, d + 1, Len(out))
  BY DEF DrainsTo
<1>2. PICK z : Listed(z) /\ del = z \o SubSeq(out, 1, pos)
  BY <1>1 DEF Delivers
<1>3. PICK l \in Nat : l = Len(out)
  BY ListsJoin
<1>4. e \in Nat /\ e = p - d /\ e <= l - d /\ l - d \in Nat
  BY <1>1, <1>3
<1>5. PICK a : a = SubSeq(out, 1, d)
  OBVIOUS
<1>6. Listed(a) /\ Len(a) = d /\ Listed(out2) /\ Len(out2) = l - d /\ a \o out2 = out
  <2>1. d <= Len(out)
    BY <1>1, <1>3
  <2> QED BY <1>1, <1>3, <1>5, <2>1, Split
<1>7. PICK b : b = SubSeq(out2, 1, e)
  OBVIOUS
<1>8. PICK c : c = SubSeq(out2, e + 1, Len(out2))
  OBVIOUS
<1>9. Listed(b) /\ Len(b) = e /\ Listed(c) /\ b \o c = out2 /\ Len(c) = (l - d) - e
  <2>1. e <= Len(out2)
    BY <1>4, <1>6
  <2>2. Listed(out2)
    BY <1>6
  <2>3. /\ SubSeq(out2, 1, e) \o SubSeq(out2, e + 1, Len(out2)) = out2
        /\ Listed(SubSeq(out2, 1, e)) /\ Len(SubSeq(out2, 1, e)) = e
        /\ Listed(SubSeq(out2, e + 1, Len(out2)))
        /\ Len(SubSeq(out2, e + 1, Len(out2))) = Len(out2) - e
    <3>1. e \in Nat
      BY <1>4
    <3> QED BY <2>1, <2>2, <3>1, Split
  <2> QED BY <1>6, <1>7, <1>8, <2>3
<1>10. Listed(a \o b) /\ Len(a \o b) = p
  <2>1. Listed(a) /\ Listed(b)
    BY <1>6, <1>9
  <2>2. Listed(a \o b) /\ Len(a \o b) = Len(a) + Len(b)
    BY <2>1, ListsJoin
  <2>3. Len(a) + Len(b) = p
    BY <1>1, <1>4, <1>6, <1>9
  <2> QED BY <2>2, <2>3
<1>11. out = (a \o b) \o c
  <2>1. Listed(a) /\ Listed(b) /\ Listed(c)
    BY <1>6, <1>9
  <2>2. (a \o b) \o c = a \o (b \o c)
    BY <2>1, JoinedJoin
  <2> QED BY <1>6, <1>9, <2>2
<1>12. SubSeq(out, 1, p) = a \o b /\ SubSeq(out, p + 1, l) = c
  <2>1. SubSeq(out, 1, p) \o SubSeq(out, p + 1, l) = out
        /\ Listed(SubSeq(out, 1, p)) /\ Len(SubSeq(out, 1, p)) = p
    BY <1>1, <1>3, Split
  <2>2. SubSeq(a \o out2, 1, Len(a) + e) = a \o SubSeq(out2, 1, e)
    <3>1. e \in 0..Len(out2)
      BY <1>4, <1>6
    <3>2. Listed(a) /\ Listed(out2)
      BY <1>6
    <3> QED BY <3>1, <3>2, JoinCut
  <2>3. Len(a) + e = p
    BY <1>1, <1>4, <1>6
  <2>4. SubSeq((a \o b) \o c, Len(a \o b) + 1, Len(a \o b) + Len(c)) = c
    BY <1>9, <1>10, JoinRest
  <2>5. Len(a \o b) + Len(c) = l
    BY <1>1, <1>4, <1>9, <1>10
  <2> QED BY <1>6, <1>7, <1>10, <1>11, <2>2, <2>3, <2>4, <2>5
<1>13. PICK f : f = SubSeq(out, 1, pos)
  OBVIOUS
<1>14. PICK g : g = SubSeq(out, pos + 1, p)
  OBVIOUS
<1>15. Listed(f) /\ Listed(g) /\ f \o g = a \o b /\ g \o c = SubSeq(out, pos + 1, l)
  <2>1. l \in 0..Len(out) /\ p \in 0..l /\ pos \in 0..p /\ p \in 0..Len(out) /\ 0 \in 0..pos /\ pos \in 0..Len(out) /\ pos \in 0..pos
    BY <1>1, <1>3
  <2>2. /\ SubSeq(out, 0 + 1, pos) \o SubSeq(out, pos + 1, p) = SubSeq(out, 0 + 1, p)
        /\ Listed(SubSeq(out, 0 + 1, pos))
    BY <1>1, <2>1, CutJoin
  <2>3. /\ SubSeq(out, pos + 1, p) \o SubSeq(out, p + 1, l) = SubSeq(out, pos + 1, l)
        /\ Listed(SubSeq(out, pos + 1, p))
    BY <1>1, <2>1, CutJoin
  <2>4. 0 + 1 = 1
    OBVIOUS
  <2> QED BY <1>12, <1>13, <1>14, <2>2, <2>3, <2>4
<1>16. del2 = (z \o a) \o b
  <2>1. del2 = (z \o f) \o g
    BY <1>1, <1>2, <1>13, <1>14
  <2>2. Listed(z) /\ Listed(f) /\ Listed(g) /\ Listed(a) /\ Listed(b)
    BY <1>2, <1>6, <1>9, <1>15
  <2>3. PICK q : q = f \o g /\ q = a \o b
    BY <1>15
  <2>4. PICK v : v = z \o f
    OBVIOUS
  <2>5. PICK r : r = z \o a
    OBVIOUS
  <2>6. q = f \o g
    BY <2>3
  <2>7. q = a \o b
    BY <2>3
  <2>8. v \o g = z \o q
    <3>1. Listed(z) /\ Listed(f) /\ Listed(g)
      BY <2>2
    <3> QED BY <2>4, <2>6, <3>1, JoinedJoin
  <2>9. r \o b = z \o q
    <3>1. Listed(z) /\ Listed(a) /\ Listed(b)
      BY <2>2
    <3> QED BY <2>5, <2>7, <3>1, JoinedJoin
  <2> QED BY <2>1, <2>4, <2>5, <2>8, <2>9
<1>17. Delivers(del2, out2, e)
  <2>1. Listed(z \o a)
    BY <1>2, <1>6, ListsJoin
  <2> QED BY <1>7, <1>16, <2>1 DEF Delivers
<1>18. del2 \o c = del \o SubSeq(out, pos + 1, l)
  <2>1. Listed(g) /\ Listed(c)
    BY <1>9, <1>15
  <2>2. (del \o g) \o c = del \o (g \o c)
    BY <2>1, JoinedJoin
  <2> QED BY <1>1, <1>14, <1>15, <2>2
<1> QED BY <1>3, <1>4, <1>8, <1>17, <1>18 DEF AllOf

\* What is appended to a list is appended to any rest of it.
LEMMA RestGrows ==
  ASSUME NEW out, Listed(out), NEW pos \in Nat, pos <= Len(out), NEW m, Listed(m)
  PROVE  /\ SubSeq(out \o m, pos + 1, Len(out \o m)) = SubSeq(out, pos + 1, Len(out)) \o m
         /\ SubSeq(out \o m, 1, pos) = SubSeq(out, 1, pos)
         /\ Listed(SubSeq(out, pos + 1, Len(out)))
<1>1. PICK l \in Nat, k \in Nat : l = Len(out) /\ k = Len(m)
  BY ListsJoin
<1>2. PICK x : x = out \o m
  OBVIOUS
<1>3. Listed(x) /\ Len(x) = l + k
  BY <1>1, <1>2, ListsJoin
<1>4. Extends(out, x)
  BY <1>2 DEF Extends
<1>5. SubSeq(x, 1, pos) = SubSeq(out, 1, pos)
  <2>1. pos \in 0..Len(out)
    BY <1>1
  <2> QED BY <1>4, <2>1, BeginningStays
<1>6. PICK a : a = SubSeq(out, 1, pos)
  OBVIOUS
<1>7. PICK c : c = SubSeq(out, pos + 1, Len(out))
  OBVIOUS
<1>8. Listed(a) /\ Len(a) = pos /\ Listed(c) /\ Len(c) = l - pos /\ a \o c = out
  BY <1>1, <1>6, <1>7, Split
<1>9. Listed(c \o m) /\ Len(c \o m) = (l - pos) + k
  BY <1>1, <1>8, ListsJoin
<1>10. x = a \o (c \o m)
  <2>1. Listed(a) /\ Listed(c)
    BY <1>8
  <2>2. (a \o c) \o m = a \o (c \o m)
    <3>1. Regroup(a, c, m)
      BY <2>1, Regroups
    <3> QED BY <3>1 DEF Regroup
  <2> QED BY <1>2, <1>8, <2>2
<1>11. SubSeq(a \o (c \o m), Len(a) + 1, Len(a) + Len(c \o m)) = c \o m
  BY <1>8, <1>9, JoinRest
<1>12. Len(a) + Len(c \o m) = l + k
  BY <1>1, <1>8, <1>9
<1>13. SubSeq(x, pos + 1, Len(x)) = c \o m
  BY <1>3, <1>8, <1>10, <1>11, <1>12
<1> QED BY <1>2, <1>5, <1>7, <1>8, <1>13

\* What a block appends to the buffer is appended to what was produced.
LEMMA AppendedBehind ==
  ASSUME NEW del, Listed(del), NEW out, Listed(out), NEW pos \in Nat, pos <= Len(out),
         Delivers(del, out, pos), NEW m, Listed(m)
  PROVE  /\ Delivers(del, out \o m, pos)
         /\ AllOf(del, out \o m, pos) = AllOf(del, out, pos) \o m
<1>1. PICK c : c = SubSeq(out, pos + 1, Len(out))
  OBVIOUS
<1>2. /\ SubSeq(out \o m, pos + 1, Len(out \o m)) = c \o m
      /\ SubSeq(out \o m, 1, pos) = SubSeq(out, 1, pos)
      /\ Listed(c)
  BY <1>1, RestGrows
<1>3. Delivers(del, out \o m, pos)
  BY <1>2 DEF Delivers
<1>4. del \o (c \o m) = (del \o c) \o m
  <2>1. Listed(c)
    BY <1>2
  <2> QED BY <2>1, JoinedJoin
<1> QED BY <1>1, <1>2, <1>3, <1>4 DEF AllOf

-----------------------------------------------------------------------------
\* What the decoder has produced.

\* What was delivered ends with what the buffer still holds of it.
KeptInv == Delivers(delivered, output, output_pos)

\* Everything produced is what was dropped from the buffer, and the buffer.
LEMMA ProducedIs ==
  ASSUME BufferInv, KeptInv
  PROVE  \E z : Listed(z) /\ Produced = z \o output
<1>1. Listed(output) /\ output_pos \in Nat /\ output_pos <= Len(output)
  BY DEF BufferInv
<1>2. Delivers(delivered, output, output_pos)
  BY DEF KeptInv
<1>3. EndsWith(delivered \o SubSeq(output, output_pos + 1, Len(output)), output)
  BY <1>1, <1>2, BehindJoins
<1> QED BY <1>3 DEF EndsWith, Produced, Pending

\* A drain delivers, and produces nothing.
LEMMA TakeBehind ==
  ASSUME StreamInv, KeptInv, NEW n \in Nat, n <= Len(output) - output_pos, Take(n)
  PROVE  KeptInv' /\ UNCHANGED Produced
<1>1. /\ Listed(output) /\ Listed(delivered) /\ output_pos \in Nat /\ output_pos <= Len(output)
      /\ Len(output) \in Nat
  BY Counted DEF StreamInv, BufferInv
<1>2. PICK l \in Nat, p \in Nat : l = Len(output) /\ p = output_pos + n /\ p <= l /\ output_pos <= p
  <2>1. output_pos + n \in Nat /\ output_pos + n <= Len(output) /\ output_pos <= output_pos + n
    BY <1>1
  <2> QED BY <1>1, <2>1
<1>3. /\ frame.open \in BOOLEAN
      /\ frame.open => frame.window_size \in Nat
  BY WindowOf DEF StreamInv, FrameInv, InputInv
<1>4. PICK d \in 0..p : d = compact_output(l, p, frame.open, frame.window_size)
  BY <1>2, <1>3, OutputDrops
<1>5. /\ delivered' = delivered \o SubSeq(output, output_pos + 1, p)
      /\ output' = SubSeq(output, d + 1, Len(output))
      /\ output_pos' = p - d
  BY <1>2, <1>4 DEF Take
<1>6. d \in Nat /\ d <= p
  BY <1>4
<1>7. PICK x, y, z : x = delivered' /\ y = output' /\ z = output_pos'
  OBVIOUS
<1>8. x = delivered \o SubSeq(output, output_pos + 1, p) /\ y = SubSeq(output, d + 1, Len(output))
      /\ z = p - d
  BY <1>5, <1>7
<1>9. /\ Delivers(x, y, z)
      /\ x \o SubSeq(y, z + 1, Len(y)) = delivered \o SubSeq(output, output_pos + 1, Len(output))
  <2>1. Delivers(delivered, output, output_pos)
    BY DEF KeptInv
  <2>2. Listed(output) /\ Listed(delivered) /\ output_pos \in Nat
    BY <1>1
  <2>3. output_pos <= p /\ p <= Len(output) /\ d <= p /\ d \in Nat /\ p \in Nat
    BY <1>2, <1>6
  <2>4. x = delivered \o SubSeq(output, output_pos + 1, p)
    BY <1>8
  <2>5. y = SubSeq(output, d + 1, Len(output))
    BY <1>8
  <2>6. z = p - d
    BY <1>8
  <2>7. DrainsTo(delivered, output, output_pos, p, d, x, y, z)
    BY <2>1, <2>2, <2>3, <2>4, <2>5, <2>6 DEF DrainsTo
  <2>8. Delivers(x, y, z) /\ AllOf(x, y, z) = AllOf(delivered, output, output_pos)
    BY <2>7, DrainedBehind
  <2> QED BY <2>8 DEF AllOf
<1> QED BY <1>7, <1>8, <1>9 DEF KeptInv, Produced, Pending

\* So do read and take_output.
LEMMA DrainBehind ==
  ASSUME StreamInv, KeptInv, Drain
  PROVE  KeptInv' /\ UNCHANGED Produced
<1>1. /\ Listed(output) /\ Listed(delivered) /\ output_pos \in Nat /\ output_pos <= Len(output)
      /\ Len(output) \in Nat /\ Len(Pending) = Len(output) - output_pos
  BY Counted DEF StreamInv, BufferInv
<1>2. ASSUME NEW n \in Drains, read(n) PROVE KeptInv' /\ UNCHANGED Produced
  <2>1. PICK m : m = Least(n, Len(Pending))
    OBVIOUS
  <2>2. n \in Nat
    BY StreamDecoderAssumption
  <2>3. PICK l \in Nat : l = Len(output) - output_pos
    BY <1>1
  <2>4. m \in Nat /\ m <= l
    BY <1>1, <2>1, <2>2, <2>3 DEF Least
  <2>5. Take(m)
    BY <1>2, <2>1 DEF read
  <2> QED BY <2>3, <2>4, <2>5, TakeBehind
<1>3. CASE take_output /\ ~(output_pos = 0 /\ ~frame.open)
  <2>1. Take(Len(output) - output_pos)
    BY <1>1, <1>3 DEF take_output
  <2>2. Len(output) - output_pos \in Nat /\ Len(output) - output_pos <= Len(output) - output_pos
    BY <1>1
  <2> QED BY <2>1, <2>2, TakeBehind
<1>4. CASE take_output /\ output_pos = 0 /\ ~frame.open
  <2>1. delivered' = delivered \o output /\ output' = << >> /\ output_pos' = 0
    BY <1>4 DEF take_output
  <2>2. SubSeq(output, 1, Len(output)) = output
    BY <1>1, WholeCut
  <2>3. SubSeq(<< >>, 1, 0) = << >>
    <3>1. Listed(<< >>) /\ Len(<< >>) = 0
      BY NoneListed
    <3> QED BY <3>1, WholeCut
  <2>4. Listed(delivered \o output)
    BY <1>1, ListsJoin
  <2>5. (delivered \o output) \o << >> = delivered \o output
    BY <2>4, NoneJoined
  <2>6. KeptInv'
    BY <2>1, <2>3, <2>4, <2>5 DEF KeptInv, Delivers
  <2>7. Produced = delivered \o output
    BY <1>4, <2>2 DEF Produced, Pending
  <2>8. Produced' = delivered \o output
    <3>1. Len(<< >>) = 0 /\ 0 + 1 = 1
      BY NoneListed
    <3>2. SubSeq(output', output_pos' + 1, Len(output')) = << >>
      BY <2>1, <2>3, <3>1
    <3> QED BY <2>1, <2>5, <3>2 DEF Produced, Pending
  <2> QED BY <2>6, <2>7, <2>8
<1> QED BY <1>2, <1>3, <1>4 DEF Drain

\* A frame's header reclaims drained bytes only.
LEMMA HeaderBehind ==
  ASSUME StreamInv, KeptInv, process_zstandard_header
  PROVE  KeptInv' /\ UNCHANGED Produced
<1>1. /\ Listed(output) /\ Listed(delivered) /\ output_pos \in Nat /\ output_pos <= Len(output)
      /\ Len(output) \in Nat
  BY Counted DEF StreamInv, BufferInv
<1>2. PICK d \in 0..output_pos : d = compact_between_frames(Len(output), output_pos)
  BY <1>1, BetweenDrops
<1>3. delivered' = delivered /\ output' = SubSeq(output, d + 1, Len(output)) /\ output_pos' = output_pos - d
  BY <1>2 DEF process_zstandard_header
<1>4. PICK p \in Nat : p = output_pos /\ d \in Nat /\ d <= p /\ p <= Len(output)
  BY <1>1, <1>2
<1>5. PICK x, y, z : x = delivered' /\ y = output' /\ z = output_pos'
  OBVIOUS
<1>6. SubSeq(output, p + 1, p) = << >>
  BY <1>1, <1>4
<1>7. x = delivered \o SubSeq(output, output_pos + 1, p)
  BY <1>1, <1>3, <1>4, <1>5, <1>6, NoneJoined
<1>8. y = SubSeq(output, d + 1, Len(output)) /\ z = p - d /\ output_pos <= p
  BY <1>3, <1>4, <1>5
<1>9. /\ Delivers(x, y, z)
      /\ x \o SubSeq(y, z + 1, Len(y)) = delivered \o SubSeq(output, output_pos + 1, Len(output))
  <2>1. Delivers(delivered, output, output_pos)
    BY DEF KeptInv
  <2>2. Listed(output) /\ Listed(delivered) /\ output_pos \in Nat
    BY <1>1
  <2>3. output_pos <= p /\ p <= Len(output) /\ d <= p /\ d \in Nat /\ p \in Nat
    BY <1>4, <1>8
  <2>4. y = SubSeq(output, d + 1, Len(output))
    BY <1>8
  <2>5. z = p - d
    BY <1>8
  <2>6. DrainsTo(delivered, output, output_pos, p, d, x, y, z)
    BY <2>1, <2>2, <2>3, <1>7, <2>4, <2>5 DEF DrainsTo
  <2>7. Delivers(x, y, z) /\ AllOf(x, y, z) = AllOf(delivered, output, output_pos)
    BY <2>6, DrainedBehind
  <2> QED BY <2>7 DEF AllOf
<1> QED BY <1>5, <1>8, <1>9 DEF KeptInv, Produced, Pending

\* Of an open frame the buffer holds all, or more than a window (compact_output).
LEMMA Retained ==
  ASSUME Window!IInv, frame.open
  PROVE  /\ frame.frame_start \in Nat /\ frame.frame_start <= Len(output)
         /\ frame.origin \in Nat /\ frame.origin <= Len(Produced) /\ Len(Produced) \in Nat
         /\ Len(output) - frame.frame_start <= Len(Produced) - frame.origin
         /\ \/ Len(output) - frame.frame_start = Len(Produced) - frame.origin
            \/ Len(output) - frame.frame_start > frame.window_size
<1>1. Window!TypeOK /\ Window!QueueExact /\ Window!FrameAnchored /\ frame.origin <= Len(Produced)
  BY DEF Window!IInv
<1>2. Window!HistoryKept
  BY Window!HistoryKeptFromInv, WindowAssumption
<1>3. \/ Len(output) - frame.frame_start = Len(Produced) - frame.origin
      \/ Len(output) - frame.frame_start > frame.window_size
  BY <1>2 DEF Window!HistoryKept, Window!Held, Window!FrameMade
<1>4. PICK l, p, f, d, m, o, b :
        /\ l = Len(output) /\ p = output_pos /\ f = frame.frame_start /\ d = Len(delivered)
        /\ m = Len(Produced) /\ o = frame.origin /\ b = Len(delivered) - output_pos
  OBVIOUS
<1>5. l \in Nat /\ p \in 0..l /\ f \in Nat /\ d \in Nat /\ m \in Nat /\ o \in Nat /\ b \in Nat
  BY <1>1, <1>4 DEF Window!TypeOK
<1>6. b + p = d /\ d + (l - p) = m
  BY <1>1, <1>4 DEF Window!QueueExact
<1>7. f <= l /\ b + f = IF b <= o THEN o ELSE b
  BY <1>1, <1>4 DEF Window!FrameAnchored
<1>8. l - f <= m - o
  <2>1. b + f >= o
    BY <1>5, <1>7
  <2>2. m = b + l
    BY <1>5, <1>6
  <2> QED BY <1>5, <2>1, <2>2
<1> QED BY <1>1, <1>3, <1>4, <1>5, <1>7, <1>8

\* What a block leaves in the buffer it has appended, and so produced.
LEMMA BlockBehind ==
  ASSUME StreamInv, KeptInv, Window!IInv, state.tag = "BlockPayload", frame.open,
         NEW d, d = decode_block(state.header), output' = d.out, UNCHANGED <<output_pos, delivered>>
  PROVE  KeptInv' /\ \E m : Listed(m) /\ d.out = output \o m /\ Produced' = Produced \o m
<1>1. options \in Configured /\ InputInv /\ BufferInv /\ FrameInv /\ StateInv /\ OpenFrame(frame)
  BY DEF StreamInv, InputInv, FrameInv
<1>2. /\ state.header \in UnitsOf(options) /\ state.header.kind = "block"
      /\ state.header.block_type # "Reserved"
  BY <1>1 DEF StateInv
<1>3. Extends(output, d.out)
  <2>1. PICK env : env = [frame_start |-> frame.frame_start, window_size |-> frame.window_size,
                          block_size_max |-> frame.header.block_size_max]
    OBVIOUS
  <2>2. PICK limit : limit = [produced_before |-> saturating_sub(total_output_size, Len(output)),
                              max_output_size |-> options.max_output_size]
    OBVIOUS
  <2>3. d = DecodeBlock(state.header, env, options.dictionary, limit, output, frame.entropy)
    BY <2>1, <2>2 DEF decode_block
  <2>4. frame.frame_start \in Nat /\ frame.frame_start <= Len(output)
    BY Retained
  <2>5. frame.window_size \in Nat /\ frame.header.block_size_max \in Nat
    <3>1. /\ frame.window_size \in Nat
          /\ frame.header.block_size_max = Least(frame.window_size, BlockSizeMax)
      BY <1>1, WindowOf
    <3> QED BY <3>1, StreamDecoderAssumption DEF Least
  <2>6. saturating_sub(total_output_size, Len(output)) \in Nat
        /\ options.max_output_size \in Nat \cup {None}
    <3>1. PICK t \in Nat, l \in Nat : t = total_output_size /\ l = Len(output)
      BY <1>1, Counted DEF BufferInv
    <3>2. saturating_sub(t, l) \in Nat
      BY DEF saturating_sub
    <3>3. options.max_output_size \in Nat \cup {None}
      BY <1>1, SetupsAssumption DEF Configured
    <3> QED BY <3>1, <3>2, <3>3
  <2>7. GoodEnv(env, limit) /\ env.frame_start = frame.frame_start
    <3>1. env.frame_start = frame.frame_start /\ env.window_size = frame.window_size
          /\ env.block_size_max = frame.header.block_size_max
      BY <2>1
    <3>2. limit.produced_before = saturating_sub(total_output_size, Len(output))
          /\ limit.max_output_size = options.max_output_size
      BY <2>2
    <3>3. frame.frame_start \in Int
      BY <2>4
    <3> QED BY <2>5, <2>6, <3>1, <3>2, <3>3 DEF GoodEnv
  <2>8. Listed(output) /\ GoodEntropy(options, frame.entropy)
    BY <1>1 DEF BufferInv, OpenFrame
  <2> QED BY <1>1, <1>2, <2>3, <2>4, <2>7, <2>8, BlockExtends
<1>4. PICK m : Listed(m) /\ d.out = output \o m
  BY <1>3 DEF Extends
<1>5. /\ Listed(output) /\ Listed(delivered) /\ output_pos \in Nat /\ output_pos <= Len(output)
  BY <1>1 DEF BufferInv
<1>6. Delivers(delivered, output, output_pos)
  BY DEF KeptInv
<1>7. Listed(m)
  BY <1>4
<1>8. /\ Delivers(delivered, output \o m, output_pos)
      /\ AllOf(delivered, output \o m, output_pos) = AllOf(delivered, output, output_pos) \o m
  <2>1. PICK a, b, c : a = delivered /\ b = output /\ c = output_pos
    OBVIOUS
  <2>2. Listed(a) /\ Listed(b) /\ c \in Nat /\ c <= Len(b)
    BY <1>5, <2>1
  <2>3. Delivers(a, b, c)
    BY <1>6, <2>1
  <2>4. Delivers(a, b \o m, c) /\ AllOf(a, b \o m, c) = AllOf(a, b, c) \o m
    BY <1>7, <2>2, <2>3, AppendedBehind
  <2> QED BY <2>1, <2>4
<1>9. Produced = AllOf(delivered, output, output_pos)
      /\ Produced' = AllOf(delivered', output', output_pos')
  BY DEF Produced, Pending, AllOf
<1>10. output' = output \o m /\ delivered' = delivered /\ output_pos' = output_pos
  BY <1>4
<1>11. Produced' = Produced \o m
  BY <1>8, <1>9, <1>10
<1>12. KeptInv'
  BY <1>8, <1>10 DEF KeptInv
<1> QED BY <1>4, <1>11, <1>12

\* What is produced is the stream's.
LEMMA StreamGrows ==
  ASSUME BufferInv, stream_start \in Nat, stream_start <= Len(Produced), UNCHANGED stream_start,
         NEW m, Listed(m), Produced' = Produced \o m
  PROVE  StreamOutput' = StreamOutput \o m
<1>1. Listed(Produced)
  <2>1. /\ Listed(output) /\ Listed(delivered) /\ output_pos \in Nat /\ output_pos <= Len(output)
    BY DEF BufferInv
  <2>2. Listed(SubSeq(output, output_pos + 1, Len(output)))
    BY <2>1, Counts
  <2> QED BY <2>1, <2>2, ListsJoin DEF Produced, Pending
<1>2. SubSeq(Produced \o m, stream_start + 1, Len(Produced \o m))
        = SubSeq(Produced, stream_start + 1, Len(Produced)) \o m
  BY <1>1, RestGrows
<1> QED BY <1>2 DEF StreamOutput

\* What the stream has produced is a list as long as it is charged with.
LEMMA StreamListed ==
  ASSUME BufferInv, stream_start \in Nat, stream_start <= Len(Produced)
  PROVE  /\ Listed(Produced) /\ Len(Produced) \in Nat
         /\ Listed(StreamOutput) /\ Len(StreamOutput) = Len(Produced) - stream_start
<1>1. Listed(Produced)
  <2>1. /\ Listed(output) /\ Listed(delivered) /\ output_pos \in Nat /\ output_pos <= Len(output)
    BY DEF BufferInv
  <2>2. Listed(SubSeq(output, output_pos + 1, Len(output)))
    BY <2>1, Counts
  <2> QED BY <2>1, <2>2, ListsJoin DEF Produced, Pending
<1>2. /\ Listed(SubSeq(Produced, stream_start + 1, Len(Produced)))
      /\ Len(SubSeq(Produced, stream_start + 1, Len(Produced))) = Len(Produced) - stream_start
      /\ Len(Produced) \in Nat
  BY <1>1, Split
<1> QED BY <1>1, <1>2 DEF StreamOutput

-----------------------------------------------------------------------------
\* The one-shot decoder's run over the first n bytes of a wire.

\* Its state, spelled out.
Ref(out, result_, between, header, frame_start, entropy) ==
  [out |-> out, result |-> result_, between |-> between, header |-> header,
   frame_start |-> frame_start, entropy |-> entropy]

\* A state of its.
IsRef(st) == st = Ref(st.out, st.result, st.between, st.header, st.frame_start, st.entropy)

\* Before the first unit.
Began(o, n) ==
  Ref(<< >>, IF n = 0 THEN "UnexpectedEof" ELSE "Ok", TRUE, << >>, 0, FreshEntropy(o))

\* Fields of such a state.
LEMMA RefIs ==
  ASSUME NEW a, NEW b, NEW c, NEW d, NEW e, NEW f, NEW st, st = Ref(a, b, c, d, e, f)
  PROVE  /\ st.out = a /\ st.result = b /\ st.between = c /\ st.header = d
         /\ st.frame_start = e /\ st.entropy = f
         /\ IsRef(st)
BY DEF Ref, IsRef

\* A turn that only sets the result.
LEMMA ResultSet ==
  ASSUME NEW st, IsRef(st), NEW e
  PROVE  [st EXCEPT !.result = e] = Ref(st.out, e, st.between, st.header, st.frame_start, st.entropy)
<1>1. PICK a, b, c, d, f, g : st = [out |-> a, result |-> b, between |-> c, header |-> d,
                                    frame_start |-> f, entropy |-> g]
  BY DEF IsRef, Ref
<1> QED BY <1>1 DEF Ref

\* A frame that opens.
LEMMA OpenIs ==
  ASSUME NEW o, NEW st, IsRef(st), NEW u
  PROVE  Open(o, st, u) = Ref(st.out, RejectFrame(o, u, Len(st.out)), FALSE, u, Len(st.out), FreshEntropy(o))
<1>1. PICK a, b, c, d, f, g : st = [out |-> a, result |-> b, between |-> c, header |-> d,
                                    frame_start |-> f, entropy |-> g]
  BY DEF IsRef, Ref
<1>2. PICK r, l, e : r = RejectFrame(o, u, Len(st.out)) /\ l = Len(st.out) /\ e = FreshEntropy(o)
  OBVIOUS
<1>3. PICK x : x = [st EXCEPT !.result = r, !.between = FALSE]
  OBVIOUS
<1>4. x = [out |-> a, result |-> r, between |-> FALSE, header |-> d, frame_start |-> f, entropy |-> g]
  BY <1>1, <1>3
<1>5. PICK y : y = [x EXCEPT !.header = u, !.frame_start = l]
  OBVIOUS
<1>6. y = [out |-> a, result |-> r, between |-> FALSE, header |-> u, frame_start |-> l, entropy |-> g]
  BY <1>4, <1>5
<1>7. PICK z : z = [y EXCEPT !.entropy = e]
  OBVIOUS
<1>8. z = [out |-> a, result |-> r, between |-> FALSE, header |-> u, frame_start |-> l, entropy |-> e]
  BY <1>6, <1>7
<1>9. Open(o, st, u) = z
  BY <1>2, <1>3, <1>5, <1>7 DEF Open
<1>10. Len(st.out) = l
  BY <1>2
<1> QED BY <1>1, <1>2, <1>8, <1>9, <1>10 DEF Ref

\* What closing a frame makes of what it produced.
CloseVerdict(o, st, left) ==
  IF st.header.content_size # None /\ Len(st.out) - st.frame_start # st.header.content_size
  THEN "ContentSizeMismatch"
  ELSE IF o.single_frame /\ left # 0 THEN "TrailingInput" ELSE "Ok"

\* A frame that closes.
LEMMA CloseIs ==
  ASSUME NEW o, NEW st, IsRef(st), NEW left
  PROVE  Close(o, st, left)
           = Ref(st.out, CloseVerdict(o, st, left), TRUE, st.header, st.frame_start, st.entropy)
<1>1. PICK a, b, c, d, f, g : st = [out |-> a, result |-> b, between |-> c, header |-> d,
                                    frame_start |-> f, entropy |-> g]
  BY DEF IsRef, Ref
<1>2. PICK r : r = CloseVerdict(o, st, left)
  OBVIOUS
<1>3. PICK x : x = [st EXCEPT !.between = TRUE]
  OBVIOUS
<1>4. x = [out |-> a, result |-> b, between |-> TRUE, header |-> d, frame_start |-> f, entropy |-> g]
  BY <1>1, <1>3
<1>5. PICK y : y = [x EXCEPT !.result = r]
  OBVIOUS
<1>6. y = [out |-> a, result |-> r, between |-> TRUE, header |-> d, frame_start |-> f, entropy |-> g]
  BY <1>4, <1>5
<1>7. Close(o, st, left) = y
  BY <1>2, <1>3, <1>5 DEF Close, CloseVerdict
<1> QED BY <1>1, <1>2, <1>6, <1>7 DEF Ref

\* A block that decoded.
Finished(o, st, block, left, d, on) ==
  IF d.result = "Ok" /\ block.last_block /\ ~st.header.checksum
  THEN Ref(d.out, CloseVerdict(o, on, left), TRUE, st.header, st.frame_start, d.entropy)
  ELSE on
LEMMA BlockDone ==
  ASSUME NEW o, NEW st, IsRef(st), NEW block, NEW left, NEW d,
         NEW on, on = Ref(d.out, d.result, st.between, st.header, st.frame_start, d.entropy)
  PROVE  AfterBlock(o, st, block, left, d) = Finished(o, st, block, left, d, on)
<1>1. PICK a, b, c, h, f, g : st = [out |-> a, result |-> b, between |-> c, header |-> h,
                                    frame_start |-> f, entropy |-> g]
  BY DEF IsRef, Ref
<1>2. PICK x, y, z : x = d.out /\ y = d.entropy /\ z = d.result
  OBVIOUS
<1>3. PICK next : next = [st EXCEPT !.out = x, !.entropy = y, !.result = z]
  OBVIOUS
<1>4. next = Ref(x, z, c, h, f, y)
  BY <1>1, <1>3 DEF Ref
<1>5. /\ next.out = x /\ next.result = z /\ next.header = h /\ next.frame_start = f
      /\ next.entropy = y /\ IsRef(next)
  BY <1>4, RefIs
<1>6. Close(o, next, left) = Ref(x, CloseVerdict(o, next, left), TRUE, h, f, y)
  BY <1>5, CloseIs
<1>7. AfterBlock(o, st, block, left, d)
        = IF z = "Ok" /\ block.last_block /\ ~st.header.checksum THEN Close(o, next, left) ELSE next
  BY <1>2, <1>3 DEF AfterBlock
<1>8. st.between = c /\ st.header = h /\ st.frame_start = f
  BY <1>1
<1>9. on = next
  BY <1>2, <1>4, <1>8
<1> QED BY <1>2, <1>6, <1>7, <1>8, <1>9 DEF Finished

\* What the one-shot decoder, given the first n bytes of a wire, makes of its k-th unit.
TurnOf(o, w, n, st, k) == Step(o, st, w[k], n - EndOf(w, k - 1))

\* Its states behind the first m units, as decode_into builds them.
Steps(o, w, n, m, f) ==
  f = [k \in 0..m |-> IF k = 0 THEN Began(o, n) ELSE TurnOf(o, w, n, f[k - 1], k)]

\* They are a function.
LEMMA StepsExist == ASSUME NEW o, NEW w, NEW n, NEW m \in Nat PROVE \E f : Steps(o, w, n, m, f)
<1> DEFINE Bad == {k \in Nat : ~ \E p : Steps(o, w, n, k, p)}
<1>1. SUFFICES ASSUME Bad # {} PROVE FALSE
  OBVIOUS
<1>2. PICK k \in Bad : \A j \in Bad : k <= j
  <2>1. Bad \in SUBSET Nat
    OBVIOUS
  <2> HIDE DEF Bad
  <2> QED BY <1>1, <2>1, LeastOf
<1>3. CASE k = 0
  <2>1. PICK p : p = [i \in 0..0 |-> Began(o, n)]
    OBVIOUS
  <2>2. p = [i \in 0..0 |-> IF i = 0 THEN Began(o, n) ELSE TurnOf(o, w, n, p[i - 1], i)]
    BY <2>1
  <2>3. Steps(o, w, n, k, p)
    BY <1>3, <2>2 DEF Steps
  <2> QED BY <1>2, <2>3
<1>4. CASE k # 0
  <2>1. PICK j \in Nat : k = j + 1
    <3>1. k - 1 \in Nat /\ k = (k - 1) + 1
      BY <1>2, <1>4
    <3> QED BY <3>1
  <2>2. PICK p : Steps(o, w, n, j, p)
    BY <1>2, <2>1
  <2>3. PICK q : q = [i \in 0..k |-> IF i \in 0..j THEN p[i] ELSE TurnOf(o, w, n, p[j], k)]
    OBVIOUS
  <2>4. /\ \A i \in 0..j : q[i] = p[i]
        /\ \A i \in 0..j : p[i] = IF i = 0 THEN Began(o, n) ELSE TurnOf(o, w, n, p[i - 1], i)
        /\ q[k] = TurnOf(o, w, n, p[j], k)
    BY <2>1, <2>2, <2>3 DEF Steps
  <2>5. ASSUME NEW i \in 0..k
        PROVE  q[i] = IF i = 0 THEN Began(o, n) ELSE TurnOf(o, w, n, q[i - 1], i)
    <3>1. CASE i = 0
      <4>1. 0 \in 0..j
        BY <2>1
      <4> QED BY <2>4, <3>1, <4>1
    <3>2. CASE i # 0 /\ i \in 0..j
      <4>1. i - 1 \in 0..j
        BY <2>1, <3>2
      <4>2. q[i] = p[i] /\ q[i - 1] = p[i - 1]
        BY <2>4, <3>2, <4>1
      <4>3. p[i] = TurnOf(o, w, n, p[i - 1], i)
        BY <2>4, <3>2
      <4> QED BY <3>2, <4>2, <4>3
    <3>3. CASE i = k
      <4>1. k - 1 = j /\ j \in 0..j /\ k # 0
        BY <2>1
      <4>2. q[j] = p[j]
        BY <2>4, <4>1
      <4> QED BY <2>4, <3>3, <4>1, <4>2
    <3> QED BY <2>1, <3>1, <3>2, <3>3
  <2>6. q = [i \in 0..k |-> q[i]]
    BY <2>3
  <2>7. q = [i \in 0..k |-> IF i = 0 THEN Began(o, n) ELSE TurnOf(o, w, n, q[i - 1], i)]
    BY <2>5, <2>6
  <2>8. Steps(o, w, n, k, q)
    BY <2>7 DEF Steps
  <2> QED BY <1>2, <2>8
<1> QED BY <1>3, <1>4

\* The state behind each unit of a wire of which n bytes are there.
RunOf(o, w, n) == CHOOSE f : Steps(o, w, n, Len(w), f)

\* It begins and goes on as decode_into does, and ends with what that returns.
LEMMA RunIs ==
  ASSUME NEW o, NEW w, Len(w) \in Nat, NEW n, NEW f, f = RunOf(o, w, n)
  PROVE  /\ f[0] = Began(o, n)
         /\ \A k \in 1..Len(w) : f[k] = Step(o, f[k - 1], w[k], n - EndOf(w, k - 1))
         /\ decode_into(o, w, n) = Outcome(f[Len(w)])
<1>1. PICK m \in Nat : m = Len(w)
  OBVIOUS
<1>2. Steps(o, w, n, m, f)
  <2>1. \E q : Steps(o, w, n, m, q)
    BY StepsExist
  <2>2. f = CHOOSE q : Steps(o, w, n, m, q)
    BY <1>1 DEF RunOf
  <2> QED BY Zenon, <2>1, <2>2
<1>3. f[0] = Began(o, n) /\ \A k \in 1..m : f[k] = TurnOf(o, w, n, f[k - 1], k)
  <2>1. \A k \in 0..m : f[k] = IF k = 0 THEN Began(o, n) ELSE TurnOf(o, w, n, f[k - 1], k)
    BY <1>2 DEF Steps
  <2>2. 0 \in 0..m /\ \A k \in 1..m : k \in 0..m /\ k # 0
    OBVIOUS
  <2> QED BY <2>1, <2>2
<1>4. decode_into(o, w, n) = Outcome(f[m])
  <2>1. PICK start : start = [out |-> << >>, result |-> IF n = 0 THEN "UnexpectedEof" ELSE "Ok",
                              between |-> TRUE, header |-> << >>, frame_start |-> 0,
                              entropy |-> FreshEntropy(o)]
    OBVIOUS
  <2>2. PICK g : g = CHOOSE h : h = [k \in 0..m |-> IF k = 0 THEN start
                                     ELSE Step(o, h[k - 1], w[k], n - EndOf(w, k - 1))]
    OBVIOUS
  <2>3. start = Began(o, n)
    BY <2>1 DEF Began, Ref
  <2>4. \A h : Steps(o, w, n, m, h) <=> h = [k \in 0..m |-> IF k = 0 THEN start
                                     ELSE Step(o, h[k - 1], w[k], n - EndOf(w, k - 1))]
    BY <2>3 DEF Steps, TurnOf
  <2>5. g = CHOOSE h : Steps(o, w, n, m, h)
    BY Zenon, <2>2, <2>4
  <2>6. g = f
    BY <1>1, <2>5 DEF RunOf
  <2>7. decode_into(o, w, n) = Outcome(g[m])
    BY Zenon, <1>1, <2>1, <2>2 DEF decode_into
  <2> QED BY <2>6, <2>7
<1> QED BY <1>1, <1>3, <1>4 DEF TurnOf

\* A run that has failed, or has no input left between frames, stays where it is.
LEMMA RunStays ==
  ASSUME NEW U, NEW w \in Seq(U), \A u \in U : IsUnit(u), NEW o, NEW n \in Nat,
         NEW f, f = RunOf(o, w, n), NEW k \in 0..Len(w),
         f[k].result # "Ok" \/ (f[k].between /\ n <= EndOf(w, k)), NEW j \in k..Len(w)
  PROVE  f[j] = f[k]
<1>1. PICK m \in Nat : m = Len(w)
  OBVIOUS
<1>2. \A i \in 1..m : f[i] = Step(o, f[i - 1], w[i], n - EndOf(w, i - 1))
  BY <1>1, RunIs
<1> DEFINE Bad == {i \in k..m : f[i] # f[k]}
<1>3. SUFFICES ASSUME Bad # {} PROVE FALSE
  BY <1>1
<1>4. PICK i \in Bad : \A h \in Bad : i <= h
  <2>1. Bad \in SUBSET Nat
    BY <1>1
  <2> HIDE DEF Bad
  <2> QED BY <1>3, <2>1, LeastOf
<1>5. i \in k..m /\ f[i] # f[k] /\ i # k
  BY <1>4
<1>6. i - 1 \in k..m /\ i \in 1..m /\ ~(i <= i - 1)
  BY <1>1, <1>5
<1>7. f[i - 1] = f[k]
  BY <1>4, <1>6
<1>8. f[i] = Step(o, f[k], w[i], n - EndOf(w, i - 1))
  BY <1>2, <1>6, <1>7
<1>9. CASE f[k].result # "Ok"
  BY <1>5, <1>8, <1>9 DEF Step
<1>10. CASE f[k].result = "Ok" /\ f[k].between /\ n <= EndOf(w, k)
  <2>1. k \in 0..(i - 1) /\ i - 1 \in 0..Len(w)
    BY <1>1, <1>6
  <2>2. EndOf(w, k) <= EndOf(w, i - 1) /\ EndOf(w, k) \in Nat /\ EndOf(w, i - 1) \in Nat
    BY <2>1, EndsGrow, EndIs
  <2>3. n - EndOf(w, i - 1) <= 0
    BY <1>10, <2>2
  <2> QED BY <1>5, <1>8, <1>10, <2>3 DEF Step
<1> QED BY <1>9, <1>10

\* What holds of the one-shot decoder whatever it is given.
GoodRef(o, st) ==
  /\ IsRef(st) /\ Listed(st.out) /\ st.between \in BOOLEAN
  /\ st.result = "Ok" /\ ~st.between =>
       /\ st.header \in UnitsOf(o) /\ st.header.kind = "frame"
       /\ GoodEntropy(o, st.entropy)
       /\ st.frame_start \in Nat /\ st.frame_start <= Len(st.out)

\* The environment and the limit of one of its blocks.
RefEnv(st) == [frame_start |-> st.frame_start, window_size |-> st.header.window_size,
               block_size_max |-> st.header.block_size_max]
RefLimit(o) == [produced_before |-> 0, max_output_size |-> o.max_output_size]

\* They are good ones.
LEMMA RefEnvGood ==
  ASSUME NEW o \in Configured, NEW st, st.header \in UnitsOf(o), st.header.kind = "frame",
         st.frame_start \in Nat
  PROVE  GoodEnv(RefEnv(st), RefLimit(o)) /\ RefEnv(st).frame_start = st.frame_start
<1>1. st.header.window_size \in Nat /\ st.header.block_size_max \in Nat
  <2>1. IsUnit(st.header)
    BY SetupsAssumption DEF Configured
  <2>2. /\ st.header.window_size \in Nat
        /\ st.header.block_size_max = Least(st.header.window_size, BlockSizeMax)
    BY <2>1 DEF IsUnit
  <2> QED BY <2>2, StreamDecoderAssumption DEF Least
<1>2. o.max_output_size \in Nat \cup {None}
  BY SetupsAssumption DEF Configured
<1>3. PICK e, l : e = RefEnv(st) /\ l = RefLimit(o)
  OBVIOUS
<1>4. e.frame_start = st.frame_start /\ e.window_size = st.header.window_size
      /\ e.block_size_max = st.header.block_size_max
  BY <1>3 DEF RefEnv
<1>5. l.produced_before = 0 /\ l.max_output_size = o.max_output_size
  BY <1>3 DEF RefLimit
<1>6. st.frame_start \in Int /\ 0 \in Nat
  OBVIOUS
<1> QED BY <1>1, <1>2, <1>3, <1>4, <1>5, <1>6 DEF GoodEnv

\* A turn that only sets the result, or nothing, leaves a good state.
LEMMA ResultGood ==
  ASSUME NEW o, NEW st, GoodRef(o, st), NEW e, e # "Ok" \/ st.between,
         NEW next, next = [st EXCEPT !.result = e]
  PROVE  GoodRef(o, next) /\ Extends(st.out, next.out)
<1>1. next = Ref(st.out, e, st.between, st.header, st.frame_start, st.entropy)
  BY ResultSet DEF GoodRef
<1>2. /\ next.out = st.out /\ next.result = e /\ next.between = st.between /\ IsRef(next)
  BY <1>1, RefIs
<1>3. Listed(st.out) /\ st.between \in BOOLEAN
  BY DEF GoodRef
<1>4. Extends(st.out, next.out)
  BY <1>2, <1>3, ExtendsItself
<1> QED BY <1>2, <1>3, <1>4 DEF GoodRef

\* So does a frame that closes.
LEMMA CloseGood ==
  ASSUME NEW o, NEW st, IsRef(st), Listed(st.out), NEW left, NEW next, next = Close(o, st, left)
  PROVE  GoodRef(o, next) /\ Extends(st.out, next.out)
<1>1. PICK v, a, h, f, e : /\ v = CloseVerdict(o, st, left) /\ a = st.out /\ h = st.header
                           /\ f = st.frame_start /\ e = st.entropy
  OBVIOUS
<1>2. next.out = st.out /\ next.between = TRUE /\ IsRef(next)
  <2>1. next = Ref(a, v, TRUE, h, f, e)
    BY <1>1, CloseIs
  <2>2. next.out = a /\ next.between = TRUE /\ IsRef(next)
    BY <2>1 DEF Ref, IsRef
  <2> QED BY <1>1, <2>2
<1>3. Extends(st.out, next.out)
  BY <1>2, ExtendsItself
<1> QED BY <1>2, <1>3 DEF GoodRef

\* And a frame that opens.
LEMMA OpenGood ==
  ASSUME NEW o \in Configured, NEW st, GoodRef(o, st), NEW u \in UnitsOf(o), u.kind = "frame",
         NEW next, next = Open(o, st, u)
  PROVE  GoodRef(o, next) /\ Extends(st.out, next.out)
<1>1. IsRef(st) /\ Listed(st.out)
  BY DEF GoodRef
<1>2. PICK r, a, l, e : /\ r = RejectFrame(o, u, Len(st.out)) /\ a = st.out /\ l = Len(st.out)
                        /\ e = FreshEntropy(o)
  OBVIOUS
<1>3. /\ next.out = st.out /\ next.between = FALSE /\ next.header = u
      /\ next.frame_start = Len(st.out) /\ next.entropy = FreshEntropy(o) /\ IsRef(next)
  <2>1. next = Ref(a, r, FALSE, u, l, e)
    BY <1>1, <1>2, OpenIs
  <2>2. /\ next.out = a /\ next.between = FALSE /\ next.header = u /\ next.frame_start = l
        /\ next.entropy = e /\ IsRef(next)
    BY <2>1 DEF Ref, IsRef
  <2> QED BY <1>2, <2>2
<1>4. GoodEntropy(o, FreshEntropy(o))
  BY FreshIsGood
<1>5. Extends(st.out, next.out) /\ Len(st.out) \in Nat
  BY <1>1, <1>3, ExtendsItself, WholeCut
<1>6. next.frame_start \in Nat /\ next.frame_start <= Len(next.out)
  <2>1. PICK m \in Nat : m = Len(st.out)
    BY <1>5
  <2>2. next.frame_start = m /\ Len(next.out) = m
    BY <1>3, <2>1
  <2> QED BY <2>2
<1>7. GoodEntropy(o, next.entropy) /\ Listed(next.out) /\ next.between \in BOOLEAN
  BY <1>1, <1>3, <1>4
<1>8. next.header \in UnitsOf(o) /\ next.header.kind = "frame"
  BY <1>3
<1> QED BY <1>3, <1>5, <1>6, <1>7, <1>8 DEF GoodRef

\* A block's turn does too.
LEMMA DecodeGood ==
  ASSUME NEW o \in Configured, NEW st, GoodRef(o, st), st.result = "Ok", ~st.between,
         NEW u \in UnitsOf(o), u.kind = "block", NEW left \in Int,
         NEW next, next = DecodeOne(o, st, u, left)
  PROVE  GoodRef(o, next) /\ Extends(st.out, next.out)
<1>1. /\ IsRef(st) /\ Listed(st.out)
      /\ st.header \in UnitsOf(o) /\ st.header.kind = "frame" /\ GoodEntropy(o, st.entropy)
      /\ st.frame_start \in Nat /\ st.frame_start <= Len(st.out)
  BY DEF GoodRef
<1>2. PICK d, more : /\ d = DecodeBlock(u, RefEnv(st), o.dictionary, RefLimit(o), st.out, st.entropy)
                     /\ more = left - payload_size(u)
  OBVIOUS
<1>3. \/ \E e : e # "Ok" /\ next = [st EXCEPT !.result = e]
      \/ u.block_type # "Reserved" /\ next = AfterBlock(o, st, u, more, d)
  BY <1>2 DEF DecodeOne, RefEnv, RefLimit
<1>4. CASE \E e : e # "Ok" /\ next = [st EXCEPT !.result = e]
  BY <1>4, ResultGood
<1>5. CASE u.block_type # "Reserved" /\ next = AfterBlock(o, st, u, more, d)
  <2>1. GoodEnv(RefEnv(st), RefLimit(o)) /\ RefEnv(st).frame_start = st.frame_start
    BY <1>1, RefEnvGood
  <2>2. Extends(st.out, d.out)
    <3>1. RefEnv(st).frame_start \in Nat /\ RefEnv(st).frame_start <= Len(st.out)
      BY <1>1, <2>1
    <3> QED BY <1>1, <1>2, <1>5, <2>1, <3>1, BlockExtends
  <2>3. GoodOutcome(o, RefLimit(o), RefEnv(st).block_size_max, st.out, d)
    BY <1>1, <1>2, <1>5, <2>1, BlockKeeps
  <2>4. d.result = "Ok" => GoodEntropy(o, d.entropy)
    BY <2>3 DEF GoodOutcome
  <2>5. Listed(d.out) /\ Len(st.out) <= Len(d.out) /\ Len(st.out) \in Nat /\ Len(d.out) \in Nat
    BY <1>1, <2>2, ExtendsListed
  <2>6. PICK on : on = Ref(d.out, d.result, st.between, st.header, st.frame_start, d.entropy)
    OBVIOUS
  <2>7. next = IF d.result = "Ok" /\ u.last_block /\ ~st.header.checksum
               THEN Ref(d.out, CloseVerdict(o, on, more), TRUE, st.header, st.frame_start, d.entropy)
               ELSE on
    <3>1. IsRef(st)
      BY <1>1
    <3>2. AfterBlock(o, st, u, more, d) = Finished(o, st, u, more, d, on)
      BY <2>6, <3>1, BlockDone
    <3> QED BY <1>5, <3>2 DEF Finished
  <2>8. CASE d.result = "Ok" /\ u.last_block /\ ~st.header.checksum
    <3>1. PICK v, a, h, f, e : /\ v = CloseVerdict(o, on, more) /\ a = d.out /\ h = st.header
                               /\ f = st.frame_start /\ e = d.entropy
      OBVIOUS
    <3>2. next = Ref(a, v, TRUE, h, f, e)
      BY <2>7, <2>8, <3>1
    <3>3. next.out = a /\ next.between = TRUE /\ IsRef(next)
      BY <3>2 DEF Ref, IsRef
    <3>4. next.out = d.out
      BY <3>1, <3>3
    <3> QED BY <2>2, <2>5, <3>3, <3>4 DEF GoodRef
  <2>9. CASE next = on
    <3>1. /\ next.out = d.out /\ next.result = d.result /\ next.between = FALSE
          /\ next.header = st.header /\ next.frame_start = st.frame_start
          /\ next.entropy = d.entropy /\ IsRef(next)
      BY <2>6, <2>9, RefIs
    <3>2. st.frame_start <= Len(d.out)
      BY <1>1, <2>5
    <3> QED BY <1>1, <2>2, <2>4, <2>5, <3>1, <3>2 DEF GoodRef
  <2> QED BY <2>7, <2>8, <2>9
<1> QED BY <1>3, <1>4, <1>5

\* Every turn leaves a good state, and only appends.
LEMMA StepGood ==
  ASSUME NEW o \in Configured, NEW st, GoodRef(o, st), NEW u \in UnitsOf(o), NEW n \in Int,
         NEW next, next = Step(o, st, u, n)
  PROVE  GoodRef(o, next) /\ Extends(st.out, next.out)
<1>1. IsRef(st) /\ Listed(st.out) /\ st.between \in BOOLEAN
  BY DEF GoodRef
<1>2. u.size \in Nat
  <2>1. IsUnit(u)
    BY SetupsAssumption DEF Configured
  <2> QED BY <2>1 DEF IsUnit
<1>3. CASE next = st
  BY <1>1, <1>3, ExtendsItself
<1>4. CASE st.result = "Ok" /\ st.between /\ next = NextFrame(o, st, u, n)
  <2>1. PICK parsed : parsed = parse_frame_header(u, n)
    OBVIOUS
  <2>2. parsed = "frame" => u.kind = "frame"
    <3>1. CASE n < MAGIC_SIZE
      BY <2>1, <3>1 DEF parse_frame_header
    <3>2. CASE n >= MAGIC_SIZE /\ u.kind \notin {"frame", "skippable"}
      BY <2>1, <3>2 DEF parse_frame_header, MAGIC_SIZE
    <3>3. CASE n >= MAGIC_SIZE /\ u.kind \in {"frame", "skippable"}
      BY <2>1, <3>3 DEF parse_frame_header, MAGIC_SIZE
    <3> QED BY <3>1, <3>2, <3>3 DEF MAGIC_SIZE
  <2>3. \/ \E e : next = [st EXCEPT !.result = e]
        \/ u.kind = "frame" /\ next = Open(o, st, u)
    <3>1. CASE parsed = "skippable"
      BY <1>4, <2>1, <3>1 DEF NextFrame
    <3>2. CASE parsed = "frame"
      BY <1>4, <2>1, <2>2, <3>2 DEF NextFrame
    <3>3. CASE parsed # "skippable" /\ parsed # "frame"
      BY <1>4, <2>1, <3>3 DEF NextFrame
    <3> QED BY <3>1, <3>2, <3>3
  <2> QED BY <1>4, <2>3, ResultGood, OpenGood
<1>5. CASE st.result = "Ok" /\ ~st.between /\ next = [st EXCEPT !.result = "UnexpectedEof"]
  BY <1>5, ResultGood
<1>6. CASE st.result = "Ok" /\ ~st.between /\ u.kind = "block"
           /\ next = DecodeOne(o, st, u, n - u.size)
  BY <1>2, <1>6, DecodeGood
<1>7. CASE st.result = "Ok" /\ ~st.between /\ next = VerifyChecksum(o, st, u.digest, n - u.size)
  <2>1. \/ next = [st EXCEPT !.result = "ChecksumMismatch"]
        \/ next = Close(o, st, n - u.size)
    BY <1>7 DEF VerifyChecksum
  <2> QED BY <1>1, <2>1, ResultGood, CloseGood
<1> QED BY <1>3, <1>4, <1>5, <1>6, <1>7 DEF Step

\* Every state of a run is good.
LEMMA RunGood ==
  ASSUME NEW o \in Configured, NEW w \in WiresOf(o), NEW n \in Nat, NEW f, f = RunOf(o, w, n),
         NEW k \in 0..Len(w)
  PROVE  GoodRef(o, f[k])
<1>1. w \in Seq(UnitsOf(o)) /\ \A u \in UnitsOf(o) : IsUnit(u)
  BY SetupsAssumption DEF Configured
<1>2. PICK m \in Nat : m = Len(w)
  BY <1>1
<1>3. f[0] = Began(o, n) /\ \A i \in 1..m : f[i] = Step(o, f[i - 1], w[i], n - EndOf(w, i - 1))
  BY <1>2, RunIs
<1> DEFINE Bad == {i \in 0..m : ~GoodRef(o, f[i])}
<1>4. SUFFICES ASSUME Bad # {} PROVE FALSE
  BY <1>2
<1>5. PICK i \in Bad : \A h \in Bad : i <= h
  <2>1. Bad \in SUBSET Nat
    BY <1>2
  <2> HIDE DEF Bad
  <2> QED BY <1>4, <2>1, LeastOf
<1>6. i \in 0..m /\ ~GoodRef(o, f[i])
  BY <1>5
<1>7. CASE i = 0
  <2>1. PICK r, e, b : r = (IF n = 0 THEN "UnexpectedEof" ELSE "Ok") /\ e = FreshEntropy(o) /\ b = TRUE
    OBVIOUS
  <2>2. f[0] = Ref(<< >>, r, b, << >>, 0, e)
    BY <1>3, <2>1 DEF Began
  <2>3. f[0].out = << >> /\ f[0].between = b /\ IsRef(f[0])
    BY <2>2 DEF Ref, IsRef
  <2> QED BY <1>6, <1>7, <2>1, <2>3, NoneListed DEF GoodRef
<1>8. CASE i # 0
  <2>1. i - 1 \in 0..m /\ i \in 1..m /\ ~(i <= i - 1)
    BY <1>2, <1>6, <1>8
  <2>2. GoodRef(o, f[i - 1])
    BY <1>5, <2>1
  <2>3. w[i] \in UnitsOf(o)
    BY <1>1, <1>2, <2>1
  <2>4. PICK st, u, next, left :
          st = f[i - 1] /\ u = w[i] /\ next = f[i] /\ left = n - EndOf(w, i - 1)
    OBVIOUS
  <2>5. left \in Int
    <3>1. EndOf(w, i - 1) \in Nat
      BY <1>1, <1>2, <2>1, EndIs
    <3> QED BY <2>4, <3>1
  <2>6. next = Step(o, st, u, left)
    BY <1>3, <2>1, <2>4
  <2>7. GoodRef(o, st) /\ u \in UnitsOf(o)
    BY <2>2, <2>3, <2>4
  <2>8. GoodRef(o, next)
    BY <2>5, <2>6, <2>7, StepGood
  <2> QED BY <1>6, <2>4, <2>8
<1> QED BY <1>7, <1>8

\* A run only appends.
LEMMA RunGrows ==
  ASSUME NEW o \in Configured, NEW w \in WiresOf(o), NEW n \in Nat, NEW f, f = RunOf(o, w, n),
         NEW k \in 0..Len(w), NEW j \in k..Len(w)
  PROVE  Extends(f[k].out, f[j].out)
<1>1. w \in Seq(UnitsOf(o)) /\ \A u \in UnitsOf(o) : IsUnit(u)
  BY SetupsAssumption DEF Configured
<1>2. PICK m \in Nat : m = Len(w)
  BY <1>1
<1>3. \A i \in 1..m : f[i] = Step(o, f[i - 1], w[i], n - EndOf(w, i - 1))
  BY <1>2, RunIs
<1>4. \A i \in 0..m : GoodRef(o, f[i]) /\ Listed(f[i].out)
  <2>1. \A i \in 0..m : GoodRef(o, f[i])
    BY <1>2, RunGood
  <2> QED BY <2>1 DEF GoodRef
<1> DEFINE Bad == {i \in k..m : ~Extends(f[k].out, f[i].out)}
<1>5. SUFFICES ASSUME Bad # {} PROVE FALSE
  BY <1>2
<1>6. PICK i \in Bad : \A h \in Bad : i <= h
  <2>1. Bad \in SUBSET Nat
    BY <1>2
  <2> HIDE DEF Bad
  <2> QED BY <1>5, <2>1, LeastOf
<1>7. i \in k..m /\ ~Extends(f[k].out, f[i].out) /\ k \in 0..m
  BY <1>2, <1>6
<1>8. i # k
  <2>1. Listed(f[k].out)
    BY <1>4, <1>7
  <2>2. Extends(f[k].out, f[k].out)
    BY <2>1, ExtendsItself
  <2> QED BY <1>7, <2>2
<1>9. i - 1 \in k..m /\ i - 1 \in 0..m /\ i \in 1..m /\ ~(i <= i - 1)
  BY <1>2, <1>7, <1>8
<1>10. Extends(f[k].out, f[i - 1].out)
  BY <1>6, <1>9
<1>11. Extends(f[i - 1].out, f[i].out)
  <2>1. w[i] \in UnitsOf(o)
    BY <1>1, <1>2, <1>9
  <2>2. PICK st, u, next, left :
          st = f[i - 1] /\ u = w[i] /\ next = f[i] /\ left = n - EndOf(w, i - 1)
    OBVIOUS
  <2>3. left \in Int
    <3>1. EndOf(w, i - 1) \in Nat
      BY <1>1, <1>2, <1>9, EndIs
    <3> QED BY <2>2, <3>1
  <2>4. next = Step(o, st, u, left)
    BY <1>3, <1>9, <2>2
  <2>5. GoodRef(o, st) /\ u \in UnitsOf(o)
    BY <1>4, <1>9, <2>1, <2>2
  <2>6. Extends(st.out, next.out)
    BY <2>3, <2>4, <2>5, StepGood
  <2> QED BY <2>2, <2>6
<1>12. PICK a, b, c : a = f[k].out /\ b = f[i - 1].out /\ c = f[i].out
  OBVIOUS
<1>13. Listed(a)
  BY <1>4, <1>7, <1>12
<1>14. Extends(a, c)
  BY <1>10, <1>11, <1>12, <1>13, ExtendsMore
<1> QED BY <1>7, <1>12, <1>14

\* The one-shot decoder on what has been pushed ends as its run does.
LEMMA ReferenceIs ==
  ASSUME InputInv, NEW f, f = RunOf(options, wire, pushed)
  PROVE  Reference = Outcome(f[Len(wire)])
<1>1. options \in Configured /\ wire \in WiresOf(options) /\ pushed \in 0..Size(wire)
  <2>1. Size(wire) \in Nat
    BY WireIs, BytesOfUnits
  <2> QED BY <2>1 DEF InputInv
<1>2. Reference = decode_into(options, wire, pushed)
  BY <1>1 DEF Reference, OneShot, Configured
<1>3. Len(wire) \in Nat
  BY WireIs
<1>4. decode_into(options, wire, pushed) = Outcome(f[Len(wire)])
  BY <1>3, RunIs
<1> QED BY <1>2, <1>4

\* What its run makes of the input from a unit on where it stays.
LEMMA ReferenceStays ==
  ASSUME InputInv, NEW k \in 0..Len(wire), NEW st, st = RunOf(options, wire, pushed)[k],
         st.result # "Ok" \/ (st.between /\ pushed <= EndOf(wire, k))
  PROVE  Reference.out = st.out /\ Reference.result = st.result
<1>1. PICK f : f = RunOf(options, wire, pushed)
  OBVIOUS
<1>2. /\ wire \in Seq(UnitsOf(options)) /\ \A u \in UnitsOf(options) : IsUnit(u)
      /\ Len(wire) \in Nat /\ pushed \in Nat
  BY WireIs DEF InputInv
<1>3. st = f[k] /\ Len(wire) \in k..Len(wire)
  BY <1>1, <1>2
<1>4. f[Len(wire)] = f[k]
  BY <1>1, <1>2, <1>3, RunStays
<1>5. Reference = Outcome(st)
  BY <1>1, <1>3, <1>4, ReferenceIs
<1> QED BY <1>5 DEF Outcome

\* The one-shot decoder's next turn.
LEMMA NextTurn ==
  ASSUME InputInv, NEW k \in 0..Len(wire), k + 1 \in 1..Len(wire), NEW n, NEW f,
         f = RunOf(options, wire, n)
  PROVE  f[k + 1] = Step(options, f[k], wire[k + 1], n - EndOf(wire, k))
<1>1. Len(wire) \in Nat
  BY WireIs
<1>2. \A i \in 1..Len(wire) : f[i] = Step(options, f[i - 1], wire[i], n - EndOf(wire, i - 1))
  BY <1>1, RunIs
<1>3. (k + 1) - 1 = k
  BY <1>1
<1> QED BY <1>2, <1>3

\* A payload is part of the turn before.
LEMMA PayloadTurn ==
  ASSUME NEW o, NEW st, NEW u, u.kind = "payload", NEW n PROVE Step(o, st, u, n) = st
BY DEF Step

\* What has failed takes no turn.
LEMMA FailedTurn ==
  ASSUME NEW o, NEW st, st.result # "Ok", NEW u, NEW n PROVE Step(o, st, u, n) = st
BY DEF Step

\* What a header of so many bytes parses as.
LEMMA ParsedAs ==
  ASSUME NEW u, u.size \in Nat, NEW n \in Int
  PROVE  /\ n < MAGIC_SIZE => parse_frame_header(u, n) = "UnexpectedEof"
         /\ n >= MAGIC_SIZE /\ u.kind \notin {"frame", "skippable"} =>
              parse_frame_header(u, n) = "BadMagic"
         /\ n >= MAGIC_SIZE /\ u.kind \in {"frame", "skippable"} =>
              parse_frame_header(u, n) = IF n < u.size THEN "UnexpectedEof" ELSE u.kind
         /\ parse_frame_header(u, n) \in {"UnexpectedEof", "BadMagic", "frame", "skippable"}
<1>1. MAGIC_SIZE = 4
  BY DEF MAGIC_SIZE
<1>2. CASE n < MAGIC_SIZE
  <2>1. ~(n >= MAGIC_SIZE)
    BY <1>1, <1>2
  <2> QED BY <1>2, <2>1 DEF parse_frame_header
<1>3. CASE n >= MAGIC_SIZE /\ u.kind \notin {"frame", "skippable"}
  <2>1. ~(n < MAGIC_SIZE)
    BY <1>1, <1>3
  <2> QED BY <1>3, <2>1 DEF parse_frame_header
<1>4. CASE n >= MAGIC_SIZE /\ u.kind \in {"frame", "skippable"}
  <2>1. ~(n < MAGIC_SIZE)
    BY <1>1, <1>4
  <2>2. parse_frame_header(u, n) = IF n < u.size THEN "UnexpectedEof" ELSE u.kind
    BY <1>4, <2>1 DEF parse_frame_header
  <2> QED BY <1>4, <2>1, <2>2
<1> QED BY <1>1, <1>2, <1>3, <1>4

\* A turn between frames is the next header's.
LEMMA HeaderTurn ==
  ASSUME NEW o, NEW st, IsRef(st), st.result = "Ok", st.between, NEW u, u.kind # "payload",
         NEW n \in Nat, n # 0, NEW e, e = parse_frame_header(u, n),
         NEW next, next = Step(o, st, u, n)
  PROVE  /\ e = "frame" => next = Open(o, st, u)
         /\ e = "skippable" =>
              next = [st EXCEPT !.result = IF o.single_frame THEN "TrailingInput"
                                           ELSE IF n < u.size + u.remaining THEN "UnexpectedEof"
                                           ELSE "Ok"]
         /\ e \notin {"frame", "skippable"} => next = [st EXCEPT !.result = e]
<1>1. ~(n <= 0)
  OBVIOUS
<1>2. next = NextFrame(o, st, u, n)
  BY <1>1 DEF Step
<1>3. CASE e = "frame"
  BY <1>2, <1>3 DEF NextFrame
<1>4. CASE e = "skippable"
  BY <1>2, <1>4 DEF NextFrame
<1>5. CASE e # "frame" /\ e # "skippable"
  BY <1>2, <1>5 DEF NextFrame
<1> QED BY <1>3, <1>4, <1>5

\* A skippable frame that is all there changes nothing.
LEMMA SkippableTurn ==
  ASSUME NEW o, ~o.single_frame, NEW st, IsRef(st), st.result = "Ok", st.between,
         NEW u, IsUnit(u), u.kind = "skippable", NEW n \in Nat, u.size + u.remaining <= n
  PROVE  Step(o, st, u, n) = st
<1>1. u.size = 8 /\ u.remaining \in Nat
  BY DEF IsUnit, SKIPPABLE_HEADER_SIZE
<1>2. n # 0 /\ n >= MAGIC_SIZE /\ ~(n < u.size) /\ ~(n < u.size + u.remaining)
  BY <1>1 DEF MAGIC_SIZE
<1>3. parse_frame_header(u, n) = "skippable"
  <2>1. parse_frame_header(u, n) = IF n < u.size THEN "UnexpectedEof" ELSE u.kind
    BY <1>1, <1>2, ParsedAs
  <2> QED BY <1>2, <2>1
<1>4. Step(o, st, u, n) = [st EXCEPT !.result = "Ok"]
  BY <1>2, <1>3, HeaderTurn
<1>5. Step(o, st, u, n) = Ref(st.out, "Ok", st.between, st.header, st.frame_start, st.entropy)
  BY <1>4, ResultSet
<1>6. st = Ref(st.out, st.result, st.between, st.header, st.frame_start, st.entropy)
  BY DEF IsRef
<1> QED BY <1>5, <1>6

-----------------------------------------------------------------------------
\* The two decoders side by side.

\* What the one-shot decoder says between frames, given n bytes, behind unit k.
ClosedResult(k, n) ==
  IF n = 0 THEN "UnexpectedEof"
  ELSE IF options.single_frame /\ decoded_a_frame /\ n # EndOf(wire, k) THEN "TrailingInput"
  ELSE "Ok"

\* A frame that is open in both.
OpenAlike(st) ==
  /\ st.result = "Ok" /\ st.header = frame.header /\ st.entropy = frame.entropy
  /\ st.frame_start \in Nat /\ st.frame_start + stream_start = frame.origin
  /\ frame.frame_output_size = Len(st.out) - st.frame_start
  /\ frame.header.checksum => frame.hashed = SubSeq(st.out, st.frame_start + 1, Len(st.out))

\* The one-shot decoder, given n bytes and behind unit k, is where the stream is.
InStep(st, k, n) ==
  /\ IsRef(st) /\ st.out = StreamOutput /\ (st.between <=> ~frame.open)
  /\ frame.open => OpenAlike(st)
  /\ ~frame.open => st.result = ClosedResult(k, n)

\* It is so whatever more is pushed.
StepsWith(k) == \A n \in pushed..Size(wire) : InStep(RunOf(options, wire, n)[k], k, n)

\* A turn that writes nothing and opens and closes no frame leaves them so.
LEMMA InStepStays ==
  ASSUME NEW st, NEW k, NEW n, InStep(st, k, n),
         UNCHANGED <<options, wire, StreamOutput, decoded_a_frame, stream_start>>,
         frame'.open = frame.open,
         frame.open => UNCHANGED <<frame.header, frame.entropy, frame.origin,
                                   frame.frame_output_size, frame.hashed>>
  PROVE  InStep(st, k, n)'
<1>1. ClosedResult(k, n)' = ClosedResult(k, n)
  BY DEF ClosedResult
<1>2. frame.open => OpenAlike(st)'
  BY DEF InStep, OpenAlike
<1> QED BY <1>1, <1>2 DEF InStep

\* Nothing is left behind a list's end.
LEMMA NoneLeft ==
  ASSUME NEW s, Listed(s) PROVE SubSeq(s, Len(s) + 1, Len(s)) = << >>
<1>1. Len(s) \in Nat /\ Len(s) <= Len(s)
  BY WholeCut
<1>2. PICK r : r = SubSeq(s, Len(s) + 1, Len(s))
  OBVIOUS
<1>3. Listed(r) /\ Len(r) = 0
  <2>1. PICK n \in Nat : n = Len(s)
    BY <1>1
  <2>2. n + 1 \in 1..(Len(s) + 1) /\ n \in ((n + 1) - 1)..Len(s)
    BY <2>1
  <2>3. Listed(SubSeq(s, n + 1, n)) /\ Len(SubSeq(s, n + 1, n)) = n - (n + 1) + 1
    BY <2>2, ListsCut
  <2>4. n - (n + 1) + 1 = 0
    BY <2>1
  <2> QED BY <1>2, <2>1, <2>3, <2>4
<1>4. \A i \in 1..0 : FALSE
  OBVIOUS
<1> QED BY <1>2, <1>3, <1>4, SameLists, NoneListed

\* A header that is due in the stream is due in the one-shot decoder.
LEMMA HeaderDue ==
  ASSUME StreamInv, PosInv, NEW k \in 0..Len(wire), At(k), state.tag = "FrameHeader", Available # 0,
         NEW n \in pushed..Size(wire), NEW st, InStep(st, k, n),
         NEW left, left = n - EndOf(wire, k)
  PROVE  /\ left \in Nat /\ left # 0 /\ Available <= left /\ Available \in Nat
         /\ n \in Nat /\ n # 0 /\ n # EndOf(wire, k)
         /\ st.between /\ IsRef(st)
         /\ ~(options.single_frame /\ decoded_a_frame) => st.result = "Ok"
         /\ options.single_frame /\ decoded_a_frame => st.result = "TrailingInput"
         /\ stream_input_pos = EndOf(wire, k)
         /\ k + 1 \in 1..Len(wire) /\ Unit = wire[k + 1] /\ IsUnit(Unit)
         /\ Unit.kind \in {"frame", "skippable", "junk"}
         /\ n = pushed => left = Available
<1>1. /\ ~frame.open /\ stream_input_pos = EndOf(wire, k) /\ PlacesOf(wire)[k].payload = 0
      /\ ~PlacesOf(wire)[k].open
  BY DEF At, Stands
<1>2. InputInv
  BY DEF StreamInv
<1>3. k + 1 \in 1..Len(wire) /\ Unit = wire[k + 1]
  BY <1>1, <1>2, UnitAt
<1>4. IsUnit(Unit) /\ Belongs(PlacesOf(wire)[k], Unit) /\ EndOf(wire, k) \in Nat
  BY <1>2, <1>3, NextUnit
<1>5. Unit.kind \in {"frame", "skippable", "junk"}
  BY <1>1, <1>4 DEF Belongs
<1>6. Available \in Nat /\ stream_input_pos + Available = pushed /\ pushed \in Nat
  BY <1>2, PosIs DEF InputInv
<1>7. n \in Nat /\ pushed <= n
  <2>1. Size(wire) \in Nat
    BY <1>2, WireIs, BytesOfUnits
  <2> QED BY <1>6, <2>1
<1>8. PICK e, a \in Nat : e = EndOf(wire, k) /\ a = Available /\ e \in Nat
  BY <1>4, <1>6
<1>9. pushed = e + a /\ left = n - e /\ a # 0
  BY <1>1, <1>6, <1>8
<1>10. left \in Nat /\ left # 0 /\ a <= left /\ n # 0 /\ n # e /\ (n = pushed => left = a)
  BY <1>6, <1>7, <1>8, <1>9
<1>11. st.between /\ IsRef(st) /\ st.result = ClosedResult(k, n)
  BY <1>1 DEF InStep
<1>12. /\ ~(options.single_frame /\ decoded_a_frame) => st.result = "Ok"
       /\ options.single_frame /\ decoded_a_frame => st.result = "TrailingInput"
  BY <1>8, <1>10, <1>11 DEF ClosedResult
<1> QED BY <1>1, <1>3, <1>4, <1>5, <1>6, <1>7, <1>8, <1>10, <1>11, <1>12

\* start_frame judges a header as the one-shot decoder does.
LEMMA SameVerdict ==
  ASSUME NEW header, NEW l, total_output_size = l
  PROVE  start_frame_error(header) = RejectFrame(options, header, l)
BY DEF start_frame_error, RejectFrame

\* While no call has failed the account is what the stream has produced.
LEMMA AccountIs ==
  ASSUME BufferInv, CapInv, ~failed
  PROVE  /\ Listed(StreamOutput) /\ Len(StreamOutput) \in Nat
         /\ total_output_size = Len(StreamOutput)
         /\ stream_start \in Nat /\ Len(Produced) \in Nat
         /\ Len(StreamOutput) + stream_start = Len(Produced)
<1>1. stream_start \in Nat /\ stream_start <= Len(Produced)
  BY DEF CapInv
<1>2. /\ Listed(Produced) /\ Len(Produced) \in Nat
      /\ Listed(StreamOutput) /\ Len(StreamOutput) = Len(Produced) - stream_start
  BY <1>1, StreamListed
<1>3. total_output_size = Len(Produced) - stream_start
  BY DEF CapInv
<1>4. PICK p, s \in Nat : p = Len(Produced) /\ s = stream_start /\ p \in Nat
  BY <1>1, <1>2
<1>5. Len(StreamOutput) = p - s /\ s <= p /\ total_output_size = p - s
  BY <1>1, <1>2, <1>3, <1>4
<1>6. p - s \in Nat /\ (p - s) + s = p
  BY <1>4, <1>5
<1> QED BY <1>1, <1>2, <1>4, <1>5, <1>6

\* A frame's header does the same to both: it opens a frame, or is rejected by both.
LEMMA FrameHeaderAlike ==
  ASSUME StreamInv, PosInv, CapInv, ~failed, NEW k \in 0..Len(wire), At(k),
         process_zstandard_header, UNCHANGED StreamOutput,
         NEW n \in pushed..Size(wire), NEW st, InStep(st, k, n),
         NEW next, next = Step(options, st, wire[k + 1], n - EndOf(wire, k))
  PROVE  /\ next.out = StreamOutput'
         /\ IF failed' THEN next.result # "Ok" /\ result' = next.result
            ELSE InStep(next, k + 1, n)' /\ UNCHANGED <<total_output_size, decoded_a_frame>>
<1>1. PICK u, left, e : u = Unit /\ left = n - EndOf(wire, k) /\ e = start_frame_error(u)
  OBVIOUS
<1>2. /\ state.tag = "FrameHeader" /\ ~Stalled /\ HeaderError = "Ok" /\ u.kind = "frame"
      /\ \/ /\ e = "Ok"
            /\ frame' = FreshFrame(u, Len(output) - compact_between_frames(Len(output), output_pos),
                                   Len(Produced))
            /\ Progress(u.size)
         \/ /\ e # "Ok"
            /\ Fails(e, u.size)
      /\ UNCHANGED <<total_output_size, decoded_a_frame>>
  BY <1>1 DEF process_zstandard_header
<1>3. BufferInv /\ InputInv
  BY DEF StreamInv
<1>4. Available # 0
  BY <1>2, <1>3, HeaderRead
<1>5. ~(options.single_frame /\ decoded_a_frame)
  BY <1>2 DEF HeaderError
<1>6. /\ left \in Nat /\ left # 0 /\ Available <= left /\ Available \in Nat
      /\ st.result = "Ok" /\ st.between /\ IsRef(st)
      /\ u = wire[k + 1] /\ IsUnit(u)
  BY <1>1, <1>2, <1>4, <1>5, HeaderDue
<1>7. u.size \in Nat
  BY <1>6 DEF IsUnit
<1>8. parse_frame_header(u, left) = "frame"
  <2>1. parse_frame_header(u, Available) # "UnexpectedEof"
    BY <1>1, <1>2, <1>5 DEF Stalled
  <2>2. PICK a \in Nat : a = Available
    BY <1>6
  <2>3. a >= MAGIC_SIZE
    <3>1. ~(a < MAGIC_SIZE)
      BY <1>7, <2>1, <2>2, ParsedAs
    <3> QED BY <2>2, <3>1 DEF MAGIC_SIZE
  <2>4. ~(a < u.size)
    BY <1>2, <1>7, <2>1, <2>2, <2>3, ParsedAs
  <2>5. left >= MAGIC_SIZE /\ ~(left < u.size)
    BY <1>6, <1>7, <2>2, <2>3, <2>4 DEF MAGIC_SIZE
  <2>6. parse_frame_header(u, left) = IF left < u.size THEN "UnexpectedEof" ELSE u.kind
    BY <1>2, <1>6, <1>7, <2>5, ParsedAs
  <2> QED BY <1>2, <2>5, <2>6
<1>9. next = Open(options, st, u)
  BY <1>1, <1>2, <1>6, <1>8, HeaderTurn
<1>10. PICK r, a, l, f : /\ r = RejectFrame(options, u, Len(st.out)) /\ a = st.out /\ l = Len(st.out)
                         /\ f = FreshEntropy(options)
  OBVIOUS
<1>11. /\ next.out = a /\ next.between = FALSE /\ next.header = u /\ next.frame_start = l
       /\ next.entropy = f /\ next.result = r /\ IsRef(next)
  <2>1. next = Ref(a, r, FALSE, u, l, f)
    BY <1>6, <1>9, <1>10, OpenIs
  <2> QED BY <2>1 DEF Ref, IsRef
<1>12. /\ Listed(StreamOutput) /\ Len(StreamOutput) \in Nat /\ total_output_size = Len(StreamOutput)
       /\ stream_start \in Nat /\ Len(StreamOutput) + stream_start = Len(Produced)
  BY <1>3, AccountIs
<1>13. a = StreamOutput /\ l = Len(StreamOutput)
  BY <1>10 DEF InStep
<1>14. e = r
  BY <1>1, <1>10, <1>12, <1>13, SameVerdict
<1>15. next.out = StreamOutput'
  BY <1>11, <1>13
<1>16. CASE e # "Ok" /\ Fails(e, u.size)
  <2>1. failed' = TRUE /\ result' = e
    BY <1>16 DEF Fails
  <2> QED BY <1>11, <1>14, <1>15, <1>16, <2>1
<1>17. CASE e = "Ok" /\ Progress(u.size)
            /\ frame' = FreshFrame(u, Len(output) - compact_between_frames(Len(output), output_pos),
                                   Len(Produced))
  <2>1. UNCHANGED <<failed, stream_start, options>>
    BY <1>17 DEF Progress, callerVars
  <2>2. /\ frame'.open = TRUE /\ frame'.header = u /\ frame'.entropy = f
        /\ frame'.origin = Len(Produced) /\ frame'.frame_output_size = 0 /\ frame'.hashed = << >>
    BY <1>10, <1>17 DEF FreshFrame
  <2>3. next.frame_start \in Nat /\ next.frame_start + stream_start = Len(Produced)
        /\ Len(next.out) - next.frame_start = 0
    <3>1. PICK x \in Nat : x = Len(StreamOutput)
      BY <1>12
    <3>2. next.frame_start = x /\ Len(next.out) = x /\ x - x = 0
      BY <1>11, <1>13, <3>1
    <3> QED BY <1>12, <3>1, <3>2
  <2>4. SubSeq(next.out, next.frame_start + 1, Len(next.out)) = << >>
    <3>1. next.frame_start = Len(next.out) /\ Listed(next.out)
      BY <1>11, <1>12, <1>13
    <3> QED BY <3>1, NoneLeft
  <2>5. OpenAlike(next)'
    BY <1>11, <1>14, <1>17, <2>1, <2>2, <2>3, <2>4 DEF OpenAlike
  <2>6. InStep(next, k + 1, n)'
    BY <1>11, <1>15, <2>2, <2>5 DEF InStep
  <2>7. ~failed'
    BY <2>1
  <2> QED BY <1>2, <1>15, <2>6, <2>7
<1> QED BY <1>2, <1>16, <1>17

\* A step that touches no output produces nothing.
LEMMA QuietOutput ==
  ASSUME UNCHANGED <<outputVars, stream_start>> PROVE UNCHANGED <<Produced, StreamOutput>>
BY DEF outputVars, Produced, Pending, StreamOutput

\* A step of the stream that the one-shot decoder has no turn for.
LEMMA StepsStay ==
  ASSUME NEW k, StepsWith(k), pushed \in Int, pushed' \in Int, pushed <= pushed', Size(wire) \in Int,
         UNCHANGED <<options, wire, StreamOutput, decoded_a_frame, stream_start>>,
         frame'.open = frame.open,
         frame.open => UNCHANGED <<frame.header, frame.entropy, frame.origin,
                                   frame.frame_output_size, frame.hashed>>
  PROVE  StepsWith(k)'
<1> SUFFICES ASSUME NEW n \in pushed'..Size(wire)
             PROVE  InStep(RunOf(options, wire, n)[k], k, n)'
  BY DEF StepsWith
<1>1. n \in pushed..Size(wire)
  OBVIOUS
<1>2. PICK st : st = RunOf(options, wire, n)[k]
  OBVIOUS
<1>3. InStep(st, k, n)
  BY <1>1, <1>2 DEF StepsWith
<1>4. InStep(st, k, n)'
  BY <1>3, InStepStays
<1>5. RunOf(options, wire, n)'[k] = st
  BY <1>2
<1> QED BY <1>4, <1>5

\* How much of the wire there is.
LEMMA PushedIs ==
  ASSUME InputInv
  PROVE  /\ pushed \in Nat /\ Size(wire) \in Nat /\ Len(wire) \in Nat
         /\ \A n \in pushed..Size(wire) : n \in Nat /\ pushed <= n
<1>1. pushed \in Nat /\ Size(wire) \in Nat /\ Len(wire) \in Nat
  BY WireIs, BytesOfUnits DEF InputInv
<1> QED BY <1>1

\* Where in it the cursor is, before a step and after it.
LEMMA PosBound ==
  InputInv /\ PosInv => /\ stream_input_pos \in Nat /\ Available \in Nat
                        /\ stream_input_pos + Available = pushed
BY PosIs

LEMMA PosBoundNext ==
  (InputInv /\ PosInv => /\ stream_input_pos \in Nat /\ Available \in Nat
                         /\ stream_input_pos + Available = pushed)'
BY PosBound, PTL

\* A skippable frame that has been read is one the one-shot decoder has skipped.
LEMMA SkippableAlike ==
  ASSUME StreamInv, NEW k \in 0..Len(wire), ~frame.open, ~options.single_frame,
         k + 1 \in 1..Len(wire), wire[k + 1].kind = "skippable", PlacesOf(wire)[k].payload = 0,
         NEW j, \/ j = k + 1 /\ wire[k + 1].remaining = 0
                \/ j = k + 2 /\ k + 2 \in 1..Len(wire) /\ wire[k + 2].kind = "payload",
         NEW n \in Nat, EndOf(wire, j) <= n,
         NEW f, f = RunOf(options, wire, n), InStep(f[k], k, n)
  PROVE  f[j] = f[k]
<1>1. InputInv /\ Len(wire) \in Nat
  BY WireIs DEF StreamInv
<1>2. PICK u, st, left, e : /\ u = wire[k + 1] /\ st = f[k] /\ e = EndOf(wire, k)
                            /\ left = n - EndOf(wire, k)
  OBVIOUS
<1>3. /\ PlacesOf(wire)[k + 1] = PlaceAfter(PlacesOf(wire)[k], u) /\ IsUnit(u)
      /\ EndOf(wire, k + 1) = e + u.size /\ e \in Nat /\ EndOf(wire, k + 1) \in Nat
      /\ PlacesOf(wire)[k] = [payload |-> PlacesOf(wire)[k].payload, open |-> PlacesOf(wire)[k].open,
                              checksum |-> PlacesOf(wire)[k].checksum, last |-> PlacesOf(wire)[k].last]
  BY <1>1, <1>2, NextUnit
<1>4. u.kind = "skippable" /\ u.size = 8 /\ u.remaining \in Nat
  BY <1>2, <1>3 DEF IsUnit, SKIPPABLE_HEADER_SIZE
<1>5. PlacesOf(wire)[k + 1].payload = u.remaining
  BY <1>3, <1>4 DEF PlaceAfter
<1>6. EndOf(wire, j) = e + u.size + u.remaining
  <2>1. CASE j = k + 1 /\ wire[k + 1].remaining = 0
    BY <1>2, <1>3, <1>4, <2>1
  <2>2. CASE j = k + 2 /\ k + 2 \in 1..Len(wire) /\ wire[k + 2].kind = "payload"
    <3>1. k + 1 \in 0..Len(wire) /\ (k + 1) + 1 = k + 2 /\ k + 2 \in 1..Len(wire)
      BY <1>1, <2>2
    <3>2. /\ Belongs(PlacesOf(wire)[k + 1], wire[k + 2]) /\ IsUnit(wire[k + 2])
          /\ EndOf(wire, k + 2) = EndOf(wire, k + 1) + wire[k + 2].size
      BY <1>1, <3>1, NextUnit
    <3>3. wire[k + 2].size = u.remaining
      BY <1>4, <1>5, <2>2, <3>2 DEF Belongs
    <3> QED BY <1>3, <1>4, <2>2, <3>2, <3>3
  <2> QED BY <2>1, <2>2
<1>7. left \in Nat /\ u.size + u.remaining <= left /\ n # 0
  <2>1. PICK a \in Nat, r \in Nat : a = e /\ r = u.remaining
    BY <1>3, <1>4
  <2>2. EndOf(wire, j) = (a + 8) + r /\ left = n - a
    BY <1>2, <1>4, <1>6, <2>1
  <2>3. n - a \in Nat /\ 8 + r <= n - a /\ n # 0
    <3>1. (a + 8) + r <= n
      BY <2>2
    <3> QED BY <3>1
  <2> QED BY <1>4, <2>1, <2>2, <2>3
<1>8. IsRef(st) /\ st.between /\ st.result = "Ok"
  <2>1. IsRef(st) /\ st.between /\ st.result = ClosedResult(k, n)
    BY <1>2 DEF InStep
  <2> QED BY <1>7, <2>1 DEF ClosedResult
<1>9. f[k + 1] = st
  <2>1. f[k + 1] = Step(options, st, u, left)
    BY <1>1, <1>2, NextTurn
  <2>2. Step(options, st, u, left) = st
    BY <1>3, <1>4, <1>7, <1>8, SkippableTurn
  <2> QED BY <2>1, <2>2
<1>10. CASE j = k + 2 /\ k + 2 \in 1..Len(wire) /\ wire[k + 2].kind = "payload"
  <2>1. k + 1 \in 0..Len(wire) /\ (k + 1) + 1 = k + 2
    BY <1>1
  <2>2. f[k + 2] = Step(options, f[k + 1], wire[k + 2], n - EndOf(wire, k + 1))
    BY <1>1, <1>10, <2>1, NextTurn
  <2>3. f[k + 2] = f[k + 1]
    BY <1>10, <2>2, PayloadTurn
  <2> QED BY <1>2, <1>9, <1>10, <2>3
<1> QED BY <1>2, <1>9, <1>10

\* process_skippable_frame keeps the two side by side.
LEMMA SkippableSteps ==
  ASSUME StreamInv, StreamInv', PosInv, NEW k \in 0..Len(wire), At(k), StepsWith(k),
         process_skippable_frame
  PROVE  \E j \in 0..Len(wire) : At(j)' /\ StepsWith(j)'
<1>1. InputInv /\ InputInv' /\ ~frame.open /\ state.tag = "Skippable"
  BY DEF StreamInv, StateInv, process_skippable_frame
<1>2. /\ PosInv' /\ UNCHANGED <<options, wire, pushed, frame, decoded_a_frame>>
      /\ ~options.single_frame
      /\ k + 1 \in 1..Len(wire) /\ wire[k + 1].kind = "skippable"
      /\ \/ At(k)' /\ state'.tag = "Skippable"
         \/ wire[k + 1].remaining = 0 /\ At(k + 1)' /\ state'.tag = "FrameHeader"
         \/ /\ k + 2 \in 1..Len(wire) /\ wire[k + 2].kind = "payload"
            /\ At(k + 2)' /\ state'.tag = "FrameHeader"
  BY <1>1, SkippableFrameAt
<1>3. UNCHANGED <<outputVars, stream_start>>
  BY DEF process_skippable_frame, Progress, Returns, callerVars
<1>4. UNCHANGED StreamOutput
  BY <1>3, QuietOutput
<1>5. pushed \in Nat /\ Size(wire) \in Nat /\ Len(wire) \in Nat
      /\ \A n \in pushed..Size(wire) : n \in Nat /\ pushed <= n
  BY <1>1, PushedIs
<1>6. StepsWith(k)'
  <2>1. pushed \in Int /\ pushed' \in Int /\ pushed <= pushed' /\ Size(wire) \in Int
    BY <1>2, <1>5
  <2> QED BY <1>1, <1>2, <1>3, <1>4, <2>1, StepsStay
<1>7. ASSUME NEW j \in 0..Len(wire), At(j)', state'.tag = "FrameHeader",
             \/ j = k + 1 /\ wire[k + 1].remaining = 0
             \/ j = k + 2 /\ k + 2 \in 1..Len(wire) /\ wire[k + 2].kind = "payload"
      PROVE  StepsWith(j)'
  <2>1. stream_input_pos' = EndOf(wire, j)
    BY <1>2, <1>7 DEF At, Stands
  <2>2. EndOf(wire, j) <= pushed
    <3>1. (stream_input_pos \in Nat /\ Available \in Nat /\ stream_input_pos + Available = pushed)'
      BY <1>1, <1>2, PosBoundNext
    <3>2. PICK a \in Nat, p \in Nat : a = stream_input_pos' /\ p = Available' /\ a + p = pushed'
      BY <3>1
    <3> QED BY <1>2, <2>1, <3>2
  <2>3. PlacesOf(wire)[k].payload = 0
    BY DEF At, Stands
  <2>4. SUFFICES ASSUME NEW n \in pushed..Size(wire)
                 PROVE  InStep(RunOf(options, wire, n)[j], j, n)'
    BY <1>2 DEF StepsWith
  <2>5. PICK f : f = RunOf(options, wire, n)
    OBVIOUS
  <2>6. InStep(f[k], k, n)
    BY <2>5 DEF StepsWith
  <2>7. n \in Nat /\ EndOf(wire, j) <= n
    <3>1. EndOf(wire, j) \in Nat
      BY <1>1, WireIs, EndIs
    <3> QED BY <1>5, <2>2, <3>1
  <2>8. f[j] = f[k]
    BY <1>1, <1>2, <1>7, <2>3, <2>5, <2>6, <2>7, SkippableAlike
  <2>9. PICK st : st = f[k]
    OBVIOUS
  <2>10. InStep(st, k, n)'
    BY <1>1, <1>2, <1>3, <1>4, <2>6, <2>9, InStepStays
  <2>11. InStep(st, j, n)'
    <3>1. ClosedResult(j, n)' = ClosedResult(k, n)'
      BY <1>2 DEF ClosedResult
    <3> QED BY <2>10, <3>1 DEF InStep
  <2>12. RunOf(options, wire, n)'[j] = st
    BY <1>2, <2>5, <2>8, <2>9
  <2> QED BY <2>11, <2>12
<1>8. k + 1 \in 0..Len(wire)
  BY <1>2, <1>5
<1>9. k + 2 \in 1..Len(wire) => k + 2 \in 0..Len(wire)
  BY <1>5
<1> QED BY <1>2, <1>6, <1>7, <1>8, <1>9

\* The stream's frame f is the one-shot decoder's.
SameFrame(f, st) ==
  f.header = st.header /\ f.frame_output_size = Len(st.out) - st.frame_start

\* What closing a frame comes to.
Closed(f, left) ==
  IF ContentMismatch(f) THEN "ContentSizeMismatch"
  ELSE IF options.single_frame /\ left # 0 THEN "TrailingInput" ELSE "Ok"

\* A frame that closes in both gets the same verdict.
LEMMA CloseAlike ==
  ASSUME NEW st, IsRef(st), NEW f, SameFrame(f, st), NEW left,
         NEW next, next = Close(options, st, left)
  PROVE  /\ next.out = st.out /\ next.between /\ IsRef(next)
         /\ next.result = Closed(f, left)
<1>1. PICK v, a, h, s, e : /\ v = CloseVerdict(options, st, left) /\ a = st.out /\ h = st.header
                           /\ s = st.frame_start /\ e = st.entropy
  OBVIOUS
<1>2. next = Ref(a, v, TRUE, h, s, e)
  BY <1>1, CloseIs
<1>3. next.out = a /\ next.between = TRUE /\ IsRef(next) /\ next.result = v
  BY <1>2 DEF Ref, IsRef
<1>4. v = Closed(f, left)
  BY <1>1 DEF CloseVerdict, ContentMismatch, Closed, SameFrame
<1> QED BY <1>1, <1>3, <1>4

\* A frame that closes in both leaves them in step behind it.
LEMMA ClosedInStep ==
  ASSUME NEW st, IsRef(st), NEW f, SameFrame(f, st), ~ContentMismatch(f),
         NEW n \in Nat, NEW j, EndOf(wire, j) \in Nat, EndOf(wire, j) # 0, EndOf(wire, j) <= n,
         NEW next, next = Close(options, st, n - EndOf(wire, j)),
         st.out = StreamOutput', frame'.open = FALSE, decoded_a_frame' = TRUE,
         UNCHANGED <<options, wire>>
  PROVE  InStep(next, j, n)'
<1>1. PICK e, left : e \in Nat /\ e = EndOf(wire, j) /\ left = n - e /\ e # 0 /\ e <= n
  OBVIOUS
<1>2. n # 0 /\ (left # 0 <=> n # e)
  BY <1>1
<1>3. next = Close(options, st, left)
  BY <1>1
<1>4. /\ next.out = st.out /\ next.between /\ IsRef(next)
      /\ next.result = IF options.single_frame /\ left # 0 THEN "TrailingInput" ELSE "Ok"
  <2>1. next.out = st.out /\ next.between /\ IsRef(next) /\ next.result = Closed(f, left)
    BY <1>3, CloseAlike
  <2> QED BY <2>1 DEF Closed
<1>5. ClosedResult(j, n)' = IF options.single_frame /\ n # e THEN "TrailingInput" ELSE "Ok"
  BY <1>1, <1>2 DEF ClosedResult
<1> QED BY <1>2, <1>4, <1>5 DEF InStep

\* What is left behind unit k.
LEMMA LeftIs ==
  ASSUME InputInv, NEW k \in 0..Len(wire), k + 1 \in 1..Len(wire), NEW n \in Nat
  PROVE  /\ EndOf(wire, k + 1) = EndOf(wire, k) + wire[k + 1].size
         /\ EndOf(wire, k + 1) \in Nat /\ EndOf(wire, k) \in Nat /\ EndOf(wire, k + 1) # 0
         /\ (n - EndOf(wire, k)) - wire[k + 1].size = n - EndOf(wire, k + 1)
         /\ EndOf(wire, k + 1) <= n <=> ~(n - EndOf(wire, k) < wire[k + 1].size)
         /\ IsUnit(wire[k + 1]) /\ wire[k + 1].size \in Nat
<1>1. /\ IsUnit(wire[k + 1]) /\ EndOf(wire, k + 1) = EndOf(wire, k) + wire[k + 1].size
      /\ EndOf(wire, k) \in Nat /\ EndOf(wire, k + 1) \in Nat
  BY NextUnit
<1>2. PICK e \in Nat, s \in Nat \ {0} : e = EndOf(wire, k) /\ s = wire[k + 1].size
  BY <1>1 DEF IsUnit
<1>3. EndOf(wire, k + 1) = e + s
  BY <1>1, <1>2
<1>4. /\ e + s \in Nat /\ e + s # 0 /\ (n - e) - s = n - (e + s)
      /\ e + s <= n <=> ~(n - e < s)
  OBVIOUS
<1> QED BY <1>1, <1>2, <1>3, <1>4

\* A checksum is judged alike.
LEMMA ChecksumAlike ==
  ASSUME StreamInv, PosInv, ~failed, NEW k \in 0..Len(wire), At(k), process_frame_checksum,
         frame.header.checksum, UNCHANGED StreamOutput,
         NEW n \in pushed..Size(wire), NEW st, InStep(st, k, n),
         NEW next, next = Step(options, st, wire[k + 1], n - EndOf(wire, k))
  PROVE  /\ next.out = StreamOutput'
         /\ IF failed' THEN next.result # "Ok" /\ result' = next.result
            ELSE InStep(next, k + 1, n)'
<1>1. PICK e : e = IF options.verify_checksum /\ Unit.digest # frame.hashed THEN "ChecksumMismatch"
                   ELSE IF ContentMismatch(frame) THEN "ContentSizeMismatch" ELSE "Ok"
  OBVIOUS
<1>2. state.tag = "FrameChecksum" /\ ~Stalled
  BY DEF process_frame_checksum
<1>3. /\ frame.open /\ stream_input_pos = EndOf(wire, k)
      /\ PlacesOf(wire)[k].payload = 0 /\ PlacesOf(wire)[k].open /\ PlacesOf(wire)[k].last
  BY <1>2 DEF At, Stands
<1>4. /\ e \in {"Ok", "ContentSizeMismatch"} => finish_frame(frame)
      /\ \/ e = "Ok" /\ Progress(CHECKSUM_SIZE)
         \/ e # "Ok" /\ Fails(e, CHECKSUM_SIZE)
  BY <1>1, <1>3 DEF process_frame_checksum
<1>5. InputInv /\ OpenFrame(frame)
  BY <1>3 DEF StreamInv, FrameInv
<1>6. Available >= 4 /\ Available \in Nat /\ stream_input_pos + Available = pushed /\ pushed \in Nat
  <2>1. Available \in Nat /\ stream_input_pos + Available = pushed /\ pushed \in Nat
    BY <1>5, PosIs DEF InputInv
  <2>2. ~(Available < 4)
    BY <1>2 DEF Stalled, CHECKSUM_SIZE
  <2>3. PICK a \in Nat : a = Available
    BY <2>1
  <2> QED BY <2>1, <2>2, <2>3
<1>7. k + 1 \in 1..Len(wire) /\ Unit = wire[k + 1]
  <2>1. Available # 0
    BY <1>6
  <2> QED BY <1>3, <1>5, <2>1, UnitAt
<1>8. n \in Nat /\ pushed <= n
  BY <1>5, PushedIs
<1>9. PICK u, left, j : u = wire[k + 1] /\ left = n - EndOf(wire, k) /\ j = k + 1
  OBVIOUS
<1>10. /\ EndOf(wire, j) = EndOf(wire, k) + u.size
       /\ EndOf(wire, j) \in Nat /\ EndOf(wire, k) \in Nat /\ EndOf(wire, j) # 0
       /\ left - u.size = n - EndOf(wire, j)
       /\ EndOf(wire, j) <= n <=> ~(left < u.size)
  BY <1>5, <1>7, <1>8, <1>9, LeftIs
<1>11. u.kind = "checksum" /\ u.size = 4
  <2>1. Belongs(PlacesOf(wire)[k], u) /\ IsUnit(u)
    BY <1>5, <1>7, <1>9, NextUnit
  <2>2. u.kind = "checksum"
    BY <1>3, <2>1 DEF Belongs
  <2> QED BY <2>1, <2>2 DEF IsUnit, CHECKSUM_SIZE
<1>12. EndOf(wire, j) <= n /\ ~(left < u.size)
  <2>1. PICK x \in Nat, a \in Nat : x = EndOf(wire, k) /\ a = Available
    BY <1>6, <1>10
  <2>2. EndOf(wire, j) = x + 4 /\ x + a = pushed /\ a >= 4 /\ pushed <= n
    BY <1>3, <1>6, <1>8, <1>10, <1>11, <2>1
  <2>3. x + 4 <= n
    BY <1>6, <1>8, <2>1, <2>2
  <2> QED BY <1>10, <2>2, <2>3
<1>13. /\ IsRef(st) /\ st.out = StreamOutput /\ ~st.between
       /\ st.result = "Ok" /\ st.header = frame.header
       /\ SameFrame(frame, st)
       /\ frame.hashed = SubSeq(st.out, st.frame_start + 1, Len(st.out))
  BY <1>3 DEF InStep, OpenAlike, SameFrame
<1>14. next = VerifyChecksum(options, st, u.digest, left - u.size)
  BY <1>9, <1>11, <1>12, <1>13 DEF Step
<1>15. CASE e = "ChecksumMismatch"
  <2>1. options.verify_checksum /\ u.digest # SubSeq(st.out, st.frame_start + 1, Len(st.out))
    BY <1>1, <1>7, <1>9, <1>13, <1>15
  <2>2. next = [st EXCEPT !.result = "ChecksumMismatch"]
    BY <1>14, <2>1 DEF VerifyChecksum
  <2>3. next = Ref(st.out, "ChecksumMismatch", st.between, st.header, st.frame_start, st.entropy)
    BY <1>13, <2>2, ResultSet
  <2>4. next.out = st.out /\ next.result = "ChecksumMismatch"
    BY <2>3 DEF Ref
  <2>5. failed' = TRUE /\ result' = e
    BY <1>4, <1>15 DEF Fails
  <2> QED BY <1>13, <1>15, <2>4, <2>5
<1>16. CASE e # "ChecksumMismatch"
  <2>1. next = Close(options, st, left - u.size)
    <3>1. ~(options.verify_checksum /\ u.digest # SubSeq(st.out, st.frame_start + 1, Len(st.out)))
      BY <1>1, <1>7, <1>9, <1>13, <1>16
    <3> QED BY <1>14, <3>1 DEF VerifyChecksum
  <2>2. next = Close(options, st, n - EndOf(wire, j))
    BY <1>10, <2>1
  <2>3. CASE ContentMismatch(frame)
    <3>1. next.out = st.out /\ next.result = "ContentSizeMismatch"
      <4>1. PICK l : l = left - u.size
        OBVIOUS
      <4>2. next.out = st.out /\ next.result = Closed(frame, l)
        BY <1>13, <2>1, <4>1, CloseAlike
      <4> QED BY <2>3, <4>2 DEF Closed
    <3>2. e = "ContentSizeMismatch"
      BY <1>1, <1>16, <2>3
    <3>3. failed' = TRUE /\ result' = e
      BY <1>4, <3>2 DEF Fails
    <3> QED BY <1>13, <3>1, <3>2, <3>3
  <2>4. CASE ~ContentMismatch(frame)
    <3>1. e = "Ok"
      BY <1>1, <1>16, <2>4
    <3>2. Progress(CHECKSUM_SIZE) /\ finish_frame(frame)
      BY <1>4, <3>1
    <3>3. frame' = [frame EXCEPT !.open = FALSE] /\ decoded_a_frame' = TRUE
      BY <2>4, <3>2 DEF finish_frame
    <3>4. frame'.open = FALSE
      BY <1>5, <3>3 DEF OpenFrame
    <3>5. UNCHANGED <<options, wire, failed>>
      BY <3>2 DEF Progress, callerVars
    <3>6. st.out = StreamOutput'
      BY <1>13
    <3>7. InStep(next, j, n)'
      BY <1>8, <1>10, <1>12, <1>13, <2>2, <2>4, <3>3, <3>4, <3>5, <3>6, ClosedInStep
    <3>8. next.out = st.out
      <4>1. PICK l : l = left - u.size
        OBVIOUS
      <4> QED BY <1>13, <2>1, <4>1, CloseAlike
    <3> QED BY <1>9, <3>5, <3>6, <3>7, <3>8
  <2> QED BY <2>3, <2>4
<1> QED BY <1>15, <1>16

-----------------------------------------------------------------------------
\* Where the stream's buffer is a part of the one-shot decoder's, and a block in both.

\* Two cuts of one list that run to its end end alike.
LEMMA TailIs ==
  ASSUME NEW z, Listed(z), NEW b, Listed(b), NEW p, p = z \o b, NEW s \in Nat, s <= Len(p),
         NEW w, w = SubSeq(p, s + 1, Len(p)), NEW c \in Nat, c <= Len(b), c <= Len(w)
  PROVE  SameTail(b, w, c)
<1>1. Listed(p) /\ Len(p) = Len(z) + Len(b) /\ Len(z) \in Nat /\ Len(b) \in Nat
  BY ListsJoin
<1>2. Listed(w) /\ Len(w) = Len(p) - s
  <2>1. Listed(p) /\ s \in Nat /\ s <= Len(p)
    BY <1>1
  <2> QED BY <2>1, Split
<1>3. PICK lz \in Nat, lb \in Nat, lp \in Nat, lw \in Nat :
        /\ lz = Len(z) /\ lb = Len(b) /\ lp = Len(p) /\ lw = Len(w)
        /\ lp = lz + lb /\ lw = lp - s /\ s <= lp /\ c <= lb /\ c <= lw
  BY <1>1, <1>2
<1>4. ASSUME NEW i \in 0..(c - 1) PROVE b[lb - i] = w[lw - i]
  <2>1. i \in Nat /\ i + 1 <= c
    BY <1>4
  <2>2. i + 1 <= lb /\ i + 1 <= lw
    BY <2>1, <1>3
  <2>3. lb - i \in 1..lb /\ lw - i \in 1..lw
    BY <2>1, <2>2
  <2>4. lp - i = lz + (lb - i) /\ ~(lp - i <= lz) /\ (lp - i) - lz = lb - i
    BY <2>1, <2>2, <2>3, <1>3
  <2>5. s + lw = lp /\ lw - i \in Nat
    BY <2>1, <2>2, <1>3
  <2>6. (s + 1) + (lw - i) - 1 = lp - i
    BY <2>1, <2>5
  <2>7. lb - i \in 1..lb /\ lw - i \in 1..lw /\ lp - i = lz + (lb - i)
        /\ (s + 1) + (lw - i) - 1 = lp - i /\ ~(lp - i <= lz) /\ (lp - i) - lz = lb - i
    BY <2>3, <2>4, <2>6
  <2>8. p[lp - i] = b[lb - i]
    <3>1. lp - i \in 1..(Len(z) + Len(b)) /\ Listed(z) /\ Listed(b)
      BY <1>3, <2>7
    <3>2. (z \o b)[lp - i] = IF lp - i <= Len(z) THEN z[lp - i] ELSE b[(lp - i) - Len(z)]
      BY <3>1, JoinAt
    <3> QED BY <1>3, <2>7, <3>2
  <2>9. w[lw - i] = p[lp - i]
    <3>1. /\ s + 1 \in 1..(Len(p) + 1) /\ lp \in ((s + 1) - 1)..Len(p)
          /\ lw - i \in 1..(lp - (s + 1) + 1)
      BY <1>3, <2>7
    <3>2. SubSeq(p, s + 1, lp)[lw - i] = p[(s + 1) + (lw - i) - 1]
      BY <1>1, <3>1, CutAt
    <3> QED BY <1>3, <2>7, <3>2
  <2> QED BY <2>8, <2>9
<1> QED BY <1>3, <1>4 DEF SameTail

\* The cap on the buffer is the cap on the stream, or tighter where a buffer holds more
\* than the stream (decode_block's saturating_sub).
LEMMA LimitsAre ==
  ASSUME NEW t \in Nat, NEW b, Listed(b), NEW w, Listed(w), Len(w) = t,
         NEW cap \in Nat \cup {None}, NEW same \in BOOLEAN,
         same => cap = None \/ Len(b) <= t,
         NEW l, l = [produced_before |-> saturating_sub(t, Len(b)), max_output_size |-> cap],
         NEW m, m = [produced_before |-> 0, max_output_size |-> cap]
  PROVE  Limits(same, l, b, m, w)
<1>1. PICK k : k \in Nat /\ k = Len(b)
  BY WholeCut
<1>2. PICK r : r = saturating_sub(t, k)
  OBVIOUS
<1>3. r \in Nat /\ t <= r + k /\ (k <= t => r + k = t)
  BY <1>1, <1>2 DEF saturating_sub
<1>4. l.produced_before = r /\ l.max_output_size = cap
  BY <1>1, <1>2
<1>5. m.produced_before = 0 /\ m.max_output_size = cap
  OBVIOUS
<1>6. ASSUME NEW n \in Nat
      PROVE  /\ OverCap(m, Len(w) + n) => OverCap(l, Len(b) + n)
             /\ same /\ OverCap(l, Len(b) + n) => OverCap(m, Len(w) + n)
  <2>1. OverCap(m, Len(w) + n) <=> cap # None /\ 0 + (t + n) > cap
    BY <1>5 DEF OverCap
  <2>2. OverCap(l, Len(b) + n) <=> cap # None /\ r + (k + n) > cap
    BY <1>1, <1>4 DEF OverCap
  <2>3. CASE cap = None
    BY <2>1, <2>2, <2>3
  <2>4. CASE cap # None
    <3>1. cap \in Nat
      BY <2>4
    <3>2. 0 + (t + n) > cap => r + (k + n) > cap
      BY <1>1, <1>3, <3>1
    <3>3. k <= t /\ r + (k + n) > cap => 0 + (t + n) > cap
      BY <1>1, <1>3, <3>1
    <3> QED BY <1>1, <2>1, <2>2, <2>4, <3>2, <3>3
  <2> QED BY <2>3, <2>4
<1> QED BY <1>6 DEF Limits

\* A decoder's first stream begins with its first byte.
FirstInv == streams \in Nat \ {0} /\ (streams = 1 => stream_start = 0)

\* What the buffer holds of an open frame is the end of what the stream has produced.
LEMMA HistoryIs ==
  ASSUME StreamInv, CapInv, KeptInv, Window!IInv, ~failed, frame.open,
         NEW st, st.out = StreamOutput, OpenAlike(st)
  PROVE  /\ History(output, frame.frame_start, StreamOutput, st.frame_start, frame.window_size)
         /\ st.frame_start <= Len(StreamOutput)
<1>1. BufferInv
  BY DEF StreamInv
<1>2. /\ Listed(StreamOutput) /\ Len(StreamOutput) \in Nat
      /\ stream_start \in Nat /\ Len(Produced) \in Nat
      /\ Len(StreamOutput) + stream_start = Len(Produced)
  BY <1>1, AccountIs
<1>3. /\ frame.frame_start \in Nat /\ frame.frame_start <= Len(output)
      /\ frame.origin \in Nat /\ frame.origin <= Len(Produced)
      /\ Len(output) - frame.frame_start <= Len(Produced) - frame.origin
      /\ \/ Len(output) - frame.frame_start = Len(Produced) - frame.origin
         \/ Len(output) - frame.frame_start > frame.window_size
  BY Retained
<1>4. Listed(output) /\ Len(output) \in Nat
  BY <1>1, Counted DEF BufferInv
<1>5. st.frame_start \in Nat /\ st.frame_start + stream_start = frame.origin
  BY DEF OpenAlike
<1>6. PICK b, w, p : b = output /\ w = StreamOutput /\ p = Produced
  OBVIOUS
<1>7. PICK lb, lw, lp, f, g, s, o :
        /\ lb = Len(b) /\ lw = Len(w) /\ lp = Len(p) /\ f = frame.frame_start
        /\ g = st.frame_start /\ s = stream_start /\ o = frame.origin
  OBVIOUS
<1>8. /\ lb \in Nat /\ lw \in Nat /\ lp \in Nat /\ f \in Nat /\ g \in Nat /\ s \in Nat /\ o \in Nat
      /\ lw + s = lp /\ f <= lb /\ o <= lp /\ g + s = o
  BY <1>2, <1>3, <1>4, <1>5, <1>6, <1>7
<1>9. g <= lw /\ lp - o = lw - g /\ lb - f \in Nat /\ lb - f <= lb /\ s <= lp
  BY <1>8
<1>10. lb - f <= lw - g /\ (lb - f = lw - g \/ lb - f > frame.window_size)
  BY <1>3, <1>6, <1>7, <1>9
<1>11. lb - f <= lw
  BY <1>8, <1>9, <1>10
<1>12. PICK z : Listed(z) /\ p = z \o b
  BY <1>1, <1>6, ProducedIs
<1>13. w = SubSeq(p, s + 1, Len(p))
  BY <1>6, <1>7 DEF StreamOutput
<1>14. Listed(b) /\ Listed(z)
  BY <1>4, <1>6, <1>12
<1>15. PICK c : c = lb - f
  OBVIOUS
<1>16. SameTail(b, w, c)
  <2>1. c \in Nat /\ c <= Len(b) /\ c <= Len(w) /\ s \in Nat /\ s <= Len(p)
    BY <1>7, <1>8, <1>9, <1>11, <1>15
  <2> QED BY <1>12, <1>13, <1>14, <2>1, TailIs
<1>17. History(b, f, w, g, frame.window_size)
  <2>1. Listed(b) /\ Listed(w)
    BY <1>2, <1>6, <1>14
  <2>2. SameTail(b, w, Len(b) - f)
    BY <1>7, <1>15, <1>16
  <2> QED BY <1>7, <1>8, <1>10, <2>1, <2>2 DEF History
<1> QED BY <1>6, <1>7, <1>9, <1>17

\* The cap on what the buffer may grow to.
LEMMA LimitsOfStream ==
  ASSUME StreamInv, CapInv, KeptInv, FirstInv, ~failed,
         NEW l, l = [produced_before |-> saturating_sub(total_output_size, Len(output)),
                     max_output_size |-> options.max_output_size]
  PROVE  Limits(Comparable, l, output, RefLimit(options), StreamOutput) /\ Comparable \in BOOLEAN
<1>1. BufferInv /\ options \in Configured
  BY DEF StreamInv, InputInv
<1>2. /\ Listed(StreamOutput) /\ Len(StreamOutput) \in Nat /\ total_output_size = Len(StreamOutput)
      /\ stream_start \in Nat /\ Len(Produced) \in Nat
      /\ Len(StreamOutput) + stream_start = Len(Produced)
  BY <1>1, AccountIs
<1>3. Listed(output) /\ Len(output) \in Nat
  BY <1>1, Counted DEF BufferInv
<1>4. options.max_output_size \in Nat \cup {None}
  BY <1>1, SetupsAssumption DEF Configured
<1>5. ASSUME streams = 1 PROVE Len(output) <= Len(StreamOutput)
  <2>1. stream_start = 0
    BY <1>5 DEF FirstInv
  <2>2. PICK z : Listed(z) /\ Produced = z \o output
    BY <1>1, ProducedIs
  <2>3. Len(Produced) = Len(z) + Len(output) /\ Len(z) \in Nat
    BY <1>3, <2>2, ListsJoin
  <2> QED BY <1>2, <1>3, <2>1, <2>3
<1>6. PICK t, b, w, cap, same :
        /\ t = total_output_size /\ b = output /\ w = StreamOutput
        /\ cap = options.max_output_size /\ same = Comparable
  OBVIOUS
<1>7. same \in BOOLEAN
  BY <1>6 DEF Comparable
<1>8. same => cap = None \/ Len(b) <= t
  BY <1>2, <1>5, <1>6 DEF Comparable
<1>9. t \in Nat /\ Listed(b) /\ Listed(w) /\ Len(w) = t /\ cap \in Nat \cup {None}
  BY <1>2, <1>3, <1>4, <1>6
<1>10. PICK m : m = [produced_before |-> 0, max_output_size |-> cap]
  OBVIOUS
<1>11. l = [produced_before |-> saturating_sub(t, Len(b)), max_output_size |-> cap]
  BY <1>6
<1>12. Limits(same, l, b, m, w)
  BY <1>7, <1>8, <1>9, <1>10, <1>11, LimitsAre
<1> QED BY <1>6, <1>7, <1>10, <1>12 DEF RefLimit

\* What decode_block fixes for a block of the open frame.
StreamEnv ==
  [frame_start |-> frame.frame_start, window_size |-> frame.window_size,
   block_size_max |-> frame.header.block_size_max]
StreamLimit ==
  [produced_before |-> saturating_sub(total_output_size, Len(output)),
   max_output_size |-> options.max_output_size]

\* Both are good ones.
LEMMA StreamEnvGood ==
  ASSUME StreamInv, Window!IInv, frame.open
  PROVE  /\ GoodEnv(StreamEnv, StreamLimit)
         /\ StreamEnv.frame_start = frame.frame_start /\ StreamEnv.window_size = frame.window_size
         /\ StreamEnv.block_size_max = frame.header.block_size_max
<1>1. options \in Configured /\ BufferInv /\ OpenFrame(frame)
  BY DEF StreamInv, InputInv, FrameInv
<1>2. frame.frame_start \in Nat
  BY Retained
<1>3. frame.window_size \in Nat /\ frame.header.block_size_max \in Nat
  <2>1. /\ frame.window_size \in Nat
        /\ frame.header.block_size_max = Least(frame.window_size, BlockSizeMax)
    BY <1>1, WindowOf
  <2> QED BY <2>1, StreamDecoderAssumption DEF Least
<1>4. saturating_sub(total_output_size, Len(output)) \in Nat
  <2>1. PICK t \in Nat, l \in Nat : t = total_output_size /\ l = Len(output)
    BY <1>1, Counted DEF BufferInv
  <2>2. saturating_sub(t, l) \in Nat
    BY DEF saturating_sub
  <2> QED BY <2>1, <2>2
<1>5. options.max_output_size \in Nat \cup {None}
  BY <1>1, SetupsAssumption DEF Configured
<1>6. PICK env, limit : env = StreamEnv /\ limit = StreamLimit
  OBVIOUS
<1>7. env.frame_start = frame.frame_start /\ env.window_size = frame.window_size
      /\ env.block_size_max = frame.header.block_size_max
  BY <1>6 DEF StreamEnv
<1>8. limit.produced_before = saturating_sub(total_output_size, Len(output))
      /\ limit.max_output_size = options.max_output_size
  BY <1>6 DEF StreamLimit
<1>9. frame.frame_start \in Int
  BY <1>2
<1> QED BY <1>3, <1>4, <1>5, <1>6, <1>7, <1>8, <1>9 DEF GoodEnv

\* A block that both begin in step: the stream's decode_block makes of its buffer what the
\* one-shot decoder makes of all its output.
LEMMA BlockTogether ==
  ASSUME StreamInv, CapInv, KeptInv, FirstInv, Window!IInv, ~failed, frame.open,
         state.tag = "BlockPayload",
         NEW st, st.out = StreamOutput, OpenAlike(st),
         NEW u, u = state.header, NEW d, d = decode_block(u),
         NEW e, e = DecodeBlock(u, RefEnv(st), options.dictionary, RefLimit(options), st.out, st.entropy)
  PROVE  SameOutcome(Comparable, output, StreamOutput, d, e) /\ Comparable \in BOOLEAN
<1>1. options \in Configured /\ OpenFrame(frame)
  BY DEF StreamInv, InputInv, FrameInv
<1>2. u \in UnitsOf(options) /\ u.kind = "block" /\ u.block_type # "Reserved"
  BY DEF StreamInv, StateInv
<1>3. /\ History(output, frame.frame_start, StreamOutput, st.frame_start, frame.window_size)
      /\ st.frame_start <= Len(StreamOutput)
  BY HistoryIs
<1>4. /\ Limits(Comparable, StreamLimit, output, RefLimit(options), StreamOutput)
      /\ Comparable \in BOOLEAN
  <2>1. PICK l : l = [produced_before |-> saturating_sub(total_output_size, Len(output)),
                      max_output_size |-> options.max_output_size]
    OBVIOUS
  <2>2. Limits(Comparable, l, output, RefLimit(options), StreamOutput) /\ Comparable \in BOOLEAN
    BY <2>1, LimitsOfStream
  <2> QED BY <2>1, <2>2 DEF StreamLimit
<1>5. /\ GoodEnv(StreamEnv, StreamLimit)
      /\ StreamEnv.frame_start = frame.frame_start /\ StreamEnv.window_size = frame.window_size
      /\ StreamEnv.block_size_max = frame.header.block_size_max
  BY StreamEnvGood
<1>6. /\ st.header = frame.header /\ st.entropy = frame.entropy /\ st.frame_start \in Nat
      /\ frame.header \in UnitsOf(options) /\ frame.header.kind = "frame"
      /\ frame.window_size = frame.header.window_size /\ GoodEntropy(options, frame.entropy)
  BY <1>1 DEF OpenAlike, OpenFrame
<1>7. GoodEnv(RefEnv(st), RefLimit(options)) /\ RefEnv(st).frame_start = st.frame_start
  <2>1. st.header \in UnitsOf(options) /\ st.header.kind = "frame"
    BY <1>6
  <2> QED BY <1>1, <1>6, <2>1, RefEnvGood
<1>8. RefEnv(st).window_size = frame.window_size /\ RefEnv(st).block_size_max = frame.header.block_size_max
  BY <1>6 DEF RefEnv
<1>9. PICK o, same, env, l, rev, m, b, w, entropy :
        /\ o = options /\ same = Comparable /\ env = StreamEnv /\ l = StreamLimit
        /\ rev = RefEnv(st) /\ m = RefLimit(options) /\ b = output /\ w = StreamOutput
        /\ entropy = frame.entropy
  OBVIOUS
<1>10. AlikeEnv(same, env, l, b, rev, m, w)
  BY <1>3, <1>4, <1>5, <1>7, <1>8, <1>9 DEF AlikeEnv
<1>11. d = DecodeBlock(u, env, o.dictionary, l, b, entropy)
  BY <1>9 DEF decode_block, StreamEnv, StreamLimit
<1>12. e = DecodeBlock(u, rev, o.dictionary, m, w, entropy)
  BY <1>6, <1>9
<1>13. o \in Configured /\ u \in UnitsOf(o) /\ same \in BOOLEAN
  BY <1>1, <1>2, <1>4, <1>9
<1>14. GoodEnv(env, l) /\ GoodEnv(rev, m) /\ GoodEntropy(o, entropy)
  BY <1>5, <1>6, <1>7, <1>9
<1>15. SameOutcome(same, b, w, d, e)
  BY <1>2, <1>10, <1>11, <1>12, <1>13, <1>14, BlockAlike
<1> QED BY <1>4, <1>9, <1>15

\* What a block that decoded to e leaves the one-shot decoder with.
Decoded(st, e) == Ref(e.out, e.result, st.between, st.header, st.frame_start, e.entropy)

\* A last block without a checksum closes its frame, any other leaves it open.
LEMMA BlockLeaves ==
  ASSUME NEW o, NEW st, IsRef(st), NEW block, NEW left, NEW e
  PROVE  AfterBlock(o, st, block, left, e)
           = IF e.result = "Ok" /\ block.last_block /\ ~st.header.checksum
             THEN Close(o, Decoded(st, e), left) ELSE Decoded(st, e)
<1>1. PICK a, b, c, h, f, g : st = [out |-> a, result |-> b, between |-> c, header |-> h,
                                    frame_start |-> f, entropy |-> g]
  BY DEF IsRef, Ref
<1>2. PICK x, y, z : x = e.out /\ y = e.entropy /\ z = e.result
  OBVIOUS
<1>3. PICK next : next = [st EXCEPT !.out = x, !.entropy = y, !.result = z]
  OBVIOUS
<1>4. next = [out |-> x, result |-> z, between |-> c, header |-> h, frame_start |-> f, entropy |-> y]
  BY <1>1, <1>3
<1>5. next = Decoded(st, e)
  BY <1>1, <1>2, <1>4 DEF Decoded, Ref
<1>6. AfterBlock(o, st, block, left, e)
        = IF z = "Ok" /\ block.last_block /\ ~st.header.checksum THEN Close(o, next, left) ELSE next
  BY <1>2, <1>3 DEF AfterBlock
<1> QED BY <1>2, <1>5, <1>6

\* Its fields.
LEMMA DecodedIs ==
  ASSUME NEW st, NEW e, NEW next, next = Decoded(st, e)
  PROVE  /\ next.out = e.out /\ next.result = e.result /\ next.between = st.between
         /\ next.header = st.header /\ next.frame_start = st.frame_start
         /\ next.entropy = e.entropy /\ IsRef(next)
<1>1. PICK a, b, c, h, f, g : /\ a = e.out /\ b = e.result /\ c = st.between /\ h = st.header
                              /\ f = st.frame_start /\ g = e.entropy
  OBVIOUS
<1>2. next = Ref(a, b, c, h, f, g)
  BY <1>1 DEF Decoded
<1> QED BY <1>1, <1>2, RefIs

\* A raw or repeated block larger than its frame allows.
Oversized(u, header) == u.block_type \in {"Raw", "Rle"} /\ u.block_size > header.block_size_max

\* The stream refuses it when its payload is there.
LEMMA OversizedFails ==
  ASSUME NEW u, Oversized(u, frame.header), NEW d, d = decode_block(u)
  PROVE  d.result = "Corruption" /\ d.out = output
<1>1. PICK env, limit : /\ d = DecodeBlock(u, env, options.dictionary, limit, output, frame.entropy)
                        /\ env.block_size_max = frame.header.block_size_max
  <2>1. PICK env : env = [frame_start |-> frame.frame_start, window_size |-> frame.window_size,
                          block_size_max |-> frame.header.block_size_max]
    OBVIOUS
  <2>2. env.block_size_max = frame.header.block_size_max
    BY <2>1
  <2> QED BY <2>1, <2>2 DEF decode_block
<1>2. u.block_type # "Compressed" /\ u.block_size > env.block_size_max
  BY <1>1 DEF Oversized
<1>3. d = Failed("Corruption", output, frame.entropy)
  BY <1>1, <1>2 DEF DecodeBlock
<1> QED BY <1>3 DEF Failed

\* The same behind the same is the same.
LEMMA SameRest ==
  ASSUME NEW a, Listed(a), NEW m, Listed(m), NEW p, Listed(p), a \o m = a \o p
  PROVE  m = p
<1>1. /\ SubSeq(a \o m, Len(a) + 1, Len(a) + Len(m)) = m
      /\ SubSeq(a \o p, Len(a) + 1, Len(a) + Len(p)) = p
  BY JoinRest
<1>2. Len(a \o m) = Len(a) + Len(m) /\ Len(a \o p) = Len(a) + Len(p)
  BY ListsJoin
<1> QED BY <1>1, <1>2

\* What a block appends to the buffer it appends to what the stream has produced.
LEMMA StreamWrites ==
  ASSUME StreamInv, KeptInv, CapInv, Window!IInv, state.tag = "BlockPayload", frame.open,
         NEW d, d = decode_block(state.header), output' = d.out,
         UNCHANGED <<output_pos, delivered, stream_start>>
  PROVE  /\ Extends(StreamOutput, StreamOutput')
         /\ \A x : Grown(output, StreamOutput, d.out, x) => StreamOutput' = x
<1>1. BufferInv /\ Listed(output)
  BY DEF StreamInv, BufferInv
<1>2. PICK m : Listed(m) /\ d.out = output \o m /\ Produced' = Produced \o m
  BY BlockBehind
<1>3. Listed(m) /\ stream_start \in Nat /\ stream_start <= Len(Produced)
  BY <1>2 DEF CapInv
<1>4. StreamOutput' = StreamOutput \o m
  BY <1>1, <1>2, <1>3, StreamGrows
<1>5. ASSUME NEW x, Grown(output, StreamOutput, d.out, x) PROVE StreamOutput' = x
  <2>1. PICK p : Listed(p) /\ d.out = output \o p /\ x = StreamOutput \o p
    BY <1>5 DEF Grown
  <2>2. PICK a : a = output
    OBVIOUS
  <2>3. Listed(a) /\ Listed(p) /\ a \o m = a \o p
    BY <1>1, <1>2, <2>1, <2>2
  <2>4. m = p
    BY <1>3, <2>3, SameRest
  <2> QED BY <1>4, <2>1, <2>4
<1> QED BY <1>3, <1>4, <1>5 DEF Extends

\* The one-shot decoder's turn at a block whose payload is there.
LEMMA BlockTurn ==
  ASSUME StreamInv, PosInv, NEW k \in 0..Len(wire), At(k), state.tag = "BlockPayload", ~Stalled,
         NEW n \in pushed..Size(wire), NEW st, InStep(st, k, n), NEW j, j = PayloadEnd(wire, k),
         NEW u, u = state.header, NEW left, left = n - EndOf(wire, j),
         NEW e, e = DecodeBlock(u, RefEnv(st), options.dictionary, RefLimit(options), st.out, st.entropy),
         NEW next, next = Step(options, st, wire[k + 1], n - EndOf(wire, k))
  PROVE  /\ IF Oversized(u, st.header) THEN next = [st EXCEPT !.result = "Corruption"]
            ELSE next = AfterBlock(options, st, u, left, e)
         /\ EndOf(wire, j) \in Nat /\ EndOf(wire, j) # 0 /\ EndOf(wire, j) <= n /\ n \in Nat
         /\ frame.open /\ IsRef(st) /\ st.out = StreamOutput /\ OpenAlike(st) /\ ~st.between
<1>1. InputInv
  BY DEF StreamInv
<1>2. /\ k + 1 \in 1..Len(wire) /\ u = wire[k + 1] /\ u.kind = "block"
      /\ j \in 1..Len(wire) /\ EndOf(wire, j) = stream_input_pos + payload_size(u)
  BY PayloadAt
<1>3. stream_input_pos = EndOf(wire, k + 1) /\ frame.open
  BY DEF At, Stands
<1>4. n \in Nat /\ pushed <= n /\ pushed \in Nat
  BY <1>1, PushedIs
<1>5. payload_size(u) \in Nat /\ payload_size(u) <= Available
  BY PayloadRead
<1>6. /\ stream_input_pos \in Nat /\ Available \in Nat /\ stream_input_pos + Available = pushed
  BY <1>1, PosIs
<1>7. /\ EndOf(wire, k + 1) = EndOf(wire, k) + u.size
      /\ EndOf(wire, k + 1) \in Nat /\ EndOf(wire, k) \in Nat /\ EndOf(wire, k + 1) # 0
      /\ (n - EndOf(wire, k)) - u.size = n - EndOf(wire, k + 1)
      /\ EndOf(wire, k + 1) <= n <=> ~(n - EndOf(wire, k) < u.size)
  BY <1>1, <1>2, <1>4, LeftIs
<1>8. PICK x \in Nat, p \in Nat, a \in Nat, y \in Nat :
        x = EndOf(wire, k + 1) /\ p = payload_size(u) /\ a = Available /\ y = EndOf(wire, j)
  <2>1. PICK c \in Nat, q \in Nat : c = stream_input_pos /\ q = payload_size(u)
    BY <1>5, <1>6
  <2>2. EndOf(wire, j) = c + q
    BY <1>2, <2>1
  <2>3. EndOf(wire, j) \in Nat
    BY <2>2
  <2> QED BY <1>5, <1>6, <1>7, <2>3
<1>9. y = x + p /\ x + a = pushed /\ p <= a /\ pushed <= n /\ x # 0
  <2>1. y = x + p
    BY <1>2, <1>3, <1>8
  <2>2. x + a = pushed /\ p <= a
    BY <1>3, <1>5, <1>6, <1>8
  <2> QED BY <1>4, <1>7, <1>8, <2>1, <2>2
<1>10. x <= n /\ y <= n /\ y # 0 /\ ~(n - x < p) /\ (n - x) - p = n - y
  <2>1. x + p <= n
    BY <1>4, <1>9
  <2>2. n \in Nat /\ x \in Nat /\ p \in Nat /\ y \in Nat /\ y = x + p /\ x # 0
    BY <1>4, <1>8, <1>9
  <2>3. x <= n /\ y <= n /\ y # 0
    BY <2>1, <2>2
  <2>4. ~(n - x < p) /\ (n - x) - p = n - y
    BY <2>1, <2>2
  <2> QED BY <2>3, <2>4
<1>11. IsRef(st) /\ st.out = StreamOutput /\ OpenAlike(st) /\ ~st.between /\ st.result = "Ok"
  BY <1>3 DEF InStep, OpenAlike
<1>12. next = DecodeOne(options, st, u, n - x)
  BY <1>2, <1>7, <1>8, <1>10, <1>11 DEF Step
<1>13. u.block_type # "Reserved"
  BY DEF StreamInv, StateInv
<1>14. Oversized(u, st.header) => next = [st EXCEPT !.result = "Corruption"]
  BY <1>12 DEF DecodeOne, Oversized
<1>15. ~Oversized(u, st.header) => next = AfterBlock(options, st, u, (n - x) - p, e)
  BY <1>8, <1>10, <1>12, <1>13 DEF DecodeOne, Oversized, RefEnv, RefLimit
<1> QED BY <1>3, <1>4, <1>8, <1>10, <1>11, <1>14, <1>15

\* Whatever it comes to, the one-shot decoder keeps what the block wrote.
LEMMA BlockKeepsOut ==
  ASSUME NEW o, NEW st, IsRef(st), NEW block, NEW left, NEW e,
         NEW next, next = AfterBlock(o, st, block, left, e)
  PROVE  next.out = e.out
<1>1. PICK y : y = Decoded(st, e)
  OBVIOUS
<1>2. y.out = e.out /\ IsRef(y)
  BY <1>1, DecodedIs
<1>3. next = y \/ next = Close(o, y, left)
  BY <1>1, BlockLeaves
<1>4. CASE next = Close(o, y, left)
  <2>1. PICK a, v, h, f, g : /\ a = y.out /\ v = CloseVerdict(o, y, left) /\ h = y.header
                             /\ f = y.frame_start /\ g = y.entropy
    OBVIOUS
  <2>2. next = Ref(a, v, TRUE, h, f, g)
    BY <1>2, <1>4, <2>1, CloseIs
  <2>3. next.out = a
    BY <2>2 DEF Ref
  <2> QED BY <1>2, <2>1, <2>3
<1> QED BY <1>2, <1>3, <1>4

\* A block that fails in the stream fails in the one-shot decoder, with the same error and
\* the same bytes written; only a cap that a buffer holds more against stops it sooner.
LEMMA BlockErrorAlike ==
  ASSUME StreamInv, PosInv, CapInv, KeptInv, FirstInv, Window!IInv, ~failed,
         NEW k \in 0..Len(wire), At(k), process_block_error,
         NEW n \in pushed..Size(wire), NEW st, InStep(st, k, n),
         NEW next, next = Step(options, st, wire[k + 1], n - EndOf(wire, k))
  PROVE  /\ failed'
         /\ Comparable => next.out = StreamOutput' /\ result' = next.result /\ next.result # "Ok"
         /\ Extends(StreamOutput', next.out)
<1>1. PICK u, d : u = state.header /\ d = decode_block(u)
  OBVIOUS
<1>2. /\ state.tag = "BlockPayload" /\ ~Stalled /\ frame.open /\ d.result # "Ok"
      /\ output' = d.out /\ Fails(d.result, payload_size(u))
      /\ UNCHANGED <<output_pos, delivered>>
  BY <1>1 DEF process_block_error
<1>3. failed' = TRUE /\ result' = d.result /\ UNCHANGED stream_start
  BY <1>2 DEF Fails, callerVars
<1>4. PICK j, left, e :
        /\ j = PayloadEnd(wire, k) /\ left = n - EndOf(wire, j)
        /\ e = DecodeBlock(u, RefEnv(st), options.dictionary, RefLimit(options), st.out, st.entropy)
  OBVIOUS
<1>5. /\ IF Oversized(u, st.header) THEN next = [st EXCEPT !.result = "Corruption"]
         ELSE next = AfterBlock(options, st, u, left, e)
      /\ IsRef(st) /\ st.out = StreamOutput /\ OpenAlike(st)
  <2>1. u = state.header /\ state.tag = "BlockPayload" /\ ~Stalled
    BY <1>1, <1>2
  <2>2. j = PayloadEnd(wire, k) /\ left = n - EndOf(wire, j)
    BY <1>4
  <2>3. e = DecodeBlock(u, RefEnv(st), options.dictionary, RefLimit(options), st.out, st.entropy)
    BY <1>4
  <2>4. next = Step(options, st, wire[k + 1], n - EndOf(wire, k))
    OBVIOUS
  <2> QED BY <2>1, <2>2, <2>3, <2>4, BlockTurn
<1>6. SameOutcome(Comparable, output, StreamOutput, d, e)
  BY <1>1, <1>2, <1>4, <1>5, BlockTogether
<1>7. /\ Extends(StreamOutput, StreamOutput')
      /\ \A x : Grown(output, StreamOutput, d.out, x) => StreamOutput' = x
  BY <1>1, <1>2, <1>3, StreamWrites
<1>8. Listed(output) /\ Listed(StreamOutput)
  BY StreamListed DEF StreamInv, BufferInv, CapInv
<1>9. Extends(StreamOutput', StreamOutput')
  <2>1. PICK x, y : x = StreamOutput /\ y = StreamOutput'
    OBVIOUS
  <2>2. Listed(x) /\ Extends(x, y)
    BY <1>7, <1>8, <2>1
  <2>3. Listed(y)
    BY <2>2, ExtendsListed
  <2> QED BY <2>1, <2>3, ExtendsItself
<1>10. CASE Oversized(u, st.header)
  <2>1. Oversized(u, frame.header)
    BY <1>5, <1>10 DEF OpenAlike
  <2>2. d.result = "Corruption" /\ d.out = output
    BY <1>1, <2>1, OversizedFails
  <2>3. StreamOutput' = StreamOutput
    BY <1>7, <1>8, <2>2, GrownNone
  <2>4. next = Ref(st.out, "Corruption", st.between, st.header, st.frame_start, st.entropy)
    BY <1>5, <1>10, ResultSet
  <2>5. next.out = st.out /\ next.result = "Corruption"
    BY <2>4 DEF Ref
  <2> QED BY <1>3, <1>5, <1>9, <2>2, <2>3, <2>5
<1>11. CASE ~Oversized(u, st.header)
  <2>1. next = AfterBlock(options, st, u, left, e)
    BY <1>5, <1>11
  <2>2. next.out = e.out
    BY <1>5, <2>1, BlockKeepsOut
  <2>3. CASE Grown(output, StreamOutput, d.out, e.out) /\ d.result = e.result
    <3>1. StreamOutput' = e.out
      BY <1>7, <2>3
    <3>2. next = Decoded(st, e)
      BY <1>2, <1>5, <2>1, <2>3, BlockLeaves
    <3>3. next.result = e.result
      BY <3>2, DecodedIs
    <3> QED BY <1>2, <1>3, <1>9, <2>2, <2>3, <3>1, <3>3
  <2>4. CASE ~Comparable /\ \E v : Grown(output, StreamOutput, d.out, v) /\ Extends(v, e.out)
    <3>1. PICK v : Grown(output, StreamOutput, d.out, v) /\ Extends(v, e.out)
      BY <2>4
    <3>2. StreamOutput' = v
      BY <1>7, <3>1
    <3> QED BY <1>3, <2>2, <2>4, <3>1, <3>2
  <2> QED BY <1>6, <2>3, <2>4 DEF SameOutcome
<1> QED BY <1>10, <1>11

-----------------------------------------------------------------------------
\* A block's turn.

\* A frame's record.
IsFrame(f) ==
  f = [open |-> f.open, header |-> f.header, window_size |-> f.window_size,
       frame_start |-> f.frame_start, frame_output_size |-> f.frame_output_size,
       hashed |-> f.hashed, entropy |-> f.entropy, origin |-> f.origin]

\* What is hashed of a frame with a checksum, once m is.
Hashes(f, m) == f.header.checksum => f.hashed = frame.hashed \o m

\* Two of one header and origin.
OneFrameOf(f, g) == f.header = g.header /\ f.origin = g.origin

\* f is the open frame with m in its account.
Absorbs(f, entropy, m) == f = absorb_block_output(frame, entropy, m)

\* The open frame with a block's output in its account (absorb_block_output).
LEMMA AbsorbedAs ==
  ASSUME OpenFrame(frame), NEW entropy, NEW m, NEW f, Absorbs(f, entropy, m)
  PROVE  /\ f.open = TRUE /\ OneFrameOf(f, frame) /\ f.entropy = entropy
         /\ f.frame_output_size = frame.frame_output_size + Len(m)
         /\ Hashes(f, m) /\ IsFrame(f)
<1>1. PICK h, w, s, c, x, y, g :
        frame = [open |-> TRUE, header |-> h, window_size |-> w, frame_start |-> s,
                 frame_output_size |-> c, hashed |-> x, entropy |-> y, origin |-> g]
  BY DEF OpenFrame
<1>2. PICK n, z : n = c + Len(m) /\ z = IF h.checksum THEN x \o m ELSE x
  OBVIOUS
<1>3. f = [frame EXCEPT !.frame_output_size = n, !.hashed = z, !.entropy = entropy]
  BY <1>1, <1>2 DEF Absorbs, absorb_block_output
<1>4. f = [open |-> TRUE, header |-> h, window_size |-> w, frame_start |-> s,
           frame_output_size |-> n, hashed |-> z, entropy |-> entropy, origin |-> g]
  BY <1>1, <1>3
<1>5. IsFrame(f)
  BY <1>4 DEF IsFrame
<1>6. f.open = TRUE /\ f.header = h /\ f.entropy = entropy /\ f.origin = g /\ f.hashed = z
      /\ f.frame_output_size = n
  BY <1>4
<1>7. frame.header = h /\ frame.origin = g /\ frame.hashed = x /\ frame.frame_output_size = c
  BY <1>1
<1>8. h.checksum => z = x \o m
  BY <1>2
<1>9. f.open = TRUE /\ OneFrameOf(f, frame) /\ f.entropy = entropy
  BY <1>6, <1>7 DEF OneFrameOf
<1>10. f.frame_output_size = frame.frame_output_size + Len(m)
  BY <1>2, <1>6, <1>7
<1>11. Hashes(f, m)
  BY <1>6, <1>7, <1>8 DEF Hashes
<1> QED BY <1>5, <1>9, <1>10, <1>11

\* What is hashed of f is what the one-shot decoder has of it.
HashedAs(f, st) ==
  f.header.checksum => f.hashed = SubSeq(st.out, st.frame_start + 1, Len(st.out))

\* Both accounts grow by what a block wrote.
LEMMA AccountsGrow ==
  ASSUME NEW st, OpenAlike(st), OpenFrame(frame), NEW w, w = st.out, Listed(w), st.frame_start <= Len(w),
         NEW m, Listed(m), NEW e, e.out = w \o m, NEW entropy, NEW f,
         Absorbs(f, entropy, m), NEW next, next = Decoded(st, e)
  PROVE  SameFrame(f, next) /\ HashedAs(f, next)
<1>1. /\ st.header = frame.header /\ st.frame_start \in Nat
      /\ frame.frame_output_size = Len(w) - st.frame_start
      /\ frame.header.checksum => frame.hashed = SubSeq(w, st.frame_start + 1, Len(w))
  BY DEF OpenAlike
<1>2. /\ f.header = frame.header /\ f.frame_output_size = frame.frame_output_size + Len(m)
      /\ f.header.checksum => f.hashed = frame.hashed \o m
  <2>1. OneFrameOf(f, frame)
    BY AbsorbedAs
  <2>2. f.frame_output_size = frame.frame_output_size + Len(m)
    BY AbsorbedAs
  <2>3. Hashes(f, m)
    BY AbsorbedAs
  <2> QED BY <2>1, <2>2, <2>3 DEF OneFrameOf, Hashes
<1>3. next.out = e.out /\ next.header = st.header /\ next.frame_start = st.frame_start
  BY DecodedIs
<1>4. Len(w \o m) = Len(w) + Len(m) /\ Len(w) \in Nat /\ Len(m) \in Nat
  BY ListsJoin
<1>5. PICK a \in Nat, b \in Nat, s \in Nat : a = Len(w) /\ b = Len(m) /\ s = st.frame_start
  BY <1>1, <1>4
<1>6. (a - s) + b = (a + b) - s
  OBVIOUS
<1>7. SameFrame(f, next)
  BY <1>1, <1>2, <1>3, <1>4, <1>5, <1>6 DEF SameFrame
<1>8. SubSeq(w \o m, s + 1, Len(w \o m)) = SubSeq(w, s + 1, Len(w)) \o m
  <2>1. s <= Len(w)
    BY <1>5
  <2> QED BY <2>1, RestGrows
<1> QED BY <1>1, <1>2, <1>3, <1>5, <1>7, <1>8 DEF HashedAs

\* A block that decodes in the stream decodes in the one-shot decoder, to the same bytes,
\* and they close the frame with the same verdict or both keep it open.
LEMMA BlockAlikeStep ==
  ASSUME StreamInv, PosInv, CapInv, KeptInv, FirstInv, Window!IInv, ~failed,
         NEW k \in 0..Len(wire), At(k), process_block_payload, NEW j, j = PayloadEnd(wire, k),
         NEW n \in pushed..Size(wire), NEW st, InStep(st, k, n),
         NEW next, next = Step(options, st, wire[k + 1], n - EndOf(wire, k))
  PROVE  /\ next.out = StreamOutput'
         /\ IF failed' THEN next.result # "Ok" /\ result' = next.result ELSE InStep(next, j, n)'
<1>1. PICK u, d, m, f :
        /\ u = state.header /\ d = decode_block(u)
        /\ m = SubSeq(d.out, Len(output) + 1, Len(d.out))
        /\ f = absorb_block_output(frame, d.entropy, m)
  OBVIOUS
<1>2. /\ state.tag = "BlockPayload" /\ ~Stalled /\ frame.open /\ d.result = "Ok"
      /\ output' = d.out /\ UNCHANGED <<output_pos, delivered>>
      /\ \/ /\ ~u.last_block \/ f.header.checksum
            /\ frame' = f
            /\ Progress(payload_size(u))
            /\ UNCHANGED decoded_a_frame
         \/ /\ u.last_block /\ ~f.header.checksum
            /\ finish_frame(f)
            /\ IF ContentMismatch(f)
               THEN Fails("ContentSizeMismatch", payload_size(u))
               ELSE Progress(payload_size(u))
  BY <1>1 DEF process_block_payload
<1>3. UNCHANGED <<options, wire, stream_start>>
  BY <1>2 DEF Progress, Fails, callerVars
<1>4. OpenFrame(frame) /\ Listed(output) /\ Listed(StreamOutput)
  BY <1>2, StreamListed DEF StreamInv, FrameInv, BufferInv, CapInv
<1>5. PICK left, e, x :
        /\ left = n - EndOf(wire, j) /\ x = n - EndOf(wire, k)
        /\ e = DecodeBlock(u, RefEnv(st), options.dictionary, RefLimit(options), st.out, st.entropy)
  OBVIOUS
<1>6. /\ IF Oversized(u, st.header) THEN next = [st EXCEPT !.result = "Corruption"]
         ELSE next = AfterBlock(options, st, u, left, e)
      /\ EndOf(wire, j) \in Nat /\ EndOf(wire, j) # 0 /\ EndOf(wire, j) <= n /\ n \in Nat
      /\ IsRef(st) /\ st.out = StreamOutput /\ OpenAlike(st) /\ ~st.between
  <2>1. u = state.header /\ state.tag = "BlockPayload" /\ ~Stalled
    BY <1>1, <1>2
  <2>2. left = n - EndOf(wire, j)
    BY <1>5
  <2>3. e = DecodeBlock(u, RefEnv(st), options.dictionary, RefLimit(options), st.out, st.entropy)
    BY <1>5
  <2>4. next = Step(options, st, wire[k + 1], n - EndOf(wire, k))
    OBVIOUS
  <2> QED BY <2>1, <2>2, <2>3, <2>4, BlockTurn
<1>7. SameOutcome(Comparable, output, StreamOutput, d, e)
  BY <1>1, <1>2, <1>5, <1>6, BlockTogether
<1>8. Grown(output, StreamOutput, d.out, e.out) /\ e.result = "Ok" /\ d.entropy = e.entropy
  BY <1>2, <1>7 DEF SameOutcome
<1>9. StreamOutput' = e.out
  BY <1>1, <1>2, <1>3, <1>8, StreamWrites
<1>10. Listed(m) /\ e.out = StreamOutput \o m
  <2>1. PICK p : Listed(p) /\ d.out = output \o p /\ e.out = StreamOutput \o p
    BY <1>8 DEF Grown
  <2>2. PICK b : b = output
    OBVIOUS
  <2>3. Listed(b) /\ Listed(p)
    BY <1>4, <2>1, <2>2
  <2>4. SubSeq(b \o p, Len(b) + 1, Len(b) + Len(p)) = p
    BY <2>3, JoinRest
  <2>5. Len(b \o p) = Len(b) + Len(p)
    BY <2>3, ListsJoin
  <2>6. m = p
    BY <1>1, <2>1, <2>2, <2>4, <2>5
  <2> QED BY <2>1, <2>6
<1>11. ~Oversized(u, st.header)
  <2>1. SUFFICES ASSUME Oversized(u, st.header) PROVE FALSE
    OBVIOUS
  <2>2. Oversized(u, frame.header)
    BY <1>6, <2>1 DEF OpenAlike
  <2> QED BY <1>1, <1>2, <2>2, OversizedFails
<1>12. PICK y : y = Decoded(st, e)
  OBVIOUS
<1>13. next = IF u.last_block /\ ~st.header.checksum THEN Close(options, y, left) ELSE y
  BY <1>6, <1>8, <1>11, <1>12, BlockLeaves
<1>14. /\ y.out = e.out /\ y.result = "Ok" /\ y.between = FALSE /\ y.header = st.header
       /\ y.frame_start = st.frame_start /\ y.entropy = e.entropy /\ IsRef(y)
  <2>1. /\ y.out = e.out /\ y.result = e.result /\ y.between = st.between /\ y.header = st.header
        /\ y.frame_start = st.frame_start /\ y.entropy = e.entropy /\ IsRef(y)
    BY <1>12, DecodedIs
  <2>2. st.between = FALSE
    BY <1>2, <1>6 DEF InStep
  <2> QED BY <1>8, <2>1, <2>2
<1>15. st.header = frame.header
  BY <1>6 DEF OpenAlike
<1>16. SameFrame(f, y) /\ HashedAs(f, y)
  <2>1. PICK w : w = StreamOutput
    OBVIOUS
  <2>2. w = st.out /\ Listed(w) /\ e.out = w \o m
    BY <1>4, <1>6, <1>10, <2>1
  <2>3. st.frame_start <= Len(w)
    BY <1>2, <1>6, <2>1, HistoryIs
  <2>4. PICK entropy : entropy = d.entropy
    OBVIOUS
  <2>5. Absorbs(f, entropy, m)
    BY <1>1, <2>4 DEF Absorbs
  <2> QED BY <1>4, <1>6, <1>10, <1>12, <2>2, <2>3, <2>5, AccountsGrow
<1>17. PICK entropy : entropy = d.entropy
  OBVIOUS
<1>18. Absorbs(f, entropy, m)
  BY <1>1, <1>17 DEF Absorbs
<1>19. /\ f.open = TRUE /\ f.header = frame.header /\ f.entropy = d.entropy
       /\ f.origin = frame.origin
       /\ IsFrame(f)
  <2>1. f.open = TRUE /\ OneFrameOf(f, frame) /\ f.entropy = entropy /\ IsFrame(f)
    BY <1>4, <1>18, AbsorbedAs
  <2> QED BY <1>17, <2>1 DEF OneFrameOf
<1>20. CASE /\ ~u.last_block \/ f.header.checksum
            /\ frame' = f
            /\ Progress(payload_size(u))
  <2>1. UNCHANGED failed
    BY <1>20 DEF Progress
  <2>2. next = y
    BY <1>13, <1>15, <1>19, <1>20
  <2>3. y.frame_start \in Nat /\ y.frame_start + stream_start = frame.origin
    BY <1>6, <1>14 DEF OpenAlike
  <2>4. OpenAlike(y)'
    BY <1>3, <1>8, <1>14, <1>15, <1>16, <1>19, <1>20, <2>3 DEF OpenAlike, SameFrame, HashedAs
  <2>5. InStep(y, j, n)'
    BY <1>9, <1>14, <1>19, <1>20, <2>4 DEF InStep
  <2> QED BY <1>9, <1>14, <2>1, <2>2, <2>5
<1>21. CASE /\ u.last_block /\ ~f.header.checksum
            /\ finish_frame(f)
            /\ IF ContentMismatch(f)
               THEN Fails("ContentSizeMismatch", payload_size(u))
               ELSE Progress(payload_size(u))
  <2>1. next = Close(options, y, left)
    BY <1>13, <1>15, <1>19, <1>21
  <2>2. next.out = y.out /\ next.result = Closed(f, left)
    BY <1>14, <1>16, <2>1, CloseAlike
  <2>3. frame' = [f EXCEPT !.open = FALSE]
        /\ decoded_a_frame' = (decoded_a_frame \/ ~ContentMismatch(f))
    BY <1>21 DEF finish_frame
  <2>4. CASE ContentMismatch(f)
    <3>1. next.result = "ContentSizeMismatch"
      BY <2>2, <2>4 DEF Closed
    <3>2. failed' = TRUE /\ result' = "ContentSizeMismatch"
      BY <1>21, <2>4 DEF Fails
    <3> QED BY <1>9, <1>14, <2>2, <3>1, <3>2
  <2>5. CASE ~ContentMismatch(f)
    <3>1. UNCHANGED failed
      BY <1>21, <2>5 DEF Progress
    <3>2. frame'.open = FALSE /\ decoded_a_frame' = TRUE
      BY <1>19, <2>3, <2>5 DEF IsFrame
    <3>3. next = Close(options, y, n - EndOf(wire, j))
      BY <1>5, <2>1
    <3>4. y.out = StreamOutput'
      BY <1>9, <1>14
    <3>5. InStep(next, j, n)'
      BY <1>3, <1>6, <1>14, <1>16, <2>5, <3>2, <3>3, <3>4, ClosedInStep
    <3> QED BY <2>2, <3>1, <3>4, <3>5
  <2> QED BY <2>4, <2>5
<1> QED BY <1>2, <1>20, <1>21

-----------------------------------------------------------------------------
\* Where the stream waits for input, the one-shot decoder ends.

\* A run that a turn brings to an error ends there.
LEMMA RunEnds ==
  ASSUME InputInv, NEW k \in 0..Len(wire), k + 1 \in 1..Len(wire),
         NEW st, st = RunOf(options, wire, pushed)[k],
         NEW next, next = Step(options, st, wire[k + 1], pushed - EndOf(wire, k)), next.result # "Ok"
  PROVE  Reference.out = next.out /\ Reference.result = next.result
<1>1. PICK f, n : f = RunOf(options, wire, n) /\ n = pushed
  OBVIOUS
<1>2. f[k + 1] = Step(options, f[k], wire[k + 1], n - EndOf(wire, k))
  BY <1>1, NextTurn
<1>3. next = RunOf(options, wire, pushed)[k + 1]
  BY <1>1, <1>2
<1>4. k + 1 \in 0..Len(wire)
  BY WireIs
<1> QED BY <1>3, <1>4, ReferenceStays

\* A turn that only gives the verdict e.
Judged(st, next, e) == next.out = st.out /\ next.result = e

\* So it does where it sets the result.
LEMMA ResultJudged ==
  ASSUME NEW st, IsRef(st), NEW e, NEW next, next = [st EXCEPT !.result = e]
  PROVE  Judged(st, next, e)
<1>1. next = Ref(st.out, e, st.between, st.header, st.frame_start, st.entropy)
  BY ResultSet
<1> QED BY <1>1 DEF Ref, Judged

\* Where the next turn does, the run ends.
LEMMA TurnEnds ==
  ASSUME InputInv, NEW k \in 0..Len(wire), k + 1 \in 1..Len(wire),
         NEW st, st = RunOf(options, wire, pushed)[k], NEW e, e # "Ok",
         NEW next, next = Step(options, st, wire[k + 1], pushed - EndOf(wire, k)), Judged(st, next, e)
  PROVE  Reference.out = st.out /\ Reference.result = e
<1>1. next.result # "Ok" /\ next.out = st.out /\ next.result = e
  BY DEF Judged
<1> QED BY <1>1, RunEnds

\* What a header that opens no frame is judged.
HeaderVerdict(o, u, n) ==
  IF parse_frame_header(u, n) # "skippable" THEN parse_frame_header(u, n)
  ELSE IF o.single_frame THEN "TrailingInput"
  ELSE IF n < u.size + u.remaining THEN "UnexpectedEof" ELSE "Ok"

\* The next header's turn.
LEMMA HeaderJudged ==
  ASSUME NEW o, NEW st, IsRef(st), st.result = "Ok", st.between, NEW u, u.kind # "payload",
         NEW n \in Nat, n # 0, parse_frame_header(u, n) # "frame",
         NEW next, next = Step(o, st, u, n)
  PROVE  Judged(st, next, HeaderVerdict(o, u, n))
<1>1. ~(n <= 0)
  OBVIOUS
<1>2. next = NextFrame(o, st, u, n)
  BY <1>1 DEF Step
<1>3. PICK e : e = HeaderVerdict(o, u, n)
  OBVIOUS
<1>4. next = [st EXCEPT !.result = e]
  BY <1>2, <1>3 DEF NextFrame, HeaderVerdict
<1> QED BY <1>3, <1>4, ResultJudged

\* The input ends between the units of an open frame, or inside one: the decode is truncated.
LEMMA Truncated ==
  ASSUME InputInv, NEW k \in 0..Len(wire), NEW st, st = RunOf(options, wire, pushed)[k],
         IsRef(st), st.result = "Ok", ~st.between,
         k + 1 \in 1..Len(wire) =>
           pushed - EndOf(wire, k) < wire[k + 1].size /\ wire[k + 1].kind # "payload"
  PROVE  Reference.out = st.out /\ Reference.result = "UnexpectedEof"
<1>1. CASE k + 1 \in 1..Len(wire)
  <2>1. PICK next : next = Step(options, st, wire[k + 1], pushed - EndOf(wire, k))
    OBVIOUS
  <2>2. next = [st EXCEPT !.result = "UnexpectedEof"]
    BY <1>1, <2>1 DEF Step
  <2>3. Judged(st, next, "UnexpectedEof")
    BY <2>2, ResultJudged
  <2> QED BY <1>1, <2>1, <2>3, TurnEnds
<1>2. CASE k + 1 \notin 1..Len(wire)
  <2>1. k = Len(wire)
    BY <1>2, WireIs
  <2>2. Reference = Outcome(st)
    BY <2>1, ReferenceIs
  <2> QED BY <2>2 DEF Outcome
<1> QED BY <1>1, <1>2

\* Where the stream waits for the rest of a unit of an open frame, the decode is truncated.
LEMMA FrameStall ==
  ASSUME StreamInv, PosInv, NEW k \in 0..Len(wire), At(k), Stalled,
         state.tag \in {"BlockHeader", "FrameChecksum"},
         state.tag = "FrameChecksum" => frame.header.checksum,
         NEW st, st = RunOf(options, wire, pushed)[k], InStep(st, k, pushed)
  PROVE  Reference.out = StreamOutput /\ Reference.result = "UnexpectedEof"
<1>1. InputInv
  BY DEF StreamInv
<1>2. /\ frame.open /\ stream_input_pos = EndOf(wire, k) /\ PlacesOf(wire)[k].payload = 0
      /\ PlacesOf(wire)[k].open
      /\ PlacesOf(wire)[k].last <=> state.tag = "FrameChecksum"
  BY DEF At, Stands
<1>3. IsRef(st) /\ st.out = StreamOutput /\ ~st.between /\ st.result = "Ok"
  BY <1>2 DEF InStep, OpenAlike
<1>4. stream_input_pos \in Nat /\ Available \in Nat /\ stream_input_pos + Available = pushed
  BY <1>1, PosIs
<1>5. Available < IF state.tag = "BlockHeader" THEN 3 ELSE 4
  BY DEF Stalled, BLOCK_HEADER_SIZE, CHECKSUM_SIZE
<1>6. ASSUME k + 1 \in 1..Len(wire)
      PROVE  pushed - EndOf(wire, k) < wire[k + 1].size /\ wire[k + 1].kind # "payload"
  <2>1. Belongs(PlacesOf(wire)[k], wire[k + 1]) /\ IsUnit(wire[k + 1])
    BY <1>1, <1>6, NextUnit
  <2>2. wire[k + 1].kind = IF state.tag = "FrameChecksum" THEN "checksum" ELSE "block"
    BY <1>2, <2>1 DEF Belongs
  <2>3. wire[k + 1].size = IF state.tag = "FrameChecksum" THEN 4 ELSE 3
    BY <2>1, <2>2 DEF IsUnit, BLOCK_HEADER_SIZE, CHECKSUM_SIZE
  <2>4. pushed - EndOf(wire, k) = Available
    BY <1>2, <1>4
  <2> QED BY <1>5, <2>2, <2>3, <2>4
<1>7. Reference.out = st.out /\ Reference.result = "UnexpectedEof"
  BY <1>1, <1>3, <1>6, Truncated
<1> QED BY <1>3, <1>7

\* Where it waits for the rest of a payload the block is refused, or the decode truncated.
LEMMA PayloadStall ==
  ASSUME StreamInv, PosInv, NEW k \in 0..Len(wire), At(k), Stalled, state.tag = "BlockPayload",
         NEW st, st = RunOf(options, wire, pushed)[k], InStep(st, k, pushed)
  PROVE  Reference.out = StreamOutput /\ Reference.result # "Ok"
<1>1. InputInv
  BY DEF StreamInv
<1>2. PICK u : u = wire[k + 1]
  OBVIOUS
<1>3. /\ frame.open /\ k + 1 \in 1..Len(wire) /\ state.header = u
      /\ stream_input_pos = EndOf(wire, k + 1)
  BY <1>2 DEF At, Stands
<1>4. IsRef(st) /\ st.out = StreamOutput /\ ~st.between /\ st.result = "Ok"
  BY <1>3 DEF InStep, OpenAlike
<1>5. u.kind = "block"
  BY <1>3 DEF StreamInv, StateInv
<1>6. stream_input_pos \in Nat /\ Available \in Nat /\ stream_input_pos + Available = pushed
      /\ pushed \in Nat
  BY <1>1, PosIs DEF InputInv
<1>7. Available < payload_size(u)
  BY <1>3 DEF Stalled
<1>8. /\ EndOf(wire, k + 1) \in Nat
      /\ (pushed - EndOf(wire, k)) - u.size = pushed - EndOf(wire, k + 1)
      /\ EndOf(wire, k + 1) <= pushed <=> ~(pushed - EndOf(wire, k) < u.size)
  BY <1>1, <1>2, <1>3, <1>6, LeftIs
<1>9. ~(pushed - EndOf(wire, k) < u.size) /\ (pushed - EndOf(wire, k)) - u.size = Available
  <2>1. PICK p \in Nat, a \in Nat : p = EndOf(wire, k + 1) /\ a = Available
    BY <1>6, <1>8
  <2>2. p + a = pushed /\ p <= pushed /\ pushed - p = a
    BY <1>3, <1>6, <2>1
  <2> QED BY <1>8, <2>1, <2>2
<1>10. Step(options, st, u, pushed - EndOf(wire, k)) = DecodeOne(options, st, u, Available)
  BY <1>4, <1>5, <1>9 DEF Step
<1>11. \/ DecodeOne(options, st, u, Available) = [st EXCEPT !.result = "Corruption"]
       \/ DecodeOne(options, st, u, Available) = [st EXCEPT !.result = "UnexpectedEof"]
  BY <1>7 DEF DecodeOne
<1>12. PICK next : next = Step(options, st, wire[k + 1], pushed - EndOf(wire, k))
  OBVIOUS
<1>13. next = DecodeOne(options, st, u, Available)
  BY <1>2, <1>10, <1>12
<1>14. Judged(st, next, "Corruption") \/ Judged(st, next, "UnexpectedEof")
  BY <1>4, <1>11, <1>13, ResultJudged
<1>15. PICK e : e # "Ok" /\ Judged(st, next, e)
  BY <1>14
<1>16. e # "Ok" /\ k + 1 \in 1..Len(wire) /\ Judged(st, next, e)
  BY <1>3, <1>15
<1>17. Reference.out = st.out /\ Reference.result # "Ok"
  <2>1. Reference.out = st.out /\ Reference.result = e
    BY <1>1, <1>12, <1>16, TurnEnds
  <2> QED BY <1>16, <2>1
<1> QED BY <1>4, <1>12, <1>17

\* Between frames it waits for a header that is not all there, or for nothing.
LEMMA HeaderStall ==
  ASSUME StreamInv, PosInv, NEW k \in 0..Len(wire), At(k), Stalled, state.tag = "FrameHeader",
         NEW st, st = RunOf(options, wire, pushed)[k], InStep(st, k, pushed)
  PROVE  Reference.out = StreamOutput /\ (Reference.result = "Ok" <=> finish_status = "Ok")
<1>1. InputInv /\ input_pos \in Nat /\ Len(input) \in Nat
  BY DEF StreamInv, InputInv
<1>2. ~frame.open /\ stream_input_pos = EndOf(wire, k)
  BY DEF At, Stands
<1>3. /\ stream_input_pos \in Nat /\ Available \in Nat /\ stream_input_pos + Available = pushed
      /\ pushed \in Nat
  BY <1>1, PosIs DEF InputInv
<1>4. IsRef(st) /\ st.out = StreamOutput /\ st.between /\ st.result = ClosedResult(k, pushed)
  BY <1>2 DEF InStep
<1>5. received_input = (pushed # 0)
  BY DEF PosInv
<1>6. CASE Available = 0
  <2>1. pushed = EndOf(wire, k) /\ pushed <= EndOf(wire, k)
    BY <1>2, <1>3, <1>6
  <2>2. Reference.out = st.out /\ Reference.result = st.result
    BY <1>1, <1>4, <2>1, ReferenceStays
  <2>3. st.result = IF pushed = 0 THEN "UnexpectedEof" ELSE "Ok"
    BY <1>4, <2>1 DEF ClosedResult
  <2>4. input_pos = Len(input)
    BY <1>1, <1>6 DEF Available
  <2>5. finish_status = IF pushed = 0 THEN "UnexpectedEof" ELSE "Ok"
    BY <1>2, <1>5, <2>4 DEF finish_status
  <2> QED BY <1>4, <2>2, <2>3, <2>5
<1>7. CASE Available # 0
  <2>1. /\ ~(options.single_frame /\ decoded_a_frame)
        /\ parse_frame_header(Unit, Available) = "UnexpectedEof"
    BY <1>7 DEF Stalled
  <2>2. PICK left : left = pushed - EndOf(wire, k)
    OBVIOUS
  <2>3. pushed \in pushed..Size(wire)
    BY <1>1, <1>3, PushedIs DEF InputInv
  <2>4. /\ left \in Nat /\ left # 0 /\ st.result = "Ok" /\ left = Available
        /\ k + 1 \in 1..Len(wire) /\ Unit = wire[k + 1]
        /\ Unit.kind \in {"frame", "skippable", "junk"}
    BY <1>7, <2>1, <2>2, <2>3, HeaderDue
  <2>5. PICK u, next : u = Unit /\ next = Step(options, st, u, left)
    OBVIOUS
  <2>6. u.kind # "payload" /\ parse_frame_header(u, left) = "UnexpectedEof"
    BY <2>1, <2>4, <2>5
  <2>7. Judged(st, next, "UnexpectedEof")
    <3>1. PICK o : o = options
      OBVIOUS
    <3>2. next = Step(o, st, u, left) /\ parse_frame_header(u, left) # "frame"
      BY <2>5, <2>6, <3>1
    <3>3. IsRef(st) /\ st.result = "Ok" /\ st.between /\ u.kind # "payload"
      BY <1>4, <2>4, <2>6
    <3>4. left \in Nat /\ left # 0
      BY <2>4
    <3>5. Judged(st, next, HeaderVerdict(o, u, left))
      BY <3>2, <3>3, <3>4, HeaderJudged
    <3>6. HeaderVerdict(o, u, left) = "UnexpectedEof"
      BY <2>6 DEF HeaderVerdict
    <3> QED BY <3>5, <3>6
  <2>8. next = Step(options, st, wire[k + 1], pushed - EndOf(wire, k))
    BY <2>2, <2>4, <2>5
  <2>9. Reference.out = st.out /\ Reference.result = "UnexpectedEof"
    BY <1>1, <2>4, <2>7, <2>8, TurnEnds
  <2>10. finish_status = "UnexpectedEof"
    <3>1. input_pos # Len(input)
      BY <1>1, <1>7 DEF Available
    <3> QED BY <3>1 DEF finish_status
  <2> QED BY <1>4, <2>9, <2>10
<1> QED BY <1>6, <1>7

\* Where the stream stops for want of input, what it has produced is what the one-shot
\* decoder makes of that input, and finish would say of it what the one-shot decoder does.
LEMMA StallIs ==
  ASSUME StreamInv, PosInv, NEW k \in 0..Len(wire), At(k), Stalled,
         state.tag = "FrameChecksum" => frame.header.checksum,
         NEW st, st = RunOf(options, wire, pushed)[k], InStep(st, k, pushed)
  PROVE  Reference.out = StreamOutput /\ (Reference.result = "Ok" <=> finish_status = "Ok")
<1>1. state.tag # "Skippable"
  BY DEF Stalled
<1>2. CASE state.tag = "FrameHeader"
  BY <1>2, HeaderStall
<1>3. CASE state.tag # "FrameHeader"
  <2>1. finish_status = "UnexpectedEof"
    BY <1>3 DEF finish_status
  <2>2. Reference.out = StreamOutput /\ Reference.result # "Ok"
    <3>1. CASE state.tag = "BlockPayload"
      BY <3>1, PayloadStall
    <3>2. CASE state.tag \in {"BlockHeader", "FrameChecksum"}
      BY <3>2, FrameStall
    <3> QED BY <1>1, <1>3, <3>1, <3>2 DEF StreamInv, StateInv
  <2> QED BY <2>1, <2>2
<1> QED BY <1>2, <1>3

-----------------------------------------------------------------------------
\* What holds between the calls, and between the turns of one.

\* What a stream whose call failed has produced is what the one-shot decoder makes of the
\* same input, and that fails too, with the same error where a push reported it.  Leftovers
\* of an earlier stream may only make it stop sooner.
FailedAlike ==
  /\ Comparable => /\ StreamOutput = Reference.out /\ Reference.result # "Ok"
                   /\ ~finished_input => result = Reference.result
  /\ ~Comparable => IsPrefix(StreamOutput, Reference.out)

\* So is what a stream has produced between its calls, and one that is finished is whole.
RestAlike ==
  /\ StreamOutput = Reference.out
  /\ finished_input => Reference.result = "Ok" /\ finish_status = "Ok"

\* What holds between the calls, and of the calls.
AgreeInv ==
  /\ call \in {"idle", "push", "finish"}
  /\ call = "finish" => finished_input
  /\ call = "push" => ~finished_input
  /\ failed /\ call # "idle" => finished_input
  /\ failed => FailedAlike
  /\ ~failed /\ call = "idle" => RestAlike

\* The one-shot decoder is where the stream is, whatever more is pushed; a checksum is
\* waited for only where the frame has one.
InSync ==
  /\ \E k \in 0..Len(wire) : At(k) /\ StepsWith(k)
  /\ state.tag = "FrameChecksum" => frame.header.checksum
SyncInv == ~failed => InSync

\* The one-shot decoder is given what has been pushed.
LEMMA SameReference ==
  ASSUME UNCHANGED <<options, wire, pushed>> PROVE UNCHANGED Reference
BY DEF Reference

\* A list begins itself.
LEMMA BeginsItself == ASSUME NEW a, Listed(a) PROVE IsPrefix(a, a)
BY ExtendsItself, ExtendsListed

\* A call that fails as the one-shot decoder does.
LEMMA FailsSettled ==
  ASSUME UNCHANGED callerVars, Listed(StreamOutput'), Reference.out = StreamOutput',
         Reference.result # "Ok", finished_input' \/ result' = Reference.result
  PROVE  FailedAlike'
<1>1. UNCHANGED Reference
  BY SameReference DEF callerVars
<1>2. IsPrefix(StreamOutput', Reference.out)
  BY BeginsItself
<1> QED BY <1>1, <1>2 DEF FailedAlike

\* A call that has failed is over.
LEMMA AgreeFails ==
  ASSUME FailedAlike', call' = "idle", failed' PROVE AgreeInv'
BY DEF AgreeInv

\* A call that goes on.
LEMMA AgreeGoesOn ==
  ASSUME AgreeInv, ~failed, call # "idle", UNCHANGED <<call, failed, finished_input>>
  PROVE  AgreeInv'
BY DEF AgreeInv

\* The state the one-shot decoder is in, given what has been pushed.
LEMMA NowInStep ==
  ASSUME InputInv, NEW k, StepsWith(k), NEW st, st = RunOf(options, wire, pushed)[k]
  PROVE  InStep(st, k, pushed) /\ pushed \in pushed..Size(wire)
<1>1. pushed \in pushed..Size(wire)
  BY PushedIs DEF InputInv
<1> QED BY <1>1 DEF StepsWith

\* A header that is refused is refused by both.
LEMMA HeaderErrorAgrees ==
  ASSUME StreamInv, PosInv, CapInv, ~failed, NEW k \in 0..Len(wire), At(k), StepsWith(k),
         process_frame_header_error
  PROVE  AgreeInv' /\ SyncInv'
<1>1. InputInv /\ BufferInv
  BY DEF StreamInv
<1>2. /\ state.tag = "FrameHeader" /\ ~Stalled /\ HeaderError # "Ok" /\ Fails(HeaderError, 0)
      /\ UNCHANGED outputVars
  BY DEF process_frame_header_error
<1>3. Available # 0
  BY <1>2 DEF Stalled
<1>4. PICK st : st = RunOf(options, wire, pushed)[k]
  OBVIOUS
<1>5. InStep(st, k, pushed) /\ pushed \in pushed..Size(wire)
  BY <1>1, <1>4, NowInStep
<1>6. PICK left : left = pushed - EndOf(wire, k)
  OBVIOUS
<1>7. /\ left \in Nat /\ left # 0 /\ st.between /\ IsRef(st) /\ left = Available
      /\ ~(options.single_frame /\ decoded_a_frame) => st.result = "Ok"
      /\ options.single_frame /\ decoded_a_frame => st.result = "TrailingInput"
      /\ k + 1 \in 1..Len(wire) /\ Unit = wire[k + 1]
      /\ Unit.kind \in {"frame", "skippable", "junk"}
  BY <1>2, <1>3, <1>5, <1>6, HeaderDue
<1>8. UNCHANGED callerVars /\ result' = HeaderError /\ failed' = TRUE /\ call' = "idle"
  BY <1>2 DEF Fails
<1>9. UNCHANGED StreamOutput
  <2>1. UNCHANGED stream_start
    BY <1>8 DEF callerVars
  <2> QED BY <1>2, <2>1, QuietOutput
<1>10. st.out = StreamOutput
  BY <1>5 DEF InStep
<1>11. Reference.out = st.out /\ Reference.result = HeaderError
  <2>1. CASE options.single_frame /\ decoded_a_frame
    <3>1. HeaderError = "TrailingInput" /\ st.result = "TrailingInput"
      BY <1>7, <2>1 DEF HeaderError
    <3>2. st.result # "Ok"
      BY <3>1
    <3> QED BY <1>1, <1>4, <3>1, <3>2, ReferenceStays
  <2>2. CASE ~(options.single_frame /\ decoded_a_frame)
    <3>1. PICK next : next = Step(options, st, wire[k + 1], left)
      OBVIOUS
    <3>2. PICK e : e = HeaderError
      OBVIOUS
    <3>3. /\ parse_frame_header(Unit, left) \in {"BadMagic", "skippable"}
          /\ e = HeaderVerdict(options, Unit, left)
      BY <1>2, <1>7, <2>2, <3>2 DEF HeaderError, HeaderVerdict
    <3>4. PICK u : u = wire[k + 1] /\ u.kind # "payload"
      BY <1>7
    <3>5. st.result = "Ok" /\ parse_frame_header(u, left) # "frame" /\ next = Step(options, st, u, left)
      BY <1>7, <2>2, <3>1, <3>3, <3>4
    <3>6. Judged(st, next, HeaderVerdict(options, u, left))
      BY <1>7, <3>4, <3>5, HeaderJudged
    <3>7. Judged(st, next, e)
      BY <1>7, <3>3, <3>4, <3>6
    <3> QED BY <1>1, <1>2, <1>4, <1>6, <1>7, <3>1, <3>2, <3>7, TurnEnds
  <2> QED BY <2>1, <2>2
<1>12. Listed(StreamOutput')
  BY <1>1, <1>9, StreamListed DEF CapInv
<1>13. FailedAlike'
  BY <1>2, <1>8, <1>9, <1>10, <1>11, <1>12, FailsSettled
<1> QED BY <1>8, <1>13, AgreeFails DEF SyncInv

\* What the stream has produced is a list.
LEMMA OutputListed == BufferInv /\ CapInv => Listed(StreamOutput)
BY StreamListed DEF CapInv
LEMMA OutputListedNext == (BufferInv /\ CapInv => Listed(StreamOutput))'
BY OutputListed, PTL

\* A turn that fails in both, to the same output and with the same error.
LEMMA TurnFails ==
  ASSUME InputInv, BufferInv', CapInv', NEW k \in 0..Len(wire), k + 1 \in 1..Len(wire),
         NEW st, st = RunOf(options, wire, pushed)[k],
         NEW next, next = Step(options, st, wire[k + 1], pushed - EndOf(wire, k)),
         next.result # "Ok", next.out = StreamOutput', result' = next.result,
         UNCHANGED callerVars, call' = "idle", failed'
  PROVE  AgreeInv' /\ SyncInv'
<1>1. Reference.out = next.out /\ Reference.result = next.result
  BY RunEnds
<1>2. Listed(StreamOutput')
  BY OutputListedNext
<1>3. FailedAlike'
  BY <1>1, <1>2, FailsSettled
<1> QED BY <1>3, AgreeFails DEF SyncInv

\* A turn that leaves the one-shot decoder in step, whatever more is pushed.
LEMMA TurnSteps ==
  ASSUME NEW j, UNCHANGED <<options, wire, pushed>>,
         \A n \in pushed..Size(wire) : \A st : st = RunOf(options, wire, n)[j] => InStep(st, j, n)'
  PROVE  StepsWith(j)'
<1>1. SUFFICES ASSUME NEW n \in pushed..Size(wire)
               PROVE  InStep(RunOf(options, wire, n)[j], j, n)'
  BY DEF StepsWith
<1>2. PICK st : st = RunOf(options, wire, n)[j]
  OBVIOUS
<1>3. InStep(st, j, n)'
  BY <1>2
<1>4. RunOf(options, wire, n)'[j] = st
  BY <1>2
<1> QED BY <1>3, <1>4

\* It is in step still.
LEMMA TurnKeeps ==
  ASSUME NEW j \in 0..Len(wire), At(j)', StepsWith(j)', UNCHANGED wire,
         state'.tag = "FrameChecksum" => frame'.header.checksum
  PROVE  SyncInv'
BY DEF SyncInv, InSync

\* A skippable frame's header, which the one-shot decoder reads with the whole frame.
LEMMA SkippableHeaderAgrees ==
  ASSUME StreamInv, PosInv, AgreeInv, ~failed, NEW k \in 0..Len(wire), At(k), StepsWith(k),
         process_skippable_header
  PROVE  AgreeInv' /\ SyncInv'
<1>1. /\ state' = SkippableState(Unit.remaining) /\ Progress(Unit.size) /\ call # "idle"
      /\ UNCHANGED <<outputVars, frame, decoded_a_frame>>
  BY DEF process_skippable_header
<1>2. At(k)' /\ UNCHANGED <<options, wire, pushed>>
  BY SkippableHeaderAt
<1>3. UNCHANGED <<callerVars, flags, call, failed>>
  BY <1>1 DEF Progress
<1>4. UNCHANGED <<stream_start, finished_input>>
  BY <1>3 DEF callerVars, flags
<1>5. UNCHANGED StreamOutput
  BY <1>1, <1>4, QuietOutput
<1>6. pushed \in Int /\ pushed' \in Int /\ pushed <= pushed' /\ Size(wire) \in Int
  BY <1>2, PushedIs DEF StreamInv
<1>7. StepsWith(k)'
  BY <1>1, <1>2, <1>4, <1>5, <1>6, StepsStay
<1>8. state'.tag # "FrameChecksum"
  BY <1>1 DEF SkippableState
<1>9. SyncInv'
  BY <1>2, <1>7, <1>8, TurnKeeps
<1> QED BY <1>1, <1>3, <1>4, <1>9, AgreeGoesOn

\* A frame's header opens the frame in both, or both reject it.
LEMMA FrameHeaderAgrees ==
  ASSUME StreamInv, BufferInv', PosInv, CapInv, CapInv', KeptInv, AgreeInv, ~failed,
         NEW k \in 0..Len(wire), At(k), StepsWith(k), process_zstandard_header
  PROVE  AgreeInv' /\ SyncInv'
<1>1. InputInv
  BY DEF StreamInv
<1>2. /\ UNCHANGED <<options, wire, pushed, decoded_a_frame>>
      /\ k + 1 \in 1..Len(wire) /\ (failed' \/ At(k + 1)')
  BY ZstandardHeaderAt
<1>3. PICK m : m \in {"goes", "fails"} /\
        \/ m = "goes" /\ Progress(Unit.size) /\ state' = BlockHeaderState
        \/ m = "fails" /\ \E e : Fails(e, Unit.size)
  BY DEF process_zstandard_header
<1>4. UNCHANGED callerVars /\ UNCHANGED flags
  BY <1>3 DEF Progress, Fails
<1>5. UNCHANGED StreamOutput
  <2>1. UNCHANGED Produced
    BY HeaderBehind
  <2> QED BY <1>4, <2>1 DEF StreamOutput, callerVars
<1>6. call # "idle"
  BY DEF process_zstandard_header
<1>7. CASE m = "goes"
  <2>1. UNCHANGED <<call, failed>> /\ state' = BlockHeaderState
    BY <1>3, <1>7 DEF Progress
  <2>2. ASSUME NEW n \in pushed..Size(wire), NEW next, next = RunOf(options, wire, n)[k + 1]
        PROVE  InStep(next, k + 1, n)'
    <3>1. PICK f, st : f = RunOf(options, wire, n) /\ st = f[k]
      OBVIOUS
    <3>2. InStep(st, k, n)
      BY <3>1 DEF StepsWith
    <3>3. next = Step(options, st, wire[k + 1], n - EndOf(wire, k))
      <4>1. f[k + 1] = Step(options, f[k], wire[k + 1], n - EndOf(wire, k))
        BY <1>1, <1>2, <3>1, NextTurn
      <4> QED BY <2>2, <3>1, <4>1
    <3> QED BY <1>5, <2>1, <3>2, <3>3, FrameHeaderAlike
  <2>3. k + 1 \in 0..Len(wire) /\ At(k + 1)'
    BY <1>2, <2>1
  <2>4. PICK j : j = k + 1
    OBVIOUS
  <2>5. StepsWith(j)'
    <3>1. \A n \in pushed..Size(wire) : \A st : st = RunOf(options, wire, n)[j] => InStep(st, j, n)'
      BY <2>2, <2>4
    <3> QED BY <1>2, <3>1, TurnSteps
  <2>6. SyncInv'
    <3>1. state'.tag # "FrameChecksum" /\ UNCHANGED wire
      BY <1>2, <2>1 DEF BlockHeaderState
    <3>2. j \in 0..Len(wire) /\ At(j)'
      BY <2>3, <2>4
    <3> QED BY <2>5, <3>1, <3>2, TurnKeeps
  <2>7. UNCHANGED finished_input
    BY <1>4 DEF flags
  <2> QED BY <1>6, <2>1, <2>6, <2>7, AgreeGoesOn
<1>8. CASE m = "fails"
  <2>1. failed' = TRUE /\ call' = "idle"
    BY <1>3, <1>8 DEF Fails
  <2>2. PICK st, next : /\ st = RunOf(options, wire, pushed)[k]
                        /\ next = Step(options, st, wire[k + 1], pushed - EndOf(wire, k))
    OBVIOUS
  <2>3. InStep(st, k, pushed) /\ pushed \in pushed..Size(wire)
    BY <1>1, <2>2, NowInStep
  <2>4. next.out = StreamOutput' /\ next.result # "Ok" /\ result' = next.result
    BY <1>5, <2>1, <2>2, <2>3, FrameHeaderAlike
  <2> QED BY <1>1, <1>2, <1>4, <2>1, <2>2, <2>4, TurnFails
<1> QED BY <1>3, <1>7, <1>8

\* A block's header leads to its payload, or is refused by both.
LEMMA BlockHeaderAgrees ==
  ASSUME StreamInv, BufferInv', PosInv, CapInv', AgreeInv, ~failed,
         NEW k \in 0..Len(wire), At(k), StepsWith(k), process_block_header
  PROVE  AgreeInv' /\ SyncInv'
<1>1. InputInv /\ frame.open /\ stream_input_pos = EndOf(wire, k) /\ call # "idle"
      /\ ~(Available < BLOCK_HEADER_SIZE) /\ UNCHANGED <<outputVars, frame, decoded_a_frame>>
  BY DEF StreamInv, process_block_header, At, Stands, Stalled
<1>2. /\ UNCHANGED <<options, wire, pushed>>
      /\ k + 1 \in 1..Len(wire) /\ Unit = wire[k + 1] /\ wire[k + 1].kind = "block"
      /\ \/ At(k)' /\ state' = BlockPayloadState(wire[k + 1])
            /\ wire[k + 1].block_type # "Reserved"
         \/ Fails("Corruption", 0) /\ wire[k + 1].block_type = "Reserved"
  BY BlockHeaderAt
<1>3. \/ Progress(BLOCK_HEADER_SIZE) /\ wire[k + 1].block_type # "Reserved"
      \/ Fails("Corruption", 0)
  BY <1>2 DEF process_block_header
<1>4. UNCHANGED <<stream_start, finished_input>> /\ UNCHANGED callerVars
  BY <1>3 DEF Progress, Fails, callerVars, flags
<1>5. UNCHANGED StreamOutput
  BY <1>1, <1>4, QuietOutput
<1>6. CASE wire[k + 1].block_type # "Reserved"
  <2>1. At(k)' /\ state' = BlockPayloadState(wire[k + 1])
    BY <1>2, <1>6
  <2>2. Progress(BLOCK_HEADER_SIZE)
    BY <1>2, <1>6 DEF process_block_header
  <2>3. pushed \in Int /\ pushed' \in Int /\ pushed <= pushed' /\ Size(wire) \in Int
    BY <1>1, <1>2, PushedIs
  <2>4. StepsWith(k)'
    BY <1>1, <1>2, <1>4, <1>5, <2>3, StepsStay
  <2>5. state'.tag # "FrameChecksum"
    BY <2>1 DEF BlockPayloadState
  <2>6. SyncInv'
    BY <1>2, <2>1, <2>4, <2>5, TurnKeeps
  <2>7. UNCHANGED <<call, failed>>
    BY <2>2 DEF Progress
  <2> QED BY <1>1, <1>4, <2>6, <2>7, AgreeGoesOn
<1>7. CASE wire[k + 1].block_type = "Reserved"
  <2>1. Fails("Corruption", 0)
    BY <1>3, <1>7
  <2>2. PICK u, left, st, next : /\ u = wire[k + 1] /\ left = pushed - EndOf(wire, k)
                                 /\ st = RunOf(options, wire, pushed)[k]
                                 /\ next = Step(options, st, u, left)
    OBVIOUS
  <2>3. InStep(st, k, pushed)
    BY <1>1, <2>2, NowInStep
  <2>4. IsRef(st) /\ st.out = StreamOutput /\ ~st.between /\ st.result = "Ok"
    BY <1>1, <2>3 DEF InStep, OpenAlike
  <2>5. u.kind = "block" /\ u.size = BLOCK_HEADER_SIZE /\ u.block_type = "Reserved"
    <3>1. IsUnit(u)
      BY <1>1, <1>2, <2>2, WireIs
    <3> QED BY <1>2, <1>7, <2>2, <3>1 DEF IsUnit
  <2>6. ~(left < u.size)
    <3>1. PICK a \in Nat, p \in Nat : a = stream_input_pos /\ p = Available /\ a + p = pushed
      BY <1>1, PosIs DEF StreamInv
    <3>2. left = p
      BY <1>1, <2>2, <3>1
    <3> QED BY <1>1, <2>5, <3>1, <3>2
  <2>7. next = DecodeOne(options, st, u, left - u.size)
    BY <2>2, <2>4, <2>5, <2>6 DEF Step
  <2>8. next = [st EXCEPT !.result = "Corruption"]
    BY <2>5, <2>7 DEF DecodeOne
  <2>9. Judged(st, next, "Corruption")
    BY <2>4, <2>8, ResultJudged
  <2>10. next.result # "Ok" /\ next.out = StreamOutput' /\ next.result = "Corruption"
    BY <1>5, <2>4, <2>9 DEF Judged
  <2>11. result' = "Corruption" /\ call' = "idle" /\ failed' = TRUE
    BY <2>1 DEF Fails
  <2> QED BY <1>1, <1>2, <1>4, <2>2, <2>10, <2>11, TurnFails
<1> QED BY <1>6, <1>7

\* A block that fails, fails in both; against leftovers of an earlier stream it may fail
\* sooner, with less written.
LEMMA BlockErrorAgrees ==
  ASSUME StreamInv, BufferInv', PosInv, CapInv, CapInv', KeptInv, FirstInv, Window!IInv, ~failed,
         NEW k \in 0..Len(wire), At(k), StepsWith(k), process_block_error
  PROVE  AgreeInv' /\ SyncInv'
<1>1. InputInv /\ state.tag = "BlockPayload"
  BY DEF StreamInv, process_block_error
<1>2. k + 1 \in 1..Len(wire)
  BY <1>1 DEF At, Stands
<1>3. PICK f, st, next : /\ f = RunOf(options, wire, pushed) /\ st = f[k]
                         /\ next = Step(options, st, wire[k + 1], pushed - EndOf(wire, k))
  OBVIOUS
<1>4. InStep(st, k, pushed) /\ pushed \in pushed..Size(wire)
  BY <1>1, <1>3, NowInStep
<1>5. /\ failed' /\ Extends(StreamOutput', next.out)
      /\ Comparable => next.out = StreamOutput' /\ result' = next.result /\ next.result # "Ok"
  BY <1>3, <1>4, BlockErrorAlike
<1>6. UNCHANGED callerVars /\ call' = "idle"
  BY DEF process_block_error, Fails
<1>7. CASE Comparable
  BY <1>1, <1>2, <1>3, <1>5, <1>6, <1>7, TurnFails
<1>8. CASE ~Comparable
  <2>1. ~Comparable'
    BY <1>6, <1>8 DEF Comparable, callerVars
  <2>2. f[k + 1] = next
    BY <1>1, <1>2, <1>3, NextTurn
  <2>3. PICK l : l = Len(wire) /\ l \in Nat /\ k + 1 \in 0..l /\ l \in (k + 1)..l
    BY <1>1, <1>2, WireIs
  <2>4. Extends(f[k + 1].out, f[l].out)
    BY <1>1, <1>3, <2>3, RunGrows DEF InputInv
  <2>5. Reference.out = f[l].out
    <3>1. Reference = Outcome(f[l])
      BY <1>1, <1>3, <2>3, ReferenceIs
    <3> QED BY <3>1 DEF Outcome
  <2>6. Listed(StreamOutput')
    BY OutputListedNext
  <2>7. PICK a, b, c : a = StreamOutput' /\ b = next.out /\ c = Reference.out
    OBVIOUS
  <2>8. Listed(a) /\ Extends(a, b) /\ Extends(b, c)
    BY <1>5, <2>2, <2>4, <2>5, <2>6, <2>7
  <2>9. IsPrefix(a, c)
    <3>1. Extends(a, c)
      BY <2>8, ExtendsMore
    <3> QED BY <2>8, <3>1, ExtendsListed
  <2>10. UNCHANGED Reference
    BY <1>6, SameReference DEF callerVars
  <2>11. FailedAlike'
    BY <2>1, <2>7, <2>9, <2>10 DEF FailedAlike
  <2> QED BY <1>5, <1>6, <2>11, AgreeFails DEF SyncInv
<1> QED BY <1>7, <1>8

\* A block that decodes, decodes in both, and both close the frame with the same verdict or
\* keep it open.
LEMMA PayloadAgrees ==
  ASSUME StreamInv, BufferInv', PosInv, CapInv, CapInv', KeptInv, FirstInv, Window!IInv, AgreeInv,
         decoded_a_frame \in BOOLEAN, ~failed,
         NEW k \in 0..Len(wire), At(k), StepsWith(k), process_block_payload
  PROVE  AgreeInv' /\ SyncInv'
<1>1. InputInv /\ state.tag = "BlockPayload" /\ ~Stalled /\ call # "idle"
  BY DEF StreamInv, process_block_payload
<1>2. PICK j : j = PayloadEnd(wire, k)
  OBVIOUS
<1>3. /\ UNCHANGED <<options, wire, pushed>> /\ j \in 1..Len(wire)
      /\ \/ At(j)' /\ UNCHANGED failed
         \/ failed'
  BY <1>2, PayloadLeads
<1>4. /\ k + 1 \in 1..Len(wire)
      /\ j = k + 1 \/ (j = (k + 1) + 1 /\ wire[j].kind = "payload")
  BY <1>1, <1>2, PayloadAt
<1>5. PICK m : /\ m \in {"open", "closed", "fails"}
               /\ m = "open" => /\ state'.tag = "FrameChecksum" => frame'.header.checksum
                                /\ Progress(payload_size(state.header))
               /\ m = "closed" => /\ state' = FrameHeaderState
                                  /\ Progress(payload_size(state.header))
               /\ m = "fails" => Fails("ContentSizeMismatch", payload_size(state.header))
  <2>1. PICK block, f :
          /\ block = state.header
          /\ \/ /\ ~block.last_block \/ f.header.checksum
                /\ frame' = f
                /\ state' = IF block.last_block THEN FrameChecksumState ELSE BlockHeaderState
                /\ Progress(payload_size(block))
             \/ /\ block.last_block /\ ~f.header.checksum
                /\ IF ContentMismatch(f)
                   THEN Fails("ContentSizeMismatch", payload_size(block)) /\ UNCHANGED state
                   ELSE Progress(payload_size(block)) /\ state' = FrameHeaderState
    BY DEF process_block_payload
  <2>2. CASE /\ ~block.last_block \/ f.header.checksum
             /\ frame' = f
             /\ state' = IF block.last_block THEN FrameChecksumState ELSE BlockHeaderState
             /\ Progress(payload_size(block))
    <3>1. state'.tag = "FrameChecksum" => frame'.header.checksum
      BY <2>2 DEF FrameChecksumState, BlockHeaderState
    <3> QED BY <2>1, <2>2, <3>1
  <2>3. CASE ContentMismatch(f) /\ Fails("ContentSizeMismatch", payload_size(block))
    BY <2>1, <2>3
  <2>4. CASE Progress(payload_size(block)) /\ state' = FrameHeaderState
    BY <2>1, <2>4
  <2> QED BY <2>1, <2>2, <2>3, <2>4
<1>6. UNCHANGED <<callerVars, flags>>
  BY <1>5 DEF Progress, Fails
<1>7. CASE m # "fails"
  <2>1. UNCHANGED <<call, failed>>
    BY <1>5, <1>7 DEF Progress
  <2>2. state'.tag = "FrameChecksum" => frame'.header.checksum
    BY <1>5, <1>7 DEF FrameHeaderState
  <2>3. ASSUME NEW n \in pushed..Size(wire), NEW next, next = RunOf(options, wire, n)[j]
        PROVE  InStep(next, j, n)'
    <3>1. PICK f, st : f = RunOf(options, wire, n) /\ st = f[k]
      OBVIOUS
    <3>2. InStep(st, k, n)
      BY <3>1 DEF StepsWith
    <3>3. f[k + 1] = Step(options, st, wire[k + 1], n - EndOf(wire, k))
      BY <1>1, <1>4, <3>1, NextTurn
    <3>4. f[j] = f[k + 1]
      <4>1. CASE j = k + 1
        BY <4>1
      <4>2. CASE j = (k + 1) + 1 /\ wire[j].kind = "payload"
        <5>1. k + 1 \in 0..Len(wire) /\ (k + 1) + 1 \in 1..Len(wire)
          BY <1>3, <1>4, <4>2
        <5>2. f[(k + 1) + 1]
                = Step(options, f[k + 1], wire[(k + 1) + 1], n - EndOf(wire, k + 1))
          BY <1>1, <3>1, <5>1, NextTurn
        <5> QED BY <4>2, <5>2, PayloadTurn
      <4> QED BY <1>4, <4>1, <4>2
    <3>5. next = Step(options, st, wire[k + 1], n - EndOf(wire, k))
      BY <2>3, <3>1, <3>3, <3>4
    <3> QED BY <1>2, <2>1, <3>2, <3>5, BlockAlikeStep
  <2>4. StepsWith(j)'
    <3>1. \A n \in pushed..Size(wire) : \A st : st = RunOf(options, wire, n)[j] => InStep(st, j, n)'
      BY <2>3
    <3> QED BY <1>3, <3>1, TurnSteps
  <2>5. SyncInv'
    <3>1. j \in 0..Len(wire) /\ At(j)'
      BY <1>3, <2>1
    <3> QED BY <1>3, <2>2, <2>4, <3>1, TurnKeeps
  <2> QED BY <1>1, <1>6, <2>1, <2>5, AgreeGoesOn DEF flags
<1>8. CASE m = "fails"
  <2>1. failed' = TRUE /\ call' = "idle"
    BY <1>5, <1>8 DEF Fails
  <2>2. PICK st, next : /\ st = RunOf(options, wire, pushed)[k]
                        /\ next = Step(options, st, wire[k + 1], pushed - EndOf(wire, k))
    OBVIOUS
  <2>3. InStep(st, k, pushed) /\ pushed \in pushed..Size(wire)
    BY <1>1, <2>2, NowInStep
  <2>4. next.out = StreamOutput' /\ next.result # "Ok" /\ result' = next.result
    BY <1>2, <2>1, <2>2, <2>3, BlockAlikeStep
  <2> QED BY <1>1, <1>4, <1>6, <2>1, <2>2, <2>4, TurnFails
<1> QED BY <1>7, <1>8

\* A checksum is judged by both.
LEMMA ChecksumAgrees ==
  ASSUME StreamInv, BufferInv', PosInv, CapInv, CapInv', AgreeInv, decoded_a_frame \in BOOLEAN,
         ~failed, NEW k \in 0..Len(wire), At(k), StepsWith(k), process_frame_checksum,
         frame.header.checksum
  PROVE  AgreeInv' /\ SyncInv'
<1>1. InputInv /\ call # "idle" /\ UNCHANGED outputVars
  BY DEF StreamInv, process_frame_checksum
<1>2. /\ UNCHANGED <<options, wire, pushed>> /\ k + 1 \in 1..Len(wire)
      /\ \/ At(k + 1)' /\ UNCHANGED failed /\ state'.tag = "FrameHeader"
         \/ failed'
  BY ChecksumAt
<1>3. PICK m : /\ m \in {"goes", "fails"}
               /\ m = "goes" => Progress(CHECKSUM_SIZE)
               /\ m = "fails" => \E e : Fails(e, CHECKSUM_SIZE)
  BY DEF process_frame_checksum
<1>4. UNCHANGED <<callerVars, flags>>
  BY <1>3 DEF Progress, Fails
<1>5. UNCHANGED StreamOutput
  <2>1. UNCHANGED stream_start
    BY <1>4 DEF callerVars
  <2> QED BY <1>1, <2>1, QuietOutput
<1>6. CASE m = "goes"
  <2>1. UNCHANGED <<call, failed>>
    BY <1>3, <1>6 DEF Progress
  <2>2. At(k + 1)' /\ state'.tag # "FrameChecksum"
    BY <1>2, <2>1
  <2>3. ASSUME NEW n \in pushed..Size(wire), NEW next, next = RunOf(options, wire, n)[k + 1]
        PROVE  InStep(next, k + 1, n)'
    <3>1. PICK f, st : f = RunOf(options, wire, n) /\ st = f[k]
      OBVIOUS
    <3>2. InStep(st, k, n)
      BY <3>1 DEF StepsWith
    <3>3. next = Step(options, st, wire[k + 1], n - EndOf(wire, k))
      <4>1. f[k + 1] = Step(options, f[k], wire[k + 1], n - EndOf(wire, k))
        BY <1>1, <1>2, <3>1, NextTurn
      <4> QED BY <2>3, <3>1, <4>1
    <3> QED BY <1>5, <2>1, <3>2, <3>3, ChecksumAlike
  <2>4. PICK j : j = k + 1 /\ j \in 0..Len(wire)
    BY <1>2
  <2>5. StepsWith(j)'
    <3>1. \A n \in pushed..Size(wire) : \A st : st = RunOf(options, wire, n)[j] => InStep(st, j, n)'
      BY <2>3, <2>4
    <3> QED BY <1>2, <3>1, TurnSteps
  <2>6. SyncInv'
    <3>1. At(j)'
      BY <2>2, <2>4
    <3> QED BY <1>2, <2>2, <2>4, <2>5, <3>1, TurnKeeps
  <2> QED BY <1>1, <1>4, <2>1, <2>6, AgreeGoesOn DEF flags
<1>7. CASE m = "fails"
  <2>1. failed' = TRUE /\ call' = "idle"
    BY <1>3, <1>7 DEF Fails
  <2>2. PICK st, next : /\ st = RunOf(options, wire, pushed)[k]
                        /\ next = Step(options, st, wire[k + 1], pushed - EndOf(wire, k))
    OBVIOUS
  <2>3. InStep(st, k, pushed) /\ pushed \in pushed..Size(wire)
    BY <1>1, <2>2, NowInStep
  <2>4. next.out = StreamOutput' /\ next.result # "Ok" /\ result' = next.result
    BY <1>5, <2>1, <2>2, <2>3, ChecksumAlike
  <2> QED BY <1>1, <1>2, <1>4, <2>1, <2>2, <2>4, TurnFails
<1> QED BY <1>3, <1>6, <1>7

-----------------------------------------------------------------------------
\* Where a call returns.

\* A loop that breaks with the status the one-shot decoder would return.
LEMMA ReturnsAgree ==
  ASSUME AgreeInv, ~failed, call # "idle", NEW status, Returns(status), UNCHANGED StreamOutput,
         Listed(StreamOutput'), Reference.out = StreamOutput,
         Reference.result = "Ok" <=> status = "Ok", status = "Ok" => finish_status' = "Ok"
  PROVE  AgreeInv'
<1>1. PICK r : /\ r = IF call = "finish" THEN status ELSE "Ok"
               /\ call' = "idle" /\ result' = r /\ failed' = (failed \/ r # "Ok")
               /\ UNCHANGED <<callerVars, flags>>
  BY DEF Returns
<1>2. UNCHANGED finished_input /\ UNCHANGED Reference
  BY <1>1, SameReference DEF flags, callerVars
<1>3. CASE r # "Ok"
  <2>1. status # "Ok" /\ call = "finish"
    BY <1>1, <1>3
  <2>2. finished_input' /\ Reference.result # "Ok" /\ Reference.out = StreamOutput'
    BY <1>2, <2>1 DEF AgreeInv
  <2>3. FailedAlike'
    BY <1>1, <2>2, FailsSettled
  <2>4. failed' /\ call' = "idle"
    BY <1>1, <1>3
  <2> QED BY <2>3, <2>4, AgreeFails
<1>4. CASE r = "Ok"
  <2>1. ~failed' /\ call' = "idle"
    BY <1>1, <1>4
  <2>2. RestAlike'
    <3>1. StreamOutput' = Reference'.out
      BY <1>2
    <3>2. ASSUME finished_input' PROVE Reference'.result = "Ok" /\ finish_status' = "Ok"
      <4>1. call = "finish"
        BY <1>2, <3>2 DEF AgreeInv
      <4>2. status = "Ok"
        BY <1>1, <1>4, <4>1
      <4> QED BY <1>2, <4>2
    <3> QED BY <3>1, <3>2 DEF RestAlike
  <2> QED BY <2>1, <2>2 DEF AgreeInv
<1> QED BY <1>3, <1>4

\* The stream stops for want of input where the one-shot decoder ends.
LEMMA StalledAgrees ==
  ASSUME StreamInv, BufferInv', PosInv, CapInv', AgreeInv, ~failed,
         NEW k \in 0..Len(wire), At(k), StepsWith(k), process_stalled,
         state.tag = "FrameChecksum" => frame.header.checksum
  PROVE  AgreeInv' /\ SyncInv'
<1>1. /\ InputInv /\ call # "idle" /\ Stalled /\ Returns(finish_status)
      /\ UNCHANGED <<inputVars, outputVars, state, frame, decoded_a_frame>>
  BY DEF StreamInv, process_stalled
<1>2. UNCHANGED <<callerVars, flags>>
  BY <1>1 DEF Returns
<1>3. UNCHANGED <<options, wire, pushed, stream_start, received_input>>
  BY <1>2 DEF callerVars, flags
<1>4. UNCHANGED StreamOutput
  BY <1>1, <1>3, QuietOutput
<1>5. PICK st : st = RunOf(options, wire, pushed)[k]
  OBVIOUS
<1>6. InStep(st, k, pushed)
  BY <1>1, <1>5, NowInStep
<1>7. Reference.out = StreamOutput /\ (Reference.result = "Ok" <=> finish_status = "Ok")
  BY <1>1, <1>5, <1>6, StallIs
<1>8. UNCHANGED finish_status /\ UNCHANGED stream_input_pos
  BY <1>1, <1>3 DEF finish_status, inputVars, stream_input_pos
<1>9. Listed(StreamOutput')
  BY OutputListedNext
<1>10. PICK status : status = finish_status
  OBVIOUS
<1>11. /\ Returns(status) /\ (Reference.result = "Ok" <=> status = "Ok")
       /\ status = "Ok" => finish_status' = "Ok"
  BY <1>1, <1>7, <1>8, <1>10
<1>12. AgreeInv'
  BY <1>1, <1>4, <1>7, <1>9, <1>11, ReturnsAgree
<1>13. At(k)'
  BY <1>1, <1>3, <1>8 DEF At
<1>14. StepsWith(k)'
  <2>1. pushed \in Int /\ pushed' \in Int /\ pushed <= pushed' /\ Size(wire) \in Int
    BY <1>1, <1>3, PushedIs
  <2> QED BY <1>1, <1>3, <1>4, <2>1, StepsStay
<1>15. SyncInv'
  BY <1>1, <1>3, <1>13, <1>14, TurnKeeps
<1> QED BY <1>12, <1>15

\* The stream stops in a skippable frame where it has no more of it, or the frame has none.
LEMMA SkippableStall ==
  ASSUME NothingBehindEmpties, StreamInv, PosInv, NEW k \in 0..Len(wire), At(k),
         state.tag = "Skippable", NEW st, st = RunOf(options, wire, pushed)[k],
         InStep(st, k, pushed)
  PROVE  /\ state.remaining # 0 /\ Available = 0 =>
              Reference.out = StreamOutput /\ Reference.result = "UnexpectedEof"
         /\ state.remaining = 0 =>
              /\ Reference.out = StreamOutput /\ Reference.result = "Ok"
              /\ Available = 0 /\ received_input /\ ~frame.open
<1>1. InputInv /\ ~frame.open /\ ~options.single_frame /\ state.remaining \in Nat
  BY DEF StreamInv, StateInv, At, Single
<1>2. PICK u : u = wire[k + 1]
  OBVIOUS
<1>3. /\ k + 1 \in 1..Len(wire) /\ u.kind = "skippable" /\ PlacesOf(wire)[k].payload = 0
      /\ state.remaining <= u.remaining /\ (state.remaining = 0 => u.remaining = 0)
      /\ stream_input_pos = EndOf(wire, k + 1) + (u.remaining - state.remaining)
  BY <1>2 DEF StreamInv, At, Stands
<1>4. PICK e \in Nat, s \in Nat : /\ e = EndOf(wire, k) /\ s = u.size /\ s # 0
                                  /\ EndOf(wire, k + 1) = e + s /\ IsUnit(u) /\ s >= MAGIC_SIZE
  <2>1. IsUnit(u) /\ EndOf(wire, k + 1) = EndOf(wire, k) + u.size
    BY <1>1, <1>2, <1>3, NextUnit
  <2>2. EndOf(wire, k) \in Nat
    BY <1>1, WireIs, EndIs
  <2>3. u.size \in Nat /\ u.size # 0 /\ u.size >= MAGIC_SIZE
    BY <1>3, <2>1 DEF IsUnit, MAGIC_SIZE, SKIPPABLE_HEADER_SIZE
  <2> QED BY <2>1, <2>2, <2>3
<1>5. PICK r \in Nat, q \in Nat : r = state.remaining /\ q = u.remaining
  BY <1>1, <1>3, <1>4 DEF IsUnit
<1>6. PICK p \in Nat, a \in Nat : p = stream_input_pos /\ a = Available /\ p + a = pushed
  BY <1>1, PosIs
<1>7. p = (e + s) + (q - r) /\ r <= q /\ (r = 0 => q = 0)
  BY <1>3, <1>4, <1>5, <1>6
<1>8. pushed \in Nat /\ pushed # 0 /\ e + s <= pushed
  <2>1. e + s \in Nat /\ e + s # 0
    BY <1>4
  <2>2. PICK b \in Nat, d \in Nat : b = e + s /\ d = q - r /\ b # 0
    BY <1>7, <2>1
  <2>3. p = b + d
    BY <1>7, <2>2
  <2> QED BY <1>6, <2>2, <2>3
<1>9. IsRef(st) /\ st.out = StreamOutput /\ st.between /\ st.result = "Ok"
  <2>1. ClosedResult(k, pushed) = "Ok"
    BY <1>1, <1>8 DEF ClosedResult
  <2> QED BY <1>1, <2>1 DEF InStep
<1>10. ASSUME r # 0, a = 0
       PROVE  Reference.out = StreamOutput /\ Reference.result = "UnexpectedEof"
  <2>1. PICK n \in Nat : n = pushed - e /\ n # 0 /\ ~(n < s) /\ n < s + q
    <3>1. pushed = p
      BY <1>6, <1>10
    <3>2. pushed - e = s + (q - r)
      BY <1>7, <3>1
    <3>3. PICK d \in Nat : d = q - r /\ d < q
      BY <1>7, <1>10
    <3>4. s + d \in Nat /\ s + d # 0 /\ ~(s + d < s) /\ s + d < s + q
      <4>1. s # 0 /\ d < q
        BY <1>4, <3>3
      <4> QED BY <4>1
    <3>5. pushed - e \in Nat /\ pushed - e # 0 /\ ~(pushed - e < s) /\ pushed - e < s + q
      BY <3>2, <3>3, <3>4
    <3> QED BY <3>5
  <2>2. parse_frame_header(u, n) = "skippable"
    <3>1. u.size \in Nat /\ n \in Int /\ u.kind = "skippable"
      BY <1>3, <1>4
    <3>2. n >= MAGIC_SIZE /\ ~(n < u.size)
      BY <1>4, <2>1 DEF MAGIC_SIZE
    <3>3. parse_frame_header(u, n) = IF n < u.size THEN "UnexpectedEof" ELSE u.kind
      BY <3>1, <3>2, ParsedAs
    <3> QED BY <3>1, <3>2, <3>3
  <2>3. HeaderVerdict(options, u, n) = "UnexpectedEof"
    BY <1>1, <1>4, <1>5, <2>1, <2>2 DEF HeaderVerdict
  <2>4. PICK next : next = Step(options, st, u, n)
    OBVIOUS
  <2>5. Judged(st, next, "UnexpectedEof")
    <3>1. u.kind # "payload" /\ parse_frame_header(u, n) # "frame"
      BY <1>3, <2>2
    <3> QED BY <1>9, <2>1, <2>3, <2>4, <3>1, HeaderJudged
  <2>6. next = Step(options, st, wire[k + 1], pushed - EndOf(wire, k))
    BY <1>2, <1>4, <2>1, <2>4
  <2> QED BY <1>1, <1>3, <1>9, <2>5, <2>6, TurnEnds
<1>11. ASSUME r = 0
       PROVE  /\ Reference.out = StreamOutput /\ Reference.result = "Ok"
              /\ a = 0 /\ received_input
  <2>1. PICK j : j = k + 1 /\ j = Len(wire) /\ EndOf(wire, j) = e + s
    <3>1. k + 1 = Len(wire)
      BY <1>1, <1>2, <1>3, <1>5, <1>7, <1>11 DEF InputInv, NothingBehindEmpties, Configured
    <3> QED BY <1>4, <3>1
  <2>2. a = 0
    <3>1. pushed <= e + s
      BY <1>1, <2>1 DEF InputInv, Size
    <3> QED BY <1>6, <1>7, <1>8, <1>11, <3>1
  <2>3. PICK f : f = RunOf(options, wire, pushed)
    OBVIOUS
  <2>4. f[j] = f[k]
    <3>1. InStep(f[k], k, pushed)
      BY <2>3
    <3>2. EndOf(wire, j) <= pushed
      BY <1>8, <2>1
    <3>3. wire[k + 1].kind = "skippable" /\ j = k + 1 /\ wire[k + 1].remaining = 0
      BY <1>2, <1>3, <1>5, <1>7, <1>11, <2>1
    <3> QED BY <1>1, <1>3, <1>8, <2>3, <3>1, <3>2, <3>3, SkippableAlike
  <2>5. Reference = Outcome(st)
    BY <1>1, <2>1, <2>3, <2>4, ReferenceIs
  <2>6. Reference.out = st.out /\ Reference.result = "Ok"
    BY <1>9, <2>5 DEF Outcome
  <2>7. received_input
    BY <1>8 DEF PosInv
  <2> QED BY <1>9, <2>2, <2>6, <2>7
<1> QED BY <1>1, <1>5, <1>6, <1>10, <1>11

\* A skippable frame's turn: it goes on, or the loop breaks as the one-shot decoder ends.
LEMMA SkippableAgrees ==
  ASSUME NothingBehindEmpties, StreamInv, StreamInv', PosInv, CapInv', AgreeInv, ~failed,
         NEW k \in 0..Len(wire), At(k), StepsWith(k), process_skippable_frame
  PROVE  AgreeInv' /\ SyncInv'
<1>1. InputInv /\ call # "idle" /\ state.tag = "Skippable" /\ BufferInv'
      /\ UNCHANGED <<outputVars, frame>>
  BY DEF StreamInv, process_skippable_frame
<1>2. PICK r \in Nat, a \in Nat : r = state.remaining /\ a = Available
  BY <1>1, PosIs DEF StreamInv, StateInv
<1>3. PICK c \in Nat : c = Least(a, r) /\ (c = 0 => r = 0 \/ a = 0)
  <2>1. Least(a, r) \in Nat /\ (Least(a, r) = 0 => r = 0 \/ a = 0)
    BY DEF Least
  <2> QED BY <2>1
<1>4. PICK boundary \in BOOLEAN :
        boundary <=> r - c = 0 /\ a = 0 /\ received_input /\ ~frame.open
  OBVIOUS
<1>5. /\ state' = IF r - c = 0 THEN FrameHeaderState ELSE SkippableState(r - c)
      /\ \/ c # 0 /\ Progress(c)
         \/ /\ c = 0
            /\ Returns(IF boundary THEN "Ok" ELSE "UnexpectedEof")
            /\ UNCHANGED inputVars
  BY <1>2, <1>3, <1>4 DEF process_skippable_frame
<1>6. UNCHANGED <<callerVars, flags>>
  BY <1>5 DEF Progress, Returns
<1>7. UNCHANGED <<options, wire, pushed, stream_start, received_input, finished_input>>
  BY <1>6 DEF callerVars, flags
<1>8. UNCHANGED StreamOutput
  BY <1>1, <1>7, QuietOutput
<1>9. SyncInv'
  <2>1. PICK j \in 0..Len(wire) : At(j)' /\ StepsWith(j)'
    BY SkippableSteps
  <2>2. state'.tag # "FrameChecksum"
    BY <1>5 DEF FrameHeaderState, SkippableState
  <2> QED BY <1>7, <2>1, <2>2, TurnKeeps
<1>10. CASE c # 0
  <2>1. UNCHANGED <<call, failed>>
    BY <1>5, <1>10 DEF Progress
  <2> QED BY <1>1, <1>7, <1>9, <2>1, AgreeGoesOn
<1>11. CASE c = 0
  <2>1. PICK st : st = RunOf(options, wire, pushed)[k]
    OBVIOUS
  <2>2. InStep(st, k, pushed)
    BY <1>1, <2>1, NowInStep
  <2>3. /\ r # 0 /\ a = 0 =>
              Reference.out = StreamOutput /\ Reference.result = "UnexpectedEof"
        /\ r = 0 => /\ Reference.out = StreamOutput /\ Reference.result = "Ok"
                    /\ a = 0 /\ received_input /\ ~frame.open
    BY <1>1, <1>2, <2>1, <2>2, SkippableStall
  <2>4. PICK status : status = IF boundary THEN "Ok" ELSE "UnexpectedEof"
    OBVIOUS
  <2>5. Returns(status) /\ UNCHANGED inputVars
    BY <1>5, <1>11, <2>4
  <2>6. r - c = r
    BY <1>11
  <2>7. Reference.out = StreamOutput /\ (Reference.result = "Ok" <=> status = "Ok")
    BY <1>3, <1>4, <1>11, <2>3, <2>4, <2>6
  <2>8. status = "Ok" => finish_status' = "Ok"
    <3>1. SUFFICES ASSUME status = "Ok" PROVE finish_status' = "Ok"
      OBVIOUS
    <3>2. r = 0 /\ a = 0 /\ received_input /\ ~frame.open
      BY <1>4, <2>4, <2>6, <3>1
    <3>3. state'.tag = "FrameHeader"
      BY <1>5, <2>6, <3>2 DEF FrameHeaderState
    <3>4. input_pos = Len(input)
      <4>1. PICK p \in Nat, l \in Nat : p = input_pos /\ l = Len(input)
        <5>1. input_pos \in Nat /\ Len(input) \in Nat
          BY <1>1 DEF InputInv
        <5> QED BY <5>1
      <4> QED BY <1>2, <3>2, <4>1 DEF Available
    <3>5. input_pos' = Len(input')
      BY <2>5, <3>4 DEF inputVars
    <3>6. received_input' /\ ~frame'.open
      BY <1>1, <1>7, <3>2
    <3> QED BY <3>3, <3>5, <3>6 DEF finish_status
  <2>9. Listed(StreamOutput')
    BY <1>1, OutputListedNext
  <2> QED BY <1>1, <1>8, <1>9, <2>5, <2>7, <2>8, <2>9, ReturnsAgree
<1> QED BY <1>10, <1>11

\* Every turn of a call that has not failed.
LEMMA TurnAgrees ==
  ASSUME NothingBehindEmpties, StreamInv, StreamInv', PosInv, CapInv, CapInv', LengthInv, KeptInv,
         FirstInv, Window!IInv, AgreeInv, SyncInv, ~failed, Process
  PROVE  AgreeInv' /\ SyncInv'
<1>1. PICK k \in 0..Len(wire) : At(k) /\ StepsWith(k)
  BY DEF SyncInv, InSync
<1>2. decoded_a_frame \in BOOLEAN /\ BufferInv'
      /\ (state.tag = "FrameChecksum" => frame.header.checksum)
  BY DEF SyncInv, InSync, LengthInv, StreamInv
<1>3. CASE process_stalled
  BY <1>1, <1>2, <1>3, StalledAgrees
<1>4. CASE process_frame_header_error
  BY <1>1, <1>4, HeaderErrorAgrees
<1>5. CASE process_skippable_header
  BY <1>1, <1>5, SkippableHeaderAgrees
<1>6. CASE process_zstandard_header
  BY <1>1, <1>2, <1>6, FrameHeaderAgrees
<1>7. CASE process_skippable_frame
  BY <1>1, <1>7, SkippableAgrees
<1>8. CASE process_block_header
  BY <1>1, <1>2, <1>8, BlockHeaderAgrees
<1>9. CASE process_block_error
  BY <1>1, <1>2, <1>9, BlockErrorAgrees
<1>10. CASE process_block_without_frame
  <2>1. state.tag = "BlockPayload" /\ ~frame.open
    BY <1>10 DEF process_block_without_frame
  <2> QED BY <1>1, <2>1 DEF At, Stands
<1>11. CASE process_block_payload
  BY <1>1, <1>2, <1>11, PayloadAgrees
<1>12. CASE process_frame_checksum
  <2>1. frame.header.checksum
    BY <1>2, <1>12 DEF process_frame_checksum
  <2> QED BY <1>1, <1>2, <1>12, <2>1, ChecksumAgrees
<1> QED BY <1>3, <1>4, <1>5, <1>6, <1>7, <1>8, <1>9, <1>10, <1>11, <1>12 DEF Process

\* A block that writes nothing leaves what the stream has produced.
LEMMA EmptyQuiet ==
  ASSUME StreamInv, KeptInv, Window!IInv, state.tag = "BlockPayload", frame.open,
         payload_size(state.header) = 0,
         NEW d, d = decode_block(state.header), output' = d.out,
         UNCHANGED <<output_pos, delivered, stream_start>>
  PROVE  KeptInv' /\ UNCHANGED StreamOutput
<1>1. PICK m : KeptInv' /\ Listed(m) /\ d.out = output \o m /\ Produced' = Produced \o m
  BY BlockBehind
<1>2. Len(d.out) = Len(output)
  BY EmptyBlock
<1>3. Listed(output)
  BY DEF StreamInv, BufferInv
<1>4. Len(d.out) = Len(output) + Len(m) /\ Len(output) \in Nat /\ Len(m) \in Nat
  BY <1>1, <1>3, ListsJoin
<1>5. Len(m) = 0
  BY <1>2, <1>4
<1>6. d.out = output
  <2>1. Listed(d.out)
    BY <1>1, <1>3, ListsJoin
  <2>2. \A i \in 1..Len(output) : (output \o m)[i] = output[i]
    BY <1>1, <1>3, <1>4, <1>5, JoinAt
  <2> QED BY <1>1, <1>2, <1>3, <2>1, <2>2, SameLists
<1>7. UNCHANGED Produced
  BY <1>6 DEF Produced, Pending
<1> QED BY <1>1, <1>7 DEF StreamOutput

\* Every turn ends in one of three ways, and each leaves the caller's side as it was.
LEMMA TurnLeaves ==
  ASSUME Process
  PROVE  /\ UNCHANGED <<callerVars, flags>> /\ (failed => failed')
         /\ call' = call \/ call' = "idle"
<1>1. \/ \E n : Progress(n)
      \/ \E e, n : Fails(e, n)
      \/ \E e : Returns(e)
  BY DEF Process, process_stalled, process_frame_header_error, process_skippable_header,
     process_zstandard_header, process_skippable_frame, process_block_header,
     process_block_error, process_block_without_frame, process_block_payload,
     process_frame_checksum
<1>2. ASSUME NEW n, Progress(n)
      PROVE  UNCHANGED <<callerVars, flags>> /\ UNCHANGED <<call, failed>>
  BY <1>2 DEF Progress
<1>3. ASSUME NEW e, NEW n, Fails(e, n)
      PROVE  UNCHANGED <<callerVars, flags>> /\ failed' = TRUE /\ call' = "idle"
  BY <1>3 DEF Fails
<1>4. ASSUME NEW e, Returns(e)
      PROVE  UNCHANGED <<callerVars, flags>> /\ (failed => failed') /\ call' = "idle"
  BY <1>4 DEF Returns
<1> QED BY <1>1, <1>2, <1>3, <1>4

\* What a turn makes of what has been delivered.
LEMMA TurnKept ==
  ASSUME StreamInv, KeptInv, Window!IInv, Process PROVE KeptInv'
<1>1. CASE UNCHANGED outputVars
  BY <1>1 DEF KeptInv, outputVars
<1>2. CASE process_zstandard_header
  BY <1>2, HeaderBehind
<1>3. CASE process_block_error \/ process_block_payload
  <2>1. PICK d : d = decode_block(state.header)
    OBVIOUS
  <2>2. /\ state.tag = "BlockPayload" /\ frame.open /\ output' = d.out
        /\ UNCHANGED <<output_pos, delivered>>
    BY <1>3, <2>1 DEF process_block_error, process_block_payload
  <2> QED BY <2>1, <2>2, BlockBehind
<1> QED
  BY <1>1, <1>2, <1>3 DEF Process, process_stalled, process_frame_header_error,
     process_skippable_header, process_skippable_frame, process_block_header,
     process_block_without_frame, process_frame_checksum

\* A decoder whose call has failed turns on without input, and writes nothing more.
LEMMA FailedQuiet ==
  ASSUME StreamInv, KeptInv, CapInv, Window!IInv, failed, Process
  PROVE  UNCHANGED StreamOutput
<1>1. call # "idle"
  BY DEF Process, process_stalled, process_frame_header_error,
     process_skippable_header, process_zstandard_header, process_skippable_frame,
     process_block_header, process_block_error, process_block_without_frame,
     process_block_payload, process_frame_checksum
<1>2. Available = 0
  BY <1>1 DEF CapInv
<1>3. UNCHANGED stream_start
  BY TurnLeaves DEF callerVars
<1>4. CASE UNCHANGED outputVars
  BY <1>3, <1>4, QuietOutput
<1>5. CASE process_zstandard_header
  <2>1. UNCHANGED Produced
    BY <1>5, HeaderBehind
  <2> QED BY <1>3, <2>1 DEF StreamOutput
<1>6. CASE process_block_error \/ process_block_payload
  <2>1. PICK d : d = decode_block(state.header)
    OBVIOUS
  <2>2. /\ state.tag = "BlockPayload" /\ ~Stalled /\ frame.open /\ output' = d.out
        /\ UNCHANGED <<output_pos, delivered>>
    BY <1>6, <2>1 DEF process_block_error, process_block_payload
  <2>3. payload_size(state.header) = 0
    BY <1>2, <2>2, PayloadRead
  <2> QED BY <1>3, <2>1, <2>2, <2>3, EmptyQuiet
<1> QED
  BY <1>4, <1>5, <1>6 DEF Process, process_stalled, process_frame_header_error,
     process_skippable_header, process_skippable_frame, process_block_header,
     process_block_without_frame, process_frame_checksum

\* So what holds of a stream that has failed goes on to hold.
LEMMA FailedAgrees ==
  ASSUME StreamInv, KeptInv, CapInv, Window!IInv, AgreeInv, failed, Process
  PROVE  AgreeInv' /\ SyncInv'
<1>1. UNCHANGED StreamOutput
  BY FailedQuiet
<1>2. /\ UNCHANGED <<callerVars, flags>> /\ failed'
      /\ call' = call \/ call' = "idle"
  BY TurnLeaves
<1>3. call # "idle"
  BY DEF Process, process_stalled, process_frame_header_error,
     process_skippable_header, process_zstandard_header, process_skippable_frame,
     process_block_header, process_block_error, process_block_without_frame,
     process_block_payload, process_frame_checksum
<1>4. UNCHANGED Reference /\ UNCHANGED Comparable /\ UNCHANGED finished_input
  BY <1>2, SameReference DEF callerVars, flags, Comparable
<1>5. finished_input /\ FailedAlike
  BY <1>3 DEF AgreeInv
<1>6. FailedAlike'
  BY <1>1, <1>4, <1>5 DEF FailedAlike
<1>7. AgreeInv'
  BY <1>2, <1>4, <1>5, <1>6 DEF AgreeInv
<1> QED BY <1>2, <1>7 DEF SyncInv

\* A turn keeps the two decoders side by side.
LEMMA ProcessAgrees ==
  ASSUME NothingBehindEmpties, StreamInv, StreamInv', PosInv, CapInv, CapInv', LengthInv, KeptInv,
         FirstInv, Window!IInv, AgreeInv, SyncInv, Process
  PROVE  KeptInv' /\ FirstInv' /\ AgreeInv' /\ SyncInv'
<1>1. KeptInv'
  BY TurnKept
<1>2. FirstInv'
  <2>1. UNCHANGED <<streams, stream_start>>
    BY TurnLeaves DEF callerVars
  <2> QED BY <2>1 DEF FirstInv
<1>3. AgreeInv' /\ SyncInv'
  BY TurnAgrees, FailedAgrees
<1> QED BY <1>1, <1>2, <1>3

-----------------------------------------------------------------------------
\* The calls, and the theorems.

\* A stream that has begun.
Fresh ==
  /\ InputInv /\ BufferInv /\ pushed = 0 /\ stream_start = Len(Produced) /\ At(0)
  /\ 0 \in 0..Len(wire) /\ ~frame.open /\ state.tag = "FrameHeader" /\ ~decoded_a_frame
  /\ ~finished_input /\ call = "idle" /\ ~failed

\* It has produced nothing, and the one-shot decoder nothing either.
LEMMA FreshAgrees == Fresh => AgreeInv /\ SyncInv
<1> SUFFICES ASSUME Fresh PROVE AgreeInv /\ SyncInv
  OBVIOUS
<1>1. /\ InputInv /\ BufferInv /\ pushed = 0 /\ stream_start = Len(Produced) /\ At(0)
      /\ 0 \in 0..Len(wire) /\ ~frame.open /\ state.tag = "FrameHeader" /\ ~decoded_a_frame
      /\ ~finished_input /\ call = "idle" /\ ~failed
  BY DEF Fresh
<1>2. StreamOutput = << >>
  <2>1. Len(Produced) \in Nat
    BY <1>1, Counted DEF BufferInv
  <2>2. Listed(Produced)
    <3>1. stream_start \in Nat /\ stream_start <= Len(Produced)
      BY <1>1, <2>1
    <3> QED BY <1>1, <3>1, StreamListed
  <2> QED BY <1>1, <2>2, NoneLeft DEF StreamOutput
<1>3. Len(wire) \in Nat
  BY <1>1, WireIs
<1>4. ASSUME NEW n, NEW st, st = RunOf(options, wire, n)[0]
      PROVE  /\ IsRef(st) /\ st.out = << >> /\ st.between = TRUE
             /\ st.result = IF n = 0 THEN "UnexpectedEof" ELSE "Ok"
  <2>1. PICK f : f = RunOf(options, wire, n)
    OBVIOUS
  <2>2. f[0] = Began(options, n)
    BY <1>3, <2>1, RunIs
  <2>3. st = Began(options, n)
    BY <1>4, <2>1, <2>2
  <2>4. PICK o, e, h : /\ o = << >> /\ e = FreshEntropy(options)
                       /\ h = IF n = 0 THEN "UnexpectedEof" ELSE "Ok"
    OBVIOUS
  <2>5. PICK b, z : b = TRUE /\ z = 0
    OBVIOUS
  <2>6. st = Ref(o, h, b, o, z, e)
    BY <2>3, <2>4, <2>5 DEF Began
  <2>7. IsRef(st) /\ st.out = o /\ st.between = b /\ st.result = h
    BY <2>6, RefIs
  <2> QED BY <2>4, <2>5, <2>7
<1>5. StepsWith(0)
  <2>1. SUFFICES ASSUME NEW n \in pushed..Size(wire) PROVE InStep(RunOf(options, wire, n)[0], 0, n)
    BY DEF StepsWith
  <2>2. PICK st : st = RunOf(options, wire, n)[0]
    OBVIOUS
  <2>3. /\ IsRef(st) /\ st.out = << >> /\ st.between = TRUE
        /\ st.result = IF n = 0 THEN "UnexpectedEof" ELSE "Ok"
    BY <1>4, <2>2
  <2>4. st.result = ClosedResult(0, n)
    BY <1>1, <2>3 DEF ClosedResult
  <2>5. InStep(st, 0, n)
    BY <1>1, <1>2, <2>3, <2>4 DEF InStep
  <2> QED BY <2>2, <2>5
<1>6. Reference.out = << >>
  <2>1. PICK st : st = RunOf(options, wire, pushed)[0]
    OBVIOUS
  <2>2. st.out = << >> /\ st.result # "Ok"
    BY <1>1, <1>4, <2>1
  <2> QED BY <1>1, <2>1, <2>2, ReferenceStays
<1>7. AgreeInv
  BY <1>1, <1>2, <1>6 DEF AgreeInv, RestAlike
<1> QED BY <1>1, <1>5, <1>7 DEF SyncInv, InSync
LEMMA FreshAgreesNext == (Fresh => AgreeInv /\ SyncInv)'
BY FreshAgrees, PTL

\* A step that only moves output or the caller leaves the decoder in its place.
LEMMA AtStays ==
  ASSUME NEW k, At(k), UNCHANGED <<stream_input_pos, options, wire, state, decoded_a_frame>>,
         frame'.open = frame.open, frame.open => frame'.header = frame.header
  PROVE  At(k)'
<1>1. Stands(wire, k, state, frame', stream_input_pos)
  BY DEF At, Stands
<1>2. options.single_frame => Single(wire, k, state, frame', decoded_a_frame)
  BY DEF At, Single
<1> QED BY <1>1, <1>2 DEF At

\* And leaves the two decoders side by side.
LEMMA SyncStays ==
  ASSUME StreamInv, SyncInv, pushed' \in Int, pushed <= pushed', failed => failed',
         UNCHANGED <<stream_input_pos, options, wire, state, decoded_a_frame, StreamOutput,
                     stream_start>>,
         frame'.open = frame.open,
         frame.open => UNCHANGED <<frame.header, frame.entropy, frame.origin,
                                   frame.frame_output_size, frame.hashed>>
  PROVE  SyncInv'
<1> SUFFICES ASSUME ~failed' PROVE InSync'
  BY DEF SyncInv
<1>1. InputInv
  BY DEF StreamInv
<1>2. PICK k \in 0..Len(wire) : At(k) /\ StepsWith(k)
  BY DEF SyncInv, InSync
<1>3. state.tag = "FrameChecksum" => frame.header.checksum
  BY DEF SyncInv, InSync
<1>4. pushed \in Int /\ Size(wire) \in Int
  BY <1>1, PushedIs
<1>5. StepsWith(k)'
  BY <1>2, <1>4, StepsStay
<1>6. At(k)'
  BY <1>2, AtStays
<1>7. state'.tag = "FrameChecksum" => frame'.header.checksum
  <2>1. state.tag = "FrameChecksum" => frame.open
    BY <1>2 DEF At, Stands
  <2> QED BY <1>3, <2>1
<1> QED BY <1>2, <1>5, <1>6, <1>7 DEF InSync

\* A drain keeps all of an open frame but its start.
LEMMA DrainFrame ==
  ASSUME StreamInv, Drain
  PROVE  /\ frame'.open = frame.open
         /\ frame.open => UNCHANGED <<frame.header, frame.entropy, frame.origin,
                                      frame.frame_output_size, frame.hashed>>
<1>1. \/ frame' = frame
      \/ frame.open /\ \E s : frame' = [frame EXCEPT !.frame_start = s]
  BY DEF Drain, read, take_output, Take
<1>2. CASE frame.open /\ \E s : frame' = [frame EXCEPT !.frame_start = s]
  <2>1. OpenFrame(frame)
    BY <1>2 DEF StreamInv, FrameInv
  <2>2. PICK h, w, s, c, x, e, g :
          frame = [open |-> TRUE, header |-> h, window_size |-> w, frame_start |-> s,
                   frame_output_size |-> c, hashed |-> x, entropy |-> e, origin |-> g]
    BY <2>1 DEF OpenFrame
  <2>3. PICK t : frame' = [frame EXCEPT !.frame_start = t]
    BY <1>2
  <2>4. frame' = [open |-> TRUE, header |-> h, window_size |-> w, frame_start |-> t,
                  frame_output_size |-> c, hashed |-> x, entropy |-> e, origin |-> g]
    BY <2>2, <2>3
  <2> QED BY <2>2, <2>4
<1> QED BY <1>1, <1>2

\* push.
LEMMA PushAgrees ==
  ASSUME StreamInv, PosInv, KeptInv, FirstInv, SyncInv, NEW n \in PushSizes, push(n)
  PROVE  KeptInv' /\ FirstInv' /\ AgreeInv' /\ SyncInv'
<1>1. /\ ~finished_input /\ ~failed /\ pushed' = pushed + n /\ call' = "push"
      /\ UNCHANGED <<outputVars, options, wire, stream_start, streams, state, frame,
                     finished_input, decoded_a_frame, failed>>
  BY DEF push
<1>2. UNCHANGED stream_input_pos
  BY PushPos DEF StreamInv
<1>3. UNCHANGED StreamOutput
  BY <1>1, QuietOutput
<1>4. pushed' \in Int /\ pushed <= pushed'
  <2>1. pushed \in Nat /\ Size(wire) \in Nat
    BY PushedIs DEF StreamInv
  <2>2. n \in Nat
    <3>1. Chunks \subseteq Nat /\ pushed <= Size(wire)
      BY StreamDecoderAssumption DEF StreamInv, InputInv
    <3>2. Size(wire) - pushed \in Nat
      BY <2>1, <3>1
    <3> QED BY <3>1, <3>2 DEF PushSizes
  <2> QED BY <1>1, <2>1, <2>2
<1>5. SyncInv'
  BY <1>1, <1>2, <1>3, <1>4, SyncStays
<1> QED BY <1>1, <1>5 DEF KeptInv, FirstInv, AgreeInv, outputVars

\* finish.
LEMMA FinishAgrees ==
  ASSUME StreamInv, PosInv, KeptInv, FirstInv, AgreeInv, SyncInv, finish
  PROVE  KeptInv' /\ FirstInv' /\ AgreeInv' /\ SyncInv'
<1>1. /\ call = "idle" /\ finished_input' = TRUE
      /\ IF finished_input
         THEN result' = finish_status /\ failed' = (failed \/ result' # "Ok") /\ UNCHANGED call
         ELSE call' = "finish" /\ UNCHANGED <<result, failed>>
      /\ UNCHANGED <<inputVars, outputVars, callerVars, state, frame, received_input,
                     decoded_a_frame>>
  BY DEF finish
<1>2. UNCHANGED <<stream_input_pos, options, wire, pushed, stream_start, streams>>
  BY <1>1, StaysPos DEF callerVars
<1>3. UNCHANGED StreamOutput
  BY <1>1, <1>2, QuietOutput
<1>4. UNCHANGED Reference /\ UNCHANGED Comparable /\ UNCHANGED finish_status
  BY <1>1, <1>2, SameReference DEF Comparable, finish_status, inputVars
<1>5. SyncInv'
  <2>1. pushed' \in Int /\ pushed <= pushed'
    BY <1>2, PushedIs DEF StreamInv
  <2>2. failed => failed'
    BY <1>1
  <2> QED BY <1>1, <1>2, <1>3, <2>1, <2>2, SyncStays
<1>6. failed => FailedAlike'
  BY <1>1, <1>3, <1>4 DEF AgreeInv, FailedAlike
<1>7. AgreeInv'
  <2>1. CASE ~finished_input
    BY <1>1, <1>6, <2>1 DEF AgreeInv
  <2>2. CASE finished_input /\ failed
    BY <1>1, <1>6, <2>2 DEF AgreeInv
  <2>3. CASE finished_input /\ ~failed
    <3>1. RestAlike /\ finish_status = "Ok"
      BY <1>1, <2>3 DEF AgreeInv, RestAlike
    <3>2. ~failed' /\ call' = "idle"
      BY <1>1, <2>3, <3>1
    <3>3. RestAlike'
      BY <1>3, <1>4, <2>3, <3>1 DEF RestAlike
    <3> QED BY <3>2, <3>3 DEF AgreeInv
  <2> QED BY <2>1, <2>2, <2>3
<1> QED BY <1>1, <1>2, <1>5, <1>7 DEF KeptInv, FirstInv, outputVars

\* What holds between two calls holds after a step that leaves all it is about.
LEMMA AgreeStays ==
  ASSUME AgreeInv, UNCHANGED <<options, wire, pushed, streams, StreamOutput, finish_status>>,
         UNCHANGED <<call, result, failed, finished_input>>
  PROVE  AgreeInv'
<1>1. UNCHANGED Reference /\ UNCHANGED Comparable
  BY SameReference DEF Comparable
<1>2. (FailedAlike => FailedAlike') /\ (RestAlike => RestAlike')
  BY <1>1 DEF FailedAlike, RestAlike
<1> QED BY <1>2 DEF AgreeInv

\* read and take_output.
LEMMA DrainAgrees ==
  ASSUME StreamInv, PosInv, KeptInv, FirstInv, AgreeInv, SyncInv, Drain
  PROVE  KeptInv' /\ FirstInv' /\ AgreeInv' /\ SyncInv'
<1>1. UNCHANGED <<inputVars, callerVars, flags, state, decoded_a_frame, call, result, failed>>
  BY DEF Drain, read, take_output
<1>2. KeptInv' /\ UNCHANGED Produced
  BY DrainBehind
<1>3. UNCHANGED <<options, wire, pushed, stream_start, streams, received_input, finished_input>>
  BY <1>1 DEF callerVars, flags
<1>4. UNCHANGED StreamOutput
  BY <1>2, <1>3 DEF StreamOutput
<1>5. /\ frame'.open = frame.open
      /\ frame.open => UNCHANGED <<frame.header, frame.entropy, frame.origin,
                                   frame.frame_output_size, frame.hashed>>
  BY DrainFrame
<1>6. UNCHANGED stream_input_pos
  BY <1>1, <1>3, StaysPos
<1>7. UNCHANGED finish_status
  BY <1>1, <1>3, <1>5 DEF finish_status, inputVars
<1>8. AgreeInv'
  BY <1>1, <1>3, <1>4, <1>7, AgreeStays
<1>9. SyncInv'
  <2>1. pushed' \in Int /\ pushed <= pushed'
    BY <1>3, PushedIs DEF StreamInv
  <2> QED BY <1>1, <1>3, <1>4, <1>5, <1>6, <2>1, SyncStays
<1> QED BY <1>2, <1>3, <1>8, <1>9 DEF FirstInv

\* reset.
LEMMA ResetAgrees ==
  ASSUME StreamInv, StreamInv', KeptInv, FirstInv, NEW w \in Again, reset(w)
  PROVE  KeptInv' /\ FirstInv' /\ AgreeInv' /\ SyncInv'
<1>1. /\ pushed' = 0 /\ streams' = streams + 1 /\ stream_start' = Len(Produced)
      /\ state' = FrameHeaderState /\ finished_input' = FALSE /\ failed' = FALSE
      /\ call' = "idle" /\ ~frame.open /\ UNCHANGED <<outputVars, frame>>
  BY DEF reset, finish_status
<1>2. At(0)' /\ wire' = w /\ 0 \in 0..Len(w) /\ decoded_a_frame' = FALSE
  BY ResetAt
<1>3. UNCHANGED Produced
  BY <1>1 DEF Produced, Pending, outputVars
<1>4. state'.tag = "FrameHeader"
  BY <1>1 DEF FrameHeaderState
<1>5. Fresh'
  BY <1>1, <1>2, <1>3, <1>4 DEF Fresh, StreamInv
<1>6. AgreeInv' /\ SyncInv'
  BY <1>5, FreshAgreesNext
<1>7. FirstInv'
  BY <1>1 DEF FirstInv
<1>8. KeptInv'
  BY <1>1 DEF KeptInv, outputVars
<1> QED BY <1>6, <1>7, <1>8

\* Every step keeps the two decoders side by side.
LEMMA AgreeNext ==
  NothingBehindEmpties =>
    (/\ StreamInv /\ StreamInv' /\ PosInv /\ CapInv /\ CapInv' /\ LengthInv /\ Window!IInv
     /\ KeptInv /\ FirstInv /\ AgreeInv /\ SyncInv /\ [Next]_vars
     => KeptInv' /\ FirstInv' /\ AgreeInv' /\ SyncInv')
<1> SUFFICES ASSUME NothingBehindEmpties, StreamInv, StreamInv', PosInv, CapInv, CapInv', LengthInv,
                    Window!IInv, KeptInv, FirstInv, AgreeInv, SyncInv, [Next]_vars
             PROVE  KeptInv' /\ FirstInv' /\ AgreeInv' /\ SyncInv'
  OBVIOUS
<1>1. CASE Process
  BY <1>1, ProcessAgrees
<1>2. CASE \E n \in PushSizes : push(n)
  BY <1>2, PushAgrees
<1>3. CASE finish
  BY <1>3, FinishAgrees
<1>4. CASE Drain
  BY <1>4, DrainAgrees
<1>5. CASE \E w \in Again : reset(w)
  BY <1>5, ResetAgrees
<1>6. CASE UNCHANGED vars
  <2>1. UNCHANGED <<inputVars, outputVars, callerVars, flags, state, frame, decoded_a_frame,
                    call, result, failed>>
    BY <1>6 DEF vars
  <2>2. UNCHANGED <<options, wire, pushed, stream_start, streams, received_input, finished_input>>
    BY <2>1 DEF callerVars, flags
  <2>3. UNCHANGED StreamOutput
    BY <2>1, <2>2, QuietOutput
  <2>4. UNCHANGED <<finish_status, stream_input_pos>>
    BY <2>1, <2>2 DEF finish_status, stream_input_pos, inputVars
  <2>5. pushed' \in Int /\ pushed <= pushed'
    BY <2>2, PushedIs DEF StreamInv
  <2>6. AgreeInv'
    BY <2>1, <2>2, <2>3, <2>4, AgreeStays
  <2>7. SyncInv'
    BY <2>1, <2>2, <2>3, <2>4, <2>5, SyncStays
  <2> QED BY <2>1, <2>2, <2>6, <2>7 DEF KeptInv, FirstInv, outputVars
<1> QED BY <1>1, <1>2, <1>3, <1>4, <1>5, <1>6 DEF Next

\* They begin so.
LEMMA AgreeInit == Init => KeptInv /\ FirstInv /\ AgreeInv /\ SyncInv
<1> SUFFICES ASSUME Init PROVE KeptInv /\ FirstInv /\ AgreeInv /\ SyncInv
  OBVIOUS
<1>1. /\ pushed = 0 /\ stream_start = 0 /\ streams = 1
      /\ output = << >> /\ output_pos = 0 /\ delivered = << >>
      /\ state = FrameHeaderState /\ frame = NoFrame /\ finished_input = FALSE
      /\ call = "idle" /\ failed = FALSE
  BY DEF Init
<1>2. At(0) /\ 0 \in 0..Len(wire) /\ decoded_a_frame = FALSE
  BY InitAt
<1>3. InputInv /\ BufferInv
  BY StreamInit DEF StreamInv
<1>4. Len(<< >>) = 0 /\ SubSeq(<< >>, 1, 0) = << >> /\ << >> \o << >> = << >> /\ Listed(<< >>)
  BY NoneListed, WholeCut, NoneJoined
<1>5. KeptInv
  BY <1>1, <1>4 DEF KeptInv, Delivers
<1>6. Produced = << >>
  BY <1>1, <1>4, NoneLeft DEF Produced, Pending
<1>7. ~frame.open /\ state.tag = "FrameHeader"
  BY <1>1 DEF NoFrame, FrameHeaderState
<1>8. Fresh
  BY <1>1, <1>2, <1>3, <1>4, <1>6, <1>7 DEF Fresh
<1>9. FirstInv
  BY <1>1 DEF FirstInv
<1> QED BY <1>5, <1>8, <1>9, FreshAgrees

\* The abstract window's invariant holds of the decoder's buffer.
LEMMA WindowStands == Spec => []Window!IInv
<1>1. Spec => Window!Spec
  BY ImplementsWindow, SameWindow, PTL DEF ImplementsOutputWindow, AbstractWindow!Spec, Window!Spec
<1> QED BY <1>1, Window!InductiveInvariant, WindowAssumption, PTL

\* However the stream is cut into pushes, drained, finished and reset, the two decoders
\* stay side by side.
LEMMA AgreeHolds ==
  ASSUME NothingBehindEmpties PROVE Spec => [](StreamInv /\ CapInv /\ AgreeInv)
<1>1. Spec => [](StreamInv /\ CapInv)
  BY StreamInit, CapInit, StreamNext, CapNext, PTL DEF Spec
<1>2. StreamInv' => StateInv'
  BY DEF StreamInv
<1>3. Spec => [](PosInv /\ LengthInv)
  BY <1>1, <1>2, PlaceInit, PlaceNext, PTL DEF Spec
<1>4. /\ StreamInv /\ StreamInv' /\ PosInv /\ CapInv /\ CapInv' /\ LengthInv /\ Window!IInv
      /\ KeptInv /\ FirstInv /\ AgreeInv /\ SyncInv /\ [Next]_vars
      => KeptInv' /\ FirstInv' /\ AgreeInv' /\ SyncInv'
  BY AgreeNext
<1> QED BY <1>1, <1>3, <1>4, AgreeInit, WindowStands, PTL DEF Spec

\* Between calls the stream has produced exactly what the one-shot decoder makes of the
\* input so far, or a beginning of that where an earlier stream's leftovers count against
\* its cap.
THEOREM StreamsMatch ==
  ASSUME NothingBehindEmpties PROVE Spec => []StreamMatchesOneShot
<1>1. StreamInv /\ CapInv /\ AgreeInv => StreamMatchesOneShot
  <2> SUFFICES ASSUME StreamInv, CapInv, AgreeInv, call = "idle"
               PROVE  IF Comparable THEN StreamOutput = Reference.out
                      ELSE IsPrefix(StreamOutput, Reference.out)
    BY DEF StreamMatchesOneShot
  <2>1. CASE failed
    BY <2>1 DEF AgreeInv, FailedAlike
  <2>2. CASE ~failed
    <3>1. StreamOutput = Reference.out
      BY <2>2 DEF AgreeInv, RestAlike
    <3>2. IsPrefix(StreamOutput, StreamOutput)
      BY OutputListed, BeginsItself DEF StreamInv
    <3> QED BY <3>1, <3>2
  <2> QED BY <2>1, <2>2
<1> QED BY <1>1, AgreeHolds, PTL

\* A push fails with the one-shot decoder's error, and a finished stream is in error exactly
\* when the one-shot decoder is.
THEOREM VerdictsMatch ==
  ASSUME NothingBehindEmpties PROVE Spec => []VerdictMatchesOneShot
<1>1. AgreeInv => VerdictMatchesOneShot
  BY DEF AgreeInv, FailedAlike, RestAlike, VerdictMatchesOneShot
<1> QED BY <1>1, AgreeHolds, PTL

=============================================================================
