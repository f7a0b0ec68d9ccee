------------------------- MODULE StreamDecoderProofs -------------------------
(***************************************************************************)
(* Whatever streams the decoder is given, however they are cut into pushes *)
(* and drained, and whatever in them is broken: StreamDecoder implements   *)
(* OutputWindow, so its output buffer does only what the abstract one may; *)
(* it keeps its cap; and a decoder of one frame reports exactly that frame *)
(* as consumed.                                                            *)
(***************************************************************************)
EXTENDS StreamDecoder, NaturalsInduction, SequenceTheorems, WellFoundedInduction, TLAPS

-----------------------------------------------------------------------------
\* Sequences, whatever they hold.

Listed(s) == \E S : s \in Seq(S)

\* Joining two lists lists both, and adds up their lengths.
LEMMA ListsJoin ==
  ASSUME NEW a, NEW b, Listed(a), Listed(b)
  PROVE  /\ Listed(a \o b) /\ Len(a) \in Nat /\ Len(b) \in Nat
         /\ Len(a \o b) = Len(a) + Len(b)
<1>1. PICK S : a \in Seq(S)
  BY DEF Listed
<1>2. PICK T : b \in Seq(T)
  BY DEF Listed
<1>3. a \in Seq(S \cup T) /\ b \in Seq(S \cup T)
  BY <1>1, <1>2
<1>4. a \o b \in Seq(S \cup T) /\ Len(a \o b) = Len(a) + Len(b)
  BY <1>3, ConcatProperties
<1> QED BY <1>1, <1>2, <1>4 DEF Listed

\* A part of a list is one, as long as its bounds say.
LEMMA ListsCut ==
  ASSUME NEW s, Listed(s), NEW m \in 1..(Len(s) + 1), NEW n \in (m - 1)..Len(s)
  PROVE  Listed(SubSeq(s, m, n)) /\ Len(SubSeq(s, m, n)) = n - m + 1 /\ Len(s) \in Nat
<1>1. PICK S : s \in Seq(S)
  BY DEF Listed
<1>2. Len(s) \in Nat /\ n \in Int /\ m \in Int
  BY <1>1
<1>3. SubSeq(s, m, n) \in Seq(S)
  <2>1. \A i \in m..n : s[i] \in S
    BY <1>1, <1>2
  <2> QED BY <1>1, <1>2, <2>1
<1>4. Len(SubSeq(s, m, n)) = n - m + 1
  BY <1>1, <1>2
<1> QED BY <1>2, <1>3, <1>4 DEF Listed

\* A function over 1..n is a list of n.
LEMMA ListsMade ==
  ASSUME NEW f, NEW n \in Nat, f = [i \in 1..n |-> f[i]]
  PROVE  Listed(f) /\ Len(f) = n
<1>1. PICK S : S = {f[i] : i \in 1..n}
  OBVIOUS
<1>2. f \in [1..n -> S]
  BY <1>1
<1> QED BY <1>2 DEF Listed

\* The empty list.
LEMMA NoneListed == Listed(<< >>) /\ Len(<< >>) = 0
BY DEF Listed

\* A nonempty set of naturals has a least member.
LEMMA LeastOf ==
  ASSUME NEW S \in SUBSET Nat, S # {}
  PROVE  \E n \in S : \A m \in S : n <= m
<1>1. PICK n \in S : \A m \in S : ~(<<m, n>> \in OpToRel(<, Nat))
  BY Zenon, NatLessThanWellFounded, WFMin
<1>2. \A m \in S : ~(m < n)
  BY <1>1 DEF OpToRel
<1> QED BY <1>2

-----------------------------------------------------------------------------
\* What a block may append.

Triples == Nat \X Nat \X Nat

\* A history stays one of three naturals.
LEMMA OffsetsStay ==
  ASSUME NEW r \in Triples, NEW ll0 \in BOOLEAN, NEW value \in Nat
  PROVE  /\ execute_offset(r, ll0, value).offset \in Nat
         /\ execute_offset(r, ll0, value).reps \in Triples
<1>1. PICK a \in Nat, b \in Nat, c \in Nat : r = <<a, b, c>>
  BY DEF Triples
<1>2. CASE value > 3
  BY <1>1, <1>2 DEF execute_offset, Triples
<1>3. CASE ~(value > 3)
  BY <1>1, <1>3 DEF execute_offset, resolve_rep_offset_decode, BadOffset, Triples
<1> QED BY <1>2, <1>3

\* made is a list n longer than out.
Longer(out, n, made) == Listed(made) /\ Len(made) = Len(out) + n

\* A match is as long as it is asked to be.
LEMMA MatchLength ==
  ASSUME NEW out, Listed(out), NEW from, NEW n \in Nat
  PROVE  /\ Listed(append_match_from_history(out, from, n))
         /\ Len(append_match_from_history(out, from, n)) = Len(out) + n
<1>1. PICK f : f = [i \in 1..n |-> out[from + 1 + ((i - 1) % (Len(out) - from))]]
  OBVIOUS
<1>2. Listed(f) /\ Len(f) = n
  <2>1. f = [i \in 1..n |-> f[i]]
    BY <1>1
  <2> QED BY <2>1, ListsMade
<1>3. append_match_from_history(out, from, n) = out \o f
  BY <1>1 DEF append_match_from_history
<1> QED BY <1>2, <1>3, ListsJoin

\* A distance that the dictionary and what is held of the frame cover.
Covered(dictionary, out, frame_start, offset) ==
  offset <= Len(dictionary) + (Len(out) - frame_start)

\* So is a match that begins in the dictionary (append_match_from_dictionary_history).
LEMMA DictionaryMatchLength ==
  ASSUME NEW out, Listed(out), NEW frame_start \in Int, NEW dictionary \in Seq(Nat),
         NEW offset \in Nat, NEW n \in Nat,
         Covered(dictionary, out, frame_start, offset)
  PROVE  Longer(out, n,
                append_match_from_dictionary_history(out, frame_start, dictionary, offset, n))
<1>1. PICK l \in Nat : l = Len(out)
  BY ListsJoin
<1>2. PICK dl \in Nat : dl = Len(dictionary)
  OBVIOUS
<1>3. PICK at \in Nat : at = dl + (l - frame_start) - offset
  <2>1. dl + (l - frame_start) - offset \in Nat
    BY <1>1, <1>2 DEF Covered
  <2> QED BY <2>1
<1>4. CASE at < dl
  <2>1. PICK chunk \in Nat : chunk = Least(dl - at, n) /\ chunk <= n /\ at + chunk <= dl
    <3>1. Least(dl - at, n) \in Nat /\ Least(dl - at, n) <= n /\ at + Least(dl - at, n) <= dl
      BY <1>4 DEF Least
    <3> QED BY <3>1
  <2>2. PICK piece : piece = SubSeq(dictionary, at + 1, at + chunk)
    OBVIOUS
  <2>3. Listed(piece) /\ Len(piece) = chunk
    <3>1. Listed(dictionary) /\ at + 1 \in 1..(Len(dictionary) + 1)
          /\ at + chunk \in ((at + 1) - 1)..Len(dictionary)
      BY <1>2, <1>4, <2>1 DEF Listed
    <3>2. PICK i, j : i = at + 1 /\ j = at + chunk
      OBVIOUS
    <3>3. Listed(SubSeq(dictionary, i, j)) /\ Len(SubSeq(dictionary, i, j)) = j - i + 1
      <4>1. i \in 1..(Len(dictionary) + 1) /\ j \in (i - 1)..Len(dictionary)
        BY <3>1, <3>2
      <4> QED BY <3>1, <4>1, ListsCut
    <3>4. j - i + 1 = chunk
      BY <3>2
    <3> QED BY <2>2, <3>2, <3>3, <3>4
  <2>4. PICK head : head = out \o piece
    OBVIOUS
  <2>5. Listed(head) /\ Len(head) = l + chunk
    BY <1>1, <2>3, <2>4, ListsJoin
  <2>6. append_match_from_dictionary_history(out, frame_start, dictionary, offset, n)
          = IF n = chunk THEN head ELSE append_match_from_history(head, frame_start, n - chunk)
    BY <1>1, <1>2, <1>3, <1>4, <2>1, <2>2, <2>4 DEF append_match_from_dictionary_history
  <2>7. CASE n = chunk
    BY <1>1, <2>5, <2>6, <2>7 DEF Longer
  <2>8. CASE n # chunk
    <3>1. PICK k \in Nat : k = n - chunk
      BY <2>1
    <3>2. Listed(append_match_from_history(head, frame_start, k))
          /\ Len(append_match_from_history(head, frame_start, k)) = Len(head) + k
      BY <2>5, MatchLength
    <3>3. append_match_from_dictionary_history(out, frame_start, dictionary, offset, n)
            = append_match_from_history(head, frame_start, k)
      BY <2>6, <2>8, <3>1
    <3>4. Len(head) + k = l + n
      BY <2>5, <3>1
    <3> QED BY <1>1, <3>2, <3>3, <3>4 DEF Longer
  <2> QED BY <2>7, <2>8
<1>5. CASE ~(at < dl)
  <2>1. append_match_from_dictionary_history(out, frame_start, dictionary, offset, n)
          = append_match_from_history(out, frame_start + at - dl, n)
    BY <1>1, <1>2, <1>3, <1>5 DEF append_match_from_dictionary_history
  <2> QED BY <2>1, MatchLength DEF Longer
<1> QED BY <1>4, <1>5

\* The block a loop of sequences belongs to.
GoodBlk(blk) ==
  /\ blk.start \in Nat /\ blk.frame_start \in Int
  /\ blk.window_size \in Nat /\ blk.block_size_max \in Nat
  /\ Listed(blk.literals)
  /\ blk.dictionary.present \in BOOLEAN
  /\ blk.dictionary.present => blk.dictionary.content \in Seq(Nat)
  /\ blk.limit.produced_before \in Nat /\ blk.limit.max_output_size \in Nat \cup {None}

\* l bytes of buffer are what the block's limits allow.
Allowed(blk, l) ==
  /\ l \in Nat /\ l >= blk.start /\ l - blk.start <= blk.block_size_max
  /\ l = blk.start \/ ~OverCap(blk.limit, l)

\* What the loop carries: nothing is written that the limits forbid, and what is visible
\* is part of it.
GoodAcc(blk, acc) ==
  /\ acc = [out |-> acc.out, reps |-> acc.reps, cursor |-> acc.cursor,
            visible |-> acc.visible, result |-> acc.result]
  /\ Listed(acc.out) /\ Allowed(blk, Len(acc.out))
  /\ acc.result = "Ok" => ~OverCap(blk.limit, Len(acc.out))
  /\ acc.reps \in Triples
  /\ acc.cursor \in Nat /\ acc.cursor <= Len(blk.literals)
  /\ acc.visible \in Nat /\ blk.start <= acc.visible /\ acc.visible <= Len(acc.out)

\* A budget that is not broken.
LEMMA BudgetKept ==
  ASSUME NEW blk, GoodBlk(blk), NEW out, Listed(out), Allowed(blk, Len(out)), NEW n \in Nat,
         BudgetError(blk, out, n) = "Ok"
  PROVE  Allowed(blk, Len(out) + n) /\ ~OverCap(blk.limit, Len(out) + n)
<1>1. PICK l \in Nat : l = Len(out)
  BY DEF Allowed
<1>2. l - blk.start + n <= blk.block_size_max /\ ~OverCap(blk.limit, l + n)
  BY <1>1 DEF BudgetError, GoodBlk
<1> QED BY <1>1, <1>2 DEF Allowed, GoodBlk

\* One sequence keeps to the limits.
LEMMA SequenceKeeps ==
  ASSUME NEW blk, GoodBlk(blk), NEW acc, GoodAcc(blk, acc),
         NEW s \in [ll : Nat, ml : Nat, value : Nat]
  PROVE  GoodAcc(blk, execute_sequence(blk, acc, s))
<1>1. PICK ll \in Nat, ml \in Nat : ll = s.ll /\ ml = s.ml
  OBVIOUS
<1>2. PICK cursor \in Nat : cursor = acc.cursor + ll
  BY <1>1 DEF GoodAcc
<1>3. PICK resolved : resolved = execute_offset(acc.reps, s.ll = 0, s.value)
  OBVIOUS
<1>4. resolved.offset \in Nat /\ resolved.reps \in Triples
  <2>1. acc.reps \in Triples /\ (s.ll = 0) \in BOOLEAN /\ s.value \in Nat
    BY DEF GoodAcc
  <2> QED BY <1>3, <2>1, OffsetsStay
<1>5. PICK offset \in Nat : offset = resolved.offset
  BY <1>4
<1>6. PICK copied : copied = acc.out \o SubSeq(blk.literals, acc.cursor + 1, cursor)
  OBVIOUS
<1>7. PICK dict_len :
        dict_len = IF blk.dictionary.present THEN Len(blk.dictionary.content) ELSE None
  OBVIOUS
<1>8. PICK source : source = IF offset = BadOffset THEN "corrupt"
                             ELSE match_source(Len(copied) - blk.frame_start, blk.window_size,
                                               dict_len, offset)
  OBVIOUS
<1>9. PICK served : served = append_match_from_dictionary_history(
                      copied, blk.frame_start, blk.dictionary.content, offset, ml)
  OBVIOUS
<1>10. PICK near : near = append_match_from_history(copied, Len(copied) - offset, ml)
  OBVIOUS
<1>11. PICK budget : budget = BudgetError(blk, acc.out, ll + ml)
  OBVIOUS
<1>12. PICK next : next = execute_sequence(blk, acc, s)
  OBVIOUS
<1>13. next = IF acc.result # "Ok" THEN acc
              ELSE IF cursor > Len(blk.literals) THEN [acc EXCEPT !.result = "Corruption"]
              ELSE IF budget # "Ok" THEN [acc EXCEPT !.result = budget]
              ELSE CASE source = "buffer" ->
                          [acc EXCEPT !.out = near, !.reps = resolved.reps, !.cursor = cursor]
                     [] source = "dictionary" ->
                          [[acc EXCEPT !.out = served, !.reps = resolved.reps, !.cursor = cursor]
                             EXCEPT !.visible = Len(served)]
                     [] source = "corrupt" -> [acc EXCEPT !.result = "Corruption"]
  BY <1>1, <1>2, <1>3, <1>5, <1>6, <1>7, <1>8, <1>9, <1>10, <1>11, <1>12 DEF execute_sequence
<1>14. source \in {"buffer", "corrupt", "dictionary"}
  BY <1>8 DEF match_source
<1>15. ASSUME NEW e, e # "Ok" PROVE GoodAcc(blk, [acc EXCEPT !.result = e])
  <2>1. PICK b : b = [acc EXCEPT !.result = e]
    OBVIOUS
  <2>2. b = [out |-> acc.out, reps |-> acc.reps, cursor |-> acc.cursor,
             visible |-> acc.visible, result |-> e]
    BY <2>1 DEF GoodAcc
  <2>3. GoodAcc(blk, b)
    BY <1>15, <2>2 DEF GoodAcc
  <2> QED BY <2>1, <2>3
<1>16. CASE acc.result # "Ok"
  BY <1>12, <1>13, <1>16
<1>17. CASE acc.result = "Ok" /\ cursor > Len(blk.literals)
  BY ZenonT(30), <1>12, <1>13, <1>15, <1>17
<1>18. CASE acc.result = "Ok" /\ ~(cursor > Len(blk.literals)) /\ budget # "Ok"
  BY SMTT(30), <1>12, <1>13, <1>15, <1>18
<1>19. CASE acc.result = "Ok" /\ ~(cursor > Len(blk.literals)) /\ budget = "Ok"
  <2>1. PICK l \in Nat : l = Len(acc.out)
    BY DEF GoodAcc, Allowed
  <2>2. Allowed(blk, l + (ll + ml)) /\ ~OverCap(blk.limit, l + (ll + ml))
    <3>1. ll + ml \in Nat /\ Listed(acc.out) /\ Allowed(blk, Len(acc.out))
      BY DEF GoodAcc
    <3> QED BY <1>11, <1>19, <2>1, <3>1, BudgetKept
  <2>3. Listed(copied) /\ Len(copied) = l + ll
    <3>0. PICK i \in Nat : i = acc.cursor + 1
      <4>1. acc.cursor + 1 \in Nat
        BY DEF GoodAcc
      <4> QED BY <4>1
    <3>1. PICK piece : piece = SubSeq(blk.literals, i, cursor)
      OBVIOUS
    <3>2. Listed(blk.literals) /\ Len(blk.literals) \in Nat /\ acc.cursor \in Nat
          /\ acc.cursor <= Len(blk.literals)
      BY ListsJoin DEF GoodBlk, GoodAcc
    <3>3. i \in 1..(Len(blk.literals) + 1) /\ cursor \in (i - 1)..Len(blk.literals)
      <4>1. PICK m \in Nat, c \in Nat : m = Len(blk.literals) /\ c = acc.cursor
        BY <3>2
      <4>2. cursor = c + ll /\ i = c + 1
        BY <1>2, <3>0, <4>1
      <4>4. c <= m
        BY <3>2, <4>1
      <4>5. cursor <= m
        BY <1>2, <1>19, <4>1
      <4>3. i \in 1..(m + 1) /\ cursor \in (i - 1)..m
        BY SMTT(30), <1>1, <1>2, <4>1, <4>2, <4>4, <4>5
      <4> QED BY <4>1, <4>3
    <3>4. Listed(piece) /\ Len(piece) = cursor - i + 1
      BY <3>1, <3>2, <3>3, ListsCut
    <3>5. Len(piece) = ll
      <4>1. PICK c \in Nat : c = acc.cursor
        BY <3>2
      <4>2. cursor = c + ll /\ i = c + 1
        BY <1>2, <3>0, <4>1
      <4>3. cursor - i + 1 = ll
        BY <1>1, <1>2, <3>0, <4>1, <4>2
      <4> QED BY <3>4, <4>3
    <3> QED BY <1>6, <2>1, <3>0, <3>1, <3>4, <3>5, ListsJoin DEF GoodAcc
  <2>4. ASSUME NEW out, Listed(out), Len(out) = l + (ll + ml), NEW visible \in Nat,
               acc.visible <= visible, visible <= Len(out)
        PROVE  GoodAcc(blk, [out |-> out, reps |-> resolved.reps, cursor |-> cursor,
                             visible |-> visible, result |-> acc.result])
    <3>1. PICK b : b = [out |-> out, reps |-> resolved.reps, cursor |-> cursor,
                        visible |-> visible, result |-> acc.result]
      OBVIOUS
    <3>2. /\ b.out = out /\ b.reps = resolved.reps /\ b.cursor = cursor
          /\ b.visible = visible /\ b.result = acc.result
          /\ b = [out |-> b.out, reps |-> b.reps, cursor |-> b.cursor,
                  visible |-> b.visible, result |-> b.result]
      BY <3>1
    <3>3. cursor <= Len(blk.literals)
      <4>1. Len(blk.literals) \in Nat
        BY ListsJoin DEF GoodBlk
      <4> QED BY <1>19, <4>1
    <3>4. blk.start <= visible
      BY SMTT(30), <2>4 DEF GoodAcc, GoodBlk
    <3>5. GoodAcc(blk, b)
      BY <1>4, <2>2, <2>4, <3>2, <3>3, <3>4 DEF GoodAcc
    <3> QED BY <3>1, <3>5
  <2>5. acc.visible \in Nat /\ acc.visible <= l
    BY <2>1 DEF GoodAcc
  <2>6. CASE source = "buffer"
    <3>1. Listed(near) /\ Len(near) = l + (ll + ml)
      <4>1. Listed(near) /\ Len(near) = Len(copied) + ml
        BY <1>10, <2>3, MatchLength
      <4> QED BY <2>3, <4>1
    <3>2. next = [out |-> near, reps |-> resolved.reps, cursor |-> cursor,
                  visible |-> acc.visible, result |-> acc.result]
      BY <1>13, <1>19, <2>6 DEF GoodAcc
    <3>3. acc.visible <= Len(near)
      BY <2>5, <3>1
    <3> QED BY <1>12, <2>4, <2>5, <3>1, <3>2, <3>3
  <2>7. CASE source = "dictionary"
    <3>1. Listed(served) /\ Len(served) = l + (ll + ml)
      <4>0. PICK content : content = blk.dictionary.content
        OBVIOUS
      <4>1. PICK held \in Int, from \in Int :
              held = Len(copied) - from /\ from = blk.frame_start
        <5>1. Len(copied) - blk.frame_start \in Int /\ blk.frame_start \in Int
          BY <1>1, <2>1, <2>3 DEF GoodBlk
        <5> QED BY <5>1
      <4>2. match_source(held, blk.window_size, dict_len, offset) = "dictionary"
        BY <1>8, <2>7, <4>1
      <4>3. dict_len # None /\ ~(offset > dict_len + held)
        BY <4>2 DEF match_source
      <4>4. /\ dict_len = Len(content) /\ content \in Seq(Nat)
        BY <1>7, <4>0, <4>3 DEF GoodBlk
      <4>5. Covered(content, copied, from, offset)
        <5>1. PICK n \in Nat : n = Len(content)
          BY <4>4
        <5> QED BY SMTT(30), <1>5, <4>1, <4>3, <4>4, <5>1 DEF Covered
      <4>6. Longer(copied, ml,
                   append_match_from_dictionary_history(copied, from, content, offset, ml))
        <5>1. /\ Listed(copied) /\ from \in Int /\ content \in Seq(Nat)
              /\ offset \in Nat /\ ml \in Nat
          BY <1>1, <1>5, <2>3, <4>1, <4>4
        <5> QED BY <4>5, <5>1, DictionaryMatchLength
      <4>7. Listed(served) /\ Len(served) = Len(copied) + ml
        BY <1>9, <4>0, <4>1, <4>6 DEF Longer
      <4> QED BY <1>1, <2>1, <2>3, <4>7
    <3>2. next = [out |-> served, reps |-> resolved.reps, cursor |-> cursor,
                  visible |-> Len(served), result |-> acc.result]
      BY <1>13, <1>19, <2>7 DEF GoodAcc
    <3>3. Len(served) \in Nat /\ acc.visible <= Len(served)
      BY <2>5, <3>1
    <3> QED BY <1>12, <2>4, <3>1, <3>2, <3>3
  <2>8. CASE source = "corrupt"
    <3>1. next = [acc EXCEPT !.result = "Corruption"]
      BY <1>13, <1>19, <2>8
    <3> QED BY <1>12, <1>15, <3>1
  <2> QED BY <1>14, <2>6, <2>7, <2>8
<1> QED BY <1>16, <1>17, <1>18, <1>19

\* And so do the literals behind the last.
LEMMA TrailingKeeps ==
  ASSUME NEW blk, GoodBlk(blk), NEW acc, GoodAcc(blk, acc), NEW sound \in BOOLEAN
  PROVE  GoodAcc(blk, append_trailing_literals(blk, acc, sound))
<1>1. PICK trailing : trailing = SubSeq(blk.literals, acc.cursor + 1, Len(blk.literals))
  OBVIOUS
<1>2. Listed(trailing) /\ Len(trailing) \in Nat
  <2>1. PICK i, j : i = acc.cursor + 1 /\ j = Len(blk.literals)
    OBVIOUS
  <2>2. Listed(blk.literals) /\ j \in Nat /\ acc.cursor \in Nat /\ acc.cursor <= j
    BY <2>1, ListsJoin DEF GoodBlk, GoodAcc
  <2>3. i \in 1..(Len(blk.literals) + 1) /\ j \in (i - 1)..Len(blk.literals)
    BY <2>1, <2>2
  <2>4. Listed(SubSeq(blk.literals, i, j))
    BY <2>2, <2>3, ListsCut
  <2> QED BY <1>1, <2>1, <2>4, ListsJoin
<1>3. PICK all : all = acc.out \o trailing
  OBVIOUS
<1>4. PICK budget : budget = BudgetError(blk, acc.out, Len(trailing))
  OBVIOUS
<1>5. PICK l \in Nat : l = Len(acc.out)
  BY DEF GoodAcc, Allowed
<1>6. PICK next : next = append_trailing_literals(blk, acc, sound)
  OBVIOUS
<1>7. next = IF acc.result # "Ok" THEN acc
             ELSE IF ~sound THEN [[acc EXCEPT !.visible = l] EXCEPT !.result = "Corruption"]
             ELSE IF budget # "Ok" THEN [[acc EXCEPT !.visible = l] EXCEPT !.result = budget]
             ELSE [[acc EXCEPT !.visible = l] EXCEPT !.out = all, !.visible = Len(all)]
  BY <1>1, <1>3, <1>4, <1>5, <1>6 DEF append_trailing_literals
<1>8. ASSUME NEW b, NEW out, Listed(out), NEW e,
             b = [out |-> out, reps |-> acc.reps, cursor |-> acc.cursor,
                  visible |-> Len(out), result |-> e],
             Allowed(blk, Len(out)), e = "Ok" => ~OverCap(blk.limit, Len(out))
      PROVE  GoodAcc(blk, b)
  <2>1. /\ b.out = out /\ b.reps = acc.reps /\ b.cursor = acc.cursor
        /\ b.visible = Len(out) /\ b.result = e
        /\ b = [out |-> b.out, reps |-> b.reps, cursor |-> b.cursor,
                visible |-> b.visible, result |-> b.result]
    BY <1>8
  <2>2. Len(out) \in Nat /\ blk.start <= Len(out)
    BY <1>8 DEF Allowed, GoodBlk
  <2> QED BY <1>8, <2>1, <2>2 DEF GoodAcc
<1>9. CASE acc.result # "Ok"
  BY <1>6, <1>7, <1>9
<1>10. ASSUME NEW e, e # "Ok", next = [[acc EXCEPT !.visible = l] EXCEPT !.result = e]
       PROVE  GoodAcc(blk, next)
  <2>1. next = [out |-> acc.out, reps |-> acc.reps, cursor |-> acc.cursor,
                visible |-> Len(acc.out), result |-> e]
    BY <1>5, <1>10 DEF GoodAcc
  <2>2. Listed(acc.out) /\ Allowed(blk, Len(acc.out))
    BY DEF GoodAcc
  <2> QED BY <1>8, <1>10, <2>1, <2>2
<1>11. CASE acc.result = "Ok" /\ ~sound
  BY <1>6, <1>7, <1>10, <1>11
<1>12. CASE acc.result = "Ok" /\ sound /\ budget # "Ok"
  BY <1>6, <1>7, <1>10, <1>12
<1>13. CASE acc.result = "Ok" /\ sound /\ budget = "Ok"
  <2>1. Listed(all) /\ Len(all) = Len(acc.out) + Len(trailing)
    BY <1>2, <1>3, ListsJoin DEF GoodAcc
  <2>2. Allowed(blk, Len(all)) /\ ~OverCap(blk.limit, Len(all))
    <3>1. Listed(acc.out) /\ Allowed(blk, Len(acc.out))
      BY DEF GoodAcc
    <3> QED BY <1>2, <1>4, <1>13, <2>1, <3>1, BudgetKept
  <2>3. next = [out |-> all, reps |-> acc.reps, cursor |-> acc.cursor,
                visible |-> Len(all), result |-> "Ok"]
    BY <1>7, <1>13 DEF GoodAcc
  <2> QED BY <1>6, <1>8, <2>1, <2>2, <2>3
<1> QED BY <1>9, <1>11, <1>12, <1>13

\* What the loop of decode_and_execute_sequences carries after each of the first k sequences.
Runs(blk, start, seqs, k, f) ==
  f = [i \in 0..k |-> IF i = 0 THEN start ELSE execute_sequence(blk, f[i - 1], seqs[i])]

\* Every sequence of the block has its place in a run.
LEMMA RunsExist ==
  ASSUME NEW blk, NEW start, NEW seqs, NEW n \in Nat
  PROVE  \E f : Runs(blk, start, seqs, n, f)
<1> DEFINE Bad == {k \in Nat : ~ \E f : Runs(blk, start, seqs, k, f)}
<1>1. SUFFICES ASSUME Bad # {} PROVE FALSE
  OBVIOUS
<1>2. PICK k \in Bad : \A j \in Bad : k <= j
  <2>1. Bad \in SUBSET Nat
    OBVIOUS
  <2> HIDE DEF Bad
  <2> QED BY <1>1, <2>1, LeastOf
<1>3. CASE k = 0
  <2>1. PICK f : f = [i \in 0..0 |-> start]
    OBVIOUS
  <2>2. f = [i \in 0..0 |-> IF i = 0 THEN start ELSE execute_sequence(blk, f[i - 1], seqs[i])]
    BY <2>1
  <2>3. Runs(blk, start, seqs, k, f)
    BY <1>3, <2>2 DEF Runs
  <2> QED BY <1>2, <2>3
<1>4. CASE k # 0
  <2>1. PICK j \in Nat : k = j + 1
    <3>1. k - 1 \in Nat /\ k = (k - 1) + 1
      BY <1>2, <1>4
    <3> QED BY <3>1
  <2>2. PICK f : Runs(blk, start, seqs, j, f)
    BY <1>2, <2>1
  <2>3. PICK g : g = [i \in 0..k |-> IF i \in 0..j THEN f[i]
                                     ELSE execute_sequence(blk, f[j], seqs[k])]
    OBVIOUS
  <2>4. /\ \A i \in 0..j : g[i] = f[i]
        /\ \A i \in 0..j : f[i] = IF i = 0 THEN start
                                  ELSE execute_sequence(blk, f[i - 1], seqs[i])
        /\ g[k] = execute_sequence(blk, f[j], seqs[k])
    BY <2>1, <2>2, <2>3 DEF Runs
  <2>5. ASSUME NEW i \in 0..k
        PROVE  g[i] = IF i = 0 THEN start ELSE execute_sequence(blk, g[i - 1], seqs[i])
    <3>1. CASE i = 0
      <4>1. 0 \in 0..j
        BY <2>1
      <4> QED BY <2>4, <3>1, <4>1
    <3>2. CASE i # 0 /\ i \in 0..j
      <4>1. i - 1 \in 0..j
        BY <2>1, <3>2
      <4>2. g[i] = f[i] /\ g[i - 1] = f[i - 1]
        BY <2>4, <3>2, <4>1
      <4>3. f[i] = execute_sequence(blk, f[i - 1], seqs[i])
        BY <2>4, <3>2
      <4> QED BY <3>2, <4>2, <4>3
    <3>3. CASE i = k
      <4>1. k - 1 = j /\ j \in 0..j /\ k # 0
        BY <2>1
      <4>2. g[j] = f[j]
        BY <2>4, <4>1
      <4> QED BY <2>4, <3>3, <4>1, <4>2
    <3> QED BY <2>1, <3>1, <3>2, <3>3
  <2>6. g = [i \in 0..k |-> g[i]]
    BY <2>3
  <2>7. g = [i \in 0..k |-> IF i = 0 THEN start ELSE execute_sequence(blk, g[i - 1], seqs[i])]
    BY <2>5, <2>6
  <2>8. Runs(blk, start, seqs, k, g)
    BY <2>7 DEF Runs
  <2> QED BY <1>2, <2>8
<1> QED BY <1>3, <1>4

\* Any number of sequences keep to the limits.
LEMMA SequencesKeep ==
  ASSUME NEW blk, GoodBlk(blk), NEW start, GoodAcc(blk, start), NEW seqs, NEW n \in Nat,
         \A i \in 1..n : seqs[i] \in [ll : Nat, ml : Nat, value : Nat],
         NEW f, Runs(blk, start, seqs, n, f)
  PROVE  GoodAcc(blk, f[n])
<1> DEFINE Bad == {k \in 0..n : ~ GoodAcc(blk, f[k])}
<1>1. SUFFICES ASSUME Bad # {} PROVE FALSE
  <2>1. n \in 0..n
    OBVIOUS
  <2> QED BY <1>1, <2>1
<1>2. PICK k \in Bad : \A j \in Bad : k <= j
  <2>1. Bad \in SUBSET Nat
    OBVIOUS
  <2> HIDE DEF Bad
  <2> QED BY <1>1, <2>1, LeastOf
<1>3. /\ f[0] = start
      /\ \A i \in 1..n : f[i] = execute_sequence(blk, f[i - 1], seqs[i])
  <2>1. \A i \in 0..n : f[i] = IF i = 0 THEN start ELSE execute_sequence(blk, f[i - 1], seqs[i])
    BY DEF Runs
  <2>2. 0 \in 0..n /\ \A i \in 1..n : i \in 0..n /\ i # 0
    OBVIOUS
  <2> QED BY <2>1, <2>2
<1>4. k # 0
  BY <1>2, <1>3
<1>5. k \in 1..n /\ k - 1 \in 0..n /\ ~(k <= k - 1)
  BY <1>2, <1>4
<1>6. GoodAcc(blk, f[k - 1])
  BY <1>2, <1>5
<1>7. GoodAcc(blk, execute_sequence(blk, f[k - 1], seqs[k]))
  BY <1>5, <1>6, SequenceKeeps
<1> QED BY <1>2, <1>3, <1>5, <1>7

\* What the executor makes of a block keeps the limits, trailing literals included.
LEMMA ExecutedKeeps ==
  ASSUME NEW blk, GoodBlk(blk), NEW out, Listed(out), Len(out) = blk.start,
         NEW reps \in Triples, NEW seqs, Len(seqs) \in Nat, NEW sound \in BOOLEAN,
         \A i \in 1..Len(seqs) : seqs[i] \in [ll : Nat, ml : Nat, value : Nat]
  PROVE  GoodAcc(blk, decode_and_execute_sequences(blk, out, reps, seqs, sound))
<1>1. PICK start : start = [out |-> out, reps |-> reps, cursor |-> 0, visible |-> Len(out),
                result |-> IF OverCap(blk.limit, Len(out)) THEN "OutputSizeTooLarge" ELSE "Ok"]
  OBVIOUS
<1>2. PICK n \in Nat : n = Len(seqs)
  OBVIOUS
<1>3. PICK run : run = CHOOSE f :
        f = [i \in 0..n |-> IF i = 0 THEN start ELSE execute_sequence(blk, f[i - 1], seqs[i])]
  OBVIOUS
<1>4. Runs(blk, start, seqs, n, run)
  <2>1. PICK g : Runs(blk, start, seqs, n, g)
    BY RunsExist
  <2>2. g = [i \in 0..n |-> IF i = 0 THEN start ELSE execute_sequence(blk, g[i - 1], seqs[i])]
    BY <2>1 DEF Runs
  <2>3. run = [i \in 0..n |-> IF i = 0 THEN start ELSE execute_sequence(blk, run[i - 1], seqs[i])]
    BY Zenon, <1>3, <2>2
  <2> QED BY <2>3 DEF Runs
<1>5. decode_and_execute_sequences(blk, out, reps, seqs, sound)
        = append_trailing_literals(blk, run[n], sound)
  BY <1>1, <1>2, <1>3 DEF decode_and_execute_sequences
<1>6. GoodAcc(blk, start)
  <2>1. /\ start.out = out /\ start.reps = reps /\ start.cursor = 0
        /\ start.visible = Len(out)
        /\ start.result = IF OverCap(blk.limit, Len(out)) THEN "OutputSizeTooLarge" ELSE "Ok"
        /\ start = [out |-> start.out, reps |-> start.reps, cursor |-> start.cursor,
                    visible |-> start.visible, result |-> start.result]
    BY <1>1
  <2>2. Allowed(blk, Len(out)) /\ Len(blk.literals) \in Nat
    BY ListsJoin DEF Allowed, GoodBlk
  <2> QED BY <2>1, <2>2 DEF GoodAcc, GoodBlk
<1>7. GoodAcc(blk, run[n])
  BY <1>2, <1>4, <1>6, SequencesKeep
<1> QED BY <1>5, <1>7, TrailingKeeps

\* The tables and offsets a frame of a decoder configured as o holds.
GoodEntropy(o, e) ==
  /\ e.repeat_offsets \in Triples
  /\ e.sequence_table = NoTable \/ e.sequence_table \in SequenceTables(o)

\* What a block decoder may make of a buffer out.
GoodOutcome(o, limit, size_max, out, d) ==
  /\ Listed(d.out) /\ Len(out) <= Len(d.out) /\ Len(d.out) - Len(out) <= size_max
  /\ Len(d.out) = Len(out) \/ ~OverCap(limit, Len(d.out))
  /\ d.result = "Ok" => ~OverCap(limit, Len(d.out)) /\ GoodEntropy(o, d.entropy)

Configured == {s.options : s \in Setups}

\* A block that appends nothing and fails.
LEMMA FailedOutcome ==
  ASSUME NEW o, NEW limit, NEW size_max \in Nat, NEW out, Listed(out), NEW entropy, NEW e, e # "Ok"
  PROVE  GoodOutcome(o, limit, size_max, out, Failed(e, out, entropy))
<1>1. Failed(e, out, entropy).out = out /\ Failed(e, out, entropy).result = e
  BY DEF Failed
<1> QED BY <1>1, ListsJoin DEF GoodOutcome

\* append_bytes.
LEMMA BytesOutcome ==
  ASSUME NEW o, NEW limit, NEW size_max \in Nat, NEW out, Listed(out), NEW bytes, Listed(bytes),
         Len(bytes) <= size_max, NEW entropy, GoodEntropy(o, entropy)
  PROVE  GoodOutcome(o, limit, size_max, out, append_bytes(bytes, limit, out, entropy))
<1>1. CASE OverCap(limit, Len(out) + Len(bytes))
  <2>1. append_bytes(bytes, limit, out, entropy) = Failed("OutputSizeTooLarge", out, entropy)
    BY <1>1 DEF append_bytes
  <2> QED BY <2>1, FailedOutcome
<1>2. CASE ~OverCap(limit, Len(out) + Len(bytes))
  <2>1. PICK all : all = out \o bytes
    OBVIOUS
  <2>2. PICK d : d = [result |-> "Ok", out |-> all, entropy |-> entropy]
    OBVIOUS
  <2>3. append_bytes(bytes, limit, out, entropy) = d
    BY <1>2, <2>1, <2>2 DEF append_bytes
  <2>4. d.out = all /\ d.entropy = entropy
    BY <2>2
  <2>5. Listed(all) /\ Len(all) = Len(out) + Len(bytes) /\ Len(out) \in Nat /\ Len(bytes) \in Nat
    BY <2>1, ListsJoin
  <2>6. ~OverCap(limit, Len(all))
    BY <1>2, <2>5
  <2>7. GoodOutcome(o, limit, size_max, out, d)
    BY <2>4, <2>5, <2>6 DEF GoodOutcome
  <2> QED BY <2>3, <2>7
<1> QED BY <1>1, <1>2

\* decode_compressed_block_into's end.
LEMMA CompressedEnds ==
  ASSUME NEW o, NEW blk, GoodBlk(blk), NEW acc, GoodAcc(blk, acc),
         NEW out, Listed(out), Len(out) = blk.start, NEW huffman_table, NEW entropy, NEW table,
         table = NoTable \/ table \in SequenceTables(o)
  PROVE  GoodOutcome(o, blk.limit, blk.block_size_max, out,
                     CompressedOutcome(acc, huffman_table, table, entropy))
<1>1. PICK l \in Nat : l = Len(acc.out)
  BY DEF GoodAcc, Allowed
<1>2. CASE acc.result # "Ok"
  <2>1. PICK v \in Nat : v = acc.visible /\ blk.start <= v /\ v <= l
    BY <1>1 DEF GoodAcc
  <2>2. PICK kept : kept = SubSeq(acc.out, 1, v)
    OBVIOUS
  <2>3. Listed(kept) /\ Len(kept) = v
    <3>1. PICK i : i = 1
      OBVIOUS
    <3>2. Listed(acc.out) /\ i \in 1..(Len(acc.out) + 1) /\ v \in (i - 1)..Len(acc.out)
      BY <1>1, <2>1, <3>1 DEF GoodAcc
    <3>3. Listed(SubSeq(acc.out, i, v)) /\ Len(SubSeq(acc.out, i, v)) = v - i + 1
      BY <3>2, ListsCut
    <3> QED BY <2>1, <2>2, <3>1, <3>3
  <2>4. PICK d : d = Failed(acc.result, kept, entropy)
    OBVIOUS
  <2>5. CompressedOutcome(acc, huffman_table, table, entropy) = d
    BY <1>2, <2>1, <2>2, <2>4 DEF CompressedOutcome
  <2>6. d.out = kept /\ d.result # "Ok"
    BY <1>2, <2>4 DEF Failed
  <2>7. v - blk.start <= blk.block_size_max
    BY <1>1, <2>1 DEF GoodAcc, Allowed, GoodBlk
  <2>8. v = blk.start \/ ~OverCap(blk.limit, v)
    <3>1. l = blk.start \/ ~OverCap(blk.limit, l)
      BY <1>1 DEF GoodAcc, Allowed
    <3> QED BY <1>1, <2>1, <3>1 DEF OverCap, GoodBlk
  <2>9. GoodOutcome(o, blk.limit, blk.block_size_max, out, d)
    BY <2>1, <2>3, <2>6, <2>7, <2>8 DEF GoodOutcome
  <2> QED BY <2>5, <2>9
<1>3. CASE acc.result = "Ok"
  <2>1. PICK d, e : /\ e = [repeat_offsets |-> acc.reps, huffman_table |-> huffman_table,
                            sequence_table |-> table]
                    /\ d = [result |-> "Ok", out |-> acc.out, entropy |-> e]
    OBVIOUS
  <2>2. CompressedOutcome(acc, huffman_table, table, entropy) = d
    BY <1>3, <2>1 DEF CompressedOutcome
  <2>3. d.out = acc.out /\ d.entropy = e
    BY <2>1
  <2>4. GoodEntropy(o, e)
    BY <2>1 DEF GoodEntropy, GoodAcc
  <2>5. /\ Listed(acc.out) /\ ~OverCap(blk.limit, l) /\ blk.start <= l
        /\ l - blk.start <= blk.block_size_max
    BY <1>1, <1>3 DEF GoodAcc, Allowed
  <2>6. GoodOutcome(o, blk.limit, blk.block_size_max, out, d)
    BY <1>1, <2>3, <2>4, <2>5 DEF GoodOutcome
  <2> QED BY <2>2, <2>6
<1> QED BY <1>2, <1>3

\* What is fixed for a block of a frame of a decoder configured as o.
GoodEnv(env, limit) ==
  /\ env.frame_start \in Int /\ env.window_size \in Nat /\ env.block_size_max \in Nat
  /\ limit.produced_before \in Nat /\ limit.max_output_size \in Nat \cup {None}

\* The sequences of a compressed block are those of the table it is read with.
LEMMA SequencesRead ==
  ASSUME NEW o \in Configured, NEW u \in CompressedBlocks(o),
         NEW entropy, GoodEntropy(o, entropy),
         NEW codes, codes = u.body.sequences.codes,
         NEW table, table = IF codes = << >> \/ u.body.sequences.repeat
                            THEN entropy.sequence_table ELSE u.body.sequences.table
  PROVE  /\ codes \in Seq(Nat) /\ (table = NoTable \/ table \in SequenceTables(o))
         /\ codes = << >> \/ table # NoTable =>
              \A i \in 1..Len(codes) : table[codes[i]] \in [ll : Nat, ml : Nat, value : Nat]
<1>1. IsUnit(u) /\ u.kind = "block" /\ u.block_type = "Compressed"
  BY SetupsAssumption DEF CompressedBlocks, Configured
<1>2. codes \in Seq(Nat) /\ u.body.sequences.repeat \in BOOLEAN
  BY <1>1 DEF IsUnit, IsBlock
<1>3. table = NoTable \/ table \in SequenceTables(o)
  BY DEF GoodEntropy, SequenceTables
<1>4. ASSUME codes # << >>, table # NoTable
      PROVE  \A i \in 1..Len(codes) : table[codes[i]] \in [ll : Nat, ml : Nat, value : Nat]
  <2>1. table \in SequenceTables(o)
    BY <1>3, <1>4
  <2>2. \A c \in DOMAIN table : table[c] \in [ll : Nat, ml : Nat, value : Nat]
    BY <2>1, SetupsAssumption DEF Configured
  <2>3. ToSet(codes) \subseteq DOMAIN table
    <3>1. LET section == u.body.sequences
          IN  \A t \in IF section.repeat THEN SequenceTables(o) ELSE {section.table} \ {NoTable} :
                ToSet(section.codes) \subseteq DOMAIN t
      BY SetupsAssumption DEF Configured
    <3>2. CASE u.body.sequences.repeat
      BY <2>1, <3>1, <3>2
    <3>3. CASE ~u.body.sequences.repeat
      BY <1>4, <3>1, <3>3
    <3> QED BY <3>2, <3>3
  <2>4. \A i \in 1..Len(codes) : codes[i] \in ToSet(codes)
    BY <1>2 DEF ToSet
  <2> QED BY <2>2, <2>3, <2>4
<1>5. codes = << >> =>
        \A i \in 1..Len(codes) : table[codes[i]] \in [ll : Nat, ml : Nat, value : Nat]
  OBVIOUS
<1> QED BY <1>2, <1>3, <1>4, <1>5

\* decode_literals_section gives a list.
LEMMA LiteralsListed ==
  ASSUME NEW section, section.data \in Seq(Nat), NEW huffman_table, NEW size_max
  PROVE  Listed(decode_literals_section(section, huffman_table, size_max).bytes)
<1>1. PICK d : d = decode_literals_section(section, huffman_table, size_max)
  OBVIOUS
<1>2. PICK table : table = IF section.type = "Huffman" THEN section.table ELSE huffman_table
  OBVIOUS
<1>3. PICK f : f = [i \in DOMAIN section.data |-> table[section.data[i]]]
  OBVIOUS
<1>4. Listed(f)
  <2>1. Len(section.data) \in Nat /\ DOMAIN section.data = 1..Len(section.data)
    OBVIOUS
  <2>2. f = [i \in 1..Len(section.data) |-> f[i]]
    BY <1>3, <2>1
  <2> QED BY <2>1, <2>2, ListsMade
<1>5. d.bytes \in {<< >>, section.data, f}
  BY <1>1, <1>2, <1>3 DEF decode_literals_section
<1>6. Listed(section.data)
  BY DEF Listed
<1> QED BY <1>1, <1>4, <1>5, <1>6, NoneListed

\* A compressed block keeps the limits, whatever its sections hold.
LEMMA CompressedKeeps ==
  ASSUME NEW o \in Configured, NEW u \in CompressedBlocks(o), NEW env, NEW limit,
         GoodEnv(env, limit), NEW out, Listed(out), NEW entropy, GoodEntropy(o, entropy)
  PROVE  GoodOutcome(o, limit, env.block_size_max, out,
                     decode_compressed_block(u.body, env, o.dictionary, limit, out, entropy))
<1>1. PICK literals : literals = decode_literals_section(u.body.literals, entropy.huffman_table,
                                                         env.block_size_max)
  OBVIOUS
<1>2. PICK codes : codes = u.body.sequences.codes
  OBVIOUS
<1>3. PICK table : table = IF codes = << >> \/ u.body.sequences.repeat
                           THEN entropy.sequence_table ELSE u.body.sequences.table
  OBVIOUS
<1>4. PICK seqs : seqs = [i \in DOMAIN codes |-> table[codes[i]]]
  OBVIOUS
<1>5. PICK blk : blk = [start |-> Len(out), frame_start |-> env.frame_start,
                window_size |-> env.window_size, block_size_max |-> env.block_size_max,
                dictionary |-> o.dictionary, literals |-> literals.bytes, limit |-> limit]
  OBVIOUS
<1>6. PICK acc : acc = decode_and_execute_sequences(blk, out, entropy.repeat_offsets, seqs,
                                                    u.body.sound)
  OBVIOUS
<1>7. PICK d : d = decode_compressed_block(u.body, env, o.dictionary, limit, out, entropy)
  OBVIOUS
<1>8. d = IF \/ literals.result # "Ok"
             \/ codes # << >> /\ table = NoTable
             \/ codes = << >> /\ ~u.body.sound
          THEN Failed("Corruption", out, entropy)
          ELSE CompressedOutcome(acc, literals.table, table, entropy)
  BY <1>1, <1>2, <1>3, <1>4, <1>5, <1>6, <1>7 DEF decode_compressed_block
<1>9. env.block_size_max \in Nat
  BY DEF GoodEnv
<1>10. CASE d = Failed("Corruption", out, entropy)
  BY <1>7, <1>9, <1>10, FailedOutcome
<1>11. CASE /\ codes = << >> \/ table # NoTable
            /\ d = CompressedOutcome(acc, literals.table, table, entropy)
  <2>1. /\ u.body.literals.data \in Seq(Nat) /\ u.body.sound \in BOOLEAN
    <3>1. IsUnit(u) /\ u.kind = "block" /\ u.block_type = "Compressed"
      BY SetupsAssumption DEF CompressedBlocks, Configured
    <3> QED BY <3>1 DEF IsUnit, IsBlock
  <2>2. /\ codes \in Seq(Nat) /\ (table = NoTable \/ table \in SequenceTables(o))
        /\ \A i \in 1..Len(codes) : table[codes[i]] \in [ll : Nat, ml : Nat, value : Nat]
    BY SMTT(30), <1>2, <1>3, <1>11, SequencesRead
  <2>3. /\ Len(seqs) \in Nat
        /\ \A i \in 1..Len(seqs) : seqs[i] \in [ll : Nat, ml : Nat, value : Nat]
    <3>1. Len(codes) \in Nat /\ DOMAIN codes = 1..Len(codes)
      BY <2>2
    <3>2. seqs = [i \in 1..Len(codes) |-> seqs[i]]
          /\ \A i \in 1..Len(codes) : seqs[i] = table[codes[i]]
      BY <1>4, <3>1
    <3>3. Len(seqs) = Len(codes)
      BY <3>1, <3>2, ListsMade
    <3> QED BY <2>2, <3>1, <3>2, <3>3
  <2>4. /\ blk.start = Len(out) /\ blk.frame_start = env.frame_start
        /\ blk.window_size = env.window_size /\ blk.block_size_max = env.block_size_max
        /\ blk.dictionary = o.dictionary /\ blk.literals = literals.bytes /\ blk.limit = limit
    BY <1>5
  <2>5. GoodBlk(blk)
    <3>1. Listed(literals.bytes)
      BY <1>1, <2>1, LiteralsListed
    <3>2. /\ o.dictionary.present \in BOOLEAN
          /\ o.dictionary.present => o.dictionary.content \in Seq(Nat)
      BY SetupsAssumption DEF Configured
    <3>3. Len(out) \in Nat
      BY ListsJoin
    <3> QED BY <2>4, <3>1, <3>2, <3>3 DEF GoodBlk, GoodEnv
  <2>6. GoodAcc(blk, acc)
    BY <1>6, <2>1, <2>3, <2>4, <2>5, ExecutedKeeps DEF GoodEntropy
  <2>7. PICK h, e : h = literals.table /\ e = CompressedOutcome(acc, h, table, entropy)
    OBVIOUS
  <2>8. table = NoTable \/ table \in SequenceTables(o)
    BY <2>2
  <2>9. Len(out) = blk.start
    BY <2>4
  <2>10. GoodOutcome(o, blk.limit, blk.block_size_max, out, e)
    BY <2>5, <2>6, <2>7, <2>8, <2>9, CompressedEnds
  <2> QED BY <1>7, <1>11, <2>4, <2>7, <2>10
<1> QED BY <1>8, <1>10, <1>11

\* No block of a stream appends more than its frame's limit or the cap allows, decoded or
\* broken off half way.
LEMMA BlockKeeps ==
  ASSUME NEW o \in Configured, NEW u \in UnitsOf(o), u.kind = "block", u.block_type # "Reserved",
         NEW env, NEW limit, GoodEnv(env, limit),
         NEW out, Listed(out), NEW entropy, GoodEntropy(o, entropy)
  PROVE  GoodOutcome(o, limit, env.block_size_max, out,
                     DecodeBlock(u, env, o.dictionary, limit, out, entropy))
<1>1. PICK d : d = DecodeBlock(u, env, o.dictionary, limit, out, entropy)
  OBVIOUS
<1>2. /\ u.block_size \in Nat /\ env.block_size_max \in Nat
      /\ u.block_type \in {"Raw", "Rle", "Compressed"}
      /\ u.block_type = "Raw" => u.body \in Seq(Nat) /\ Len(u.body) = u.block_size
  <2>1. IsUnit(u)
    BY SetupsAssumption DEF Configured
  <2> QED BY <2>1 DEF IsUnit, IsBlock, GoodEnv
<1>3. CASE u.block_type = "Compressed"
  <2>1. u \in CompressedBlocks(o)
    BY <1>3 DEF CompressedBlocks
  <2>2. d = decode_compressed_block(u.body, env, o.dictionary, limit, out, entropy)
    BY <1>1, <1>3 DEF DecodeBlock
  <2> QED BY <1>1, <2>1, <2>2, CompressedKeeps
<1>4. CASE u.block_type # "Compressed" /\ u.block_size > env.block_size_max
  <2>1. d = Failed("Corruption", out, entropy)
    BY <1>1, <1>4 DEF DecodeBlock
  <2> QED BY <1>1, <1>2, <2>1, FailedOutcome
<1>5. CASE u.block_type = "Raw" /\ ~(u.block_size > env.block_size_max)
  <2>1. d = append_bytes(u.body, limit, out, entropy)
    BY <1>1, <1>5 DEF DecodeBlock
  <2>2. Listed(u.body) /\ Len(u.body) <= env.block_size_max
    BY <1>2, <1>5 DEF Listed
  <2> QED BY <1>1, <1>2, <2>1, <2>2, BytesOutcome
<1>6. CASE u.block_type = "Rle" /\ ~(u.block_size > env.block_size_max)
  <2>1. PICK bytes : bytes = [i \in 1..u.block_size |-> u.body[1]]
    OBVIOUS
  <2>2. d = append_bytes(bytes, limit, out, entropy)
    BY <1>1, <1>6, <2>1 DEF DecodeBlock
  <2>3. Listed(bytes) /\ Len(bytes) = u.block_size
    <3>1. bytes = [i \in 1..u.block_size |-> bytes[i]]
      BY <2>1
    <3> QED BY <1>2, <3>1, ListsMade
  <2>4. Len(bytes) <= env.block_size_max
    BY <1>2, <1>6, <2>3
  <2> QED BY <1>1, <1>2, <2>2, <2>3, <2>4, BytesOutcome
<1> QED BY <1>2, <1>3, <1>4, <1>5, <1>6

-----------------------------------------------------------------------------
\* The bytes of a wire.

\* The ends of the first n units, and the bytes of the first of n pieces, as EndOf and
\* FlattenSeq build them.
Ends(w, n, e) == e = [i \in 0..n |-> IF i = 0 THEN 0 ELSE e[i - 1] + w[i].size]
Flats(seqs, n, f) == f = [i \in 1..n |-> IF i = 1 THEN seqs[i] ELSE f[i - 1] \o seqs[i]]

\* The ends of the first n units are a function.
LEMMA EndsExist == ASSUME NEW w, NEW n \in Nat PROVE \E e : Ends(w, n, e)
<1> DEFINE Bad == {k \in Nat : ~ \E e : Ends(w, k, e)}
<1>1. SUFFICES ASSUME Bad # {} PROVE FALSE
  OBVIOUS
<1>2. PICK k \in Bad : \A j \in Bad : k <= j
  <2>1. Bad \in SUBSET Nat
    OBVIOUS
  <2> HIDE DEF Bad
  <2> QED BY <1>1, <2>1, LeastOf
<1>3. CASE k = 0
  <2>1. PICK e : e = [i \in 0..0 |-> 0]
    OBVIOUS
  <2>2. e = [i \in 0..0 |-> IF i = 0 THEN 0 ELSE e[i - 1] + w[i].size]
    BY <2>1
  <2>3. Ends(w, k, e)
    BY <1>3, <2>2 DEF Ends
  <2> QED BY <1>2, <2>3
<1>4. CASE k # 0
  <2>1. PICK j \in Nat : k = j + 1
    <3>1. k - 1 \in Nat /\ k = (k - 1) + 1
      BY <1>2, <1>4
    <3> QED BY <3>1
  <2>2. PICK e : Ends(w, j, e)
    BY <1>2, <2>1
  <2>3. PICK g : g = [i \in 0..k |-> IF i \in 0..j THEN e[i] ELSE e[j] + w[k].size]
    OBVIOUS
  <2>4. /\ \A i \in 0..j : g[i] = e[i]
        /\ \A i \in 0..j : e[i] = IF i = 0 THEN 0 ELSE e[i - 1] + w[i].size
        /\ g[k] = e[j] + w[k].size
    BY <2>1, <2>2, <2>3 DEF Ends
  <2>5. ASSUME NEW i \in 0..k
        PROVE  g[i] = IF i = 0 THEN 0 ELSE g[i - 1] + w[i].size
    <3>1. CASE i = 0
      <4>1. 0 \in 0..j
        BY <2>1
      <4> QED BY <2>4, <3>1, <4>1
    <3>2. CASE i # 0 /\ i \in 0..j
      <4>1. i - 1 \in 0..j
        BY <2>1, <3>2
      <4>2. g[i] = e[i] /\ g[i - 1] = e[i - 1]
        BY <2>4, <3>2, <4>1
      <4>3. e[i] = e[i - 1] + w[i].size
        BY <2>4, <3>2
      <4> QED BY <3>2, <4>2, <4>3
    <3>3. CASE i = k
      <4>1. k - 1 = j /\ j \in 0..j /\ k # 0
        BY <2>1
      <4>2. g[j] = e[j]
        BY <2>4, <4>1
      <4> QED BY <2>4, <3>3, <4>1, <4>2
    <3> QED BY <2>1, <3>1, <3>2, <3>3
  <2>6. g = [i \in 0..k |-> g[i]]
    BY <2>3
  <2>7. g = [i \in 0..k |-> IF i = 0 THEN 0 ELSE g[i - 1] + w[i].size]
    BY <2>5, <2>6
  <2>8. Ends(w, k, g)
    BY <2>7 DEF Ends
  <2> QED BY <1>2, <2>8
<1> QED BY <1>3, <1>4

\* So are the bytes of the first n pieces.
LEMMA FlatsExist == ASSUME NEW seqs, NEW n \in Nat PROVE \E f : Flats(seqs, n, f)
<1> DEFINE Bad == {k \in Nat : ~ \E f : Flats(seqs, k, f)}
<1>1. SUFFICES ASSUME Bad # {} PROVE FALSE
  OBVIOUS
<1>2. PICK k \in Bad : \A j \in Bad : k <= j
  <2>1. Bad \in SUBSET Nat
    OBVIOUS
  <2> HIDE DEF Bad
  <2> QED BY <1>1, <2>1, LeastOf
<1>3. CASE k = 0
  <2>1. PICK f : f = [i \in 1..0 |-> seqs[i]]
    OBVIOUS
  <2>2. f = [i \in 1..0 |-> IF i = 1 THEN seqs[i] ELSE f[i - 1] \o seqs[i]]
    BY <2>1
  <2>3. Flats(seqs, k, f)
    BY <1>3, <2>2 DEF Flats
  <2> QED BY <1>2, <2>3
<1>4. CASE k # 0
  <2>1. PICK j \in Nat : k = j + 1
    <3>1. k - 1 \in Nat /\ k = (k - 1) + 1
      BY <1>2, <1>4
    <3> QED BY <3>1
  <2>2. PICK f : Flats(seqs, j, f)
    BY <1>2, <2>1
  <2>3. PICK g : g = [i \in 1..k |-> IF i \in 1..j THEN f[i]
                                     ELSE IF k = 1 THEN seqs[k] ELSE f[j] \o seqs[k]]
    OBVIOUS
  <2>4. /\ \A i \in 1..j : g[i] = f[i]
        /\ \A i \in 1..j : f[i] = IF i = 1 THEN seqs[i] ELSE f[i - 1] \o seqs[i]
        /\ g[k] = IF k = 1 THEN seqs[k] ELSE f[j] \o seqs[k]
    <3>1. \A i \in 1..j : i \in 1..k
      BY <2>1
    <3>2. \A i \in 1..j : g[i] = f[i]
      BY <2>3, <3>1
    <3>3. k \in 1..k /\ k \notin 1..j
      BY <2>1
    <3>4. g[k] = IF k = 1 THEN seqs[k] ELSE f[j] \o seqs[k]
      BY <2>3, <3>3
    <3> QED BY <2>2, <3>2, <3>4 DEF Flats
  <2>5. ASSUME NEW i \in 1..k
        PROVE  g[i] = IF i = 1 THEN seqs[i] ELSE g[i - 1] \o seqs[i]
    <3>1. CASE i = k /\ k = 1
      BY <2>4, <3>1
    <3>2. CASE i \in 1..j
      <4>1. i = 1 \/ i - 1 \in 1..j
        BY <2>1, <3>2
      <4>2. g[i] = f[i] /\ (i # 1 => g[i - 1] = f[i - 1])
        BY <2>4, <3>2, <4>1
      <4>3. f[i] = IF i = 1 THEN seqs[i] ELSE f[i - 1] \o seqs[i]
        BY <2>4, <3>2
      <4> QED BY <4>2, <4>3
    <3>3. CASE i = k /\ k # 1
      <4>1. k - 1 = j /\ j \in 1..j
        BY <2>1, <3>3
      <4>2. g[j] = f[j]
        BY <2>4, <4>1
      <4> QED BY <2>4, <3>3, <4>1, <4>2
    <3> QED BY <2>1, <3>1, <3>2, <3>3
  <2>6. g = [i \in 1..k |-> g[i]]
    BY <2>3
  <2>7. g = [i \in 1..k |-> IF i = 1 THEN seqs[i] ELSE g[i - 1] \o seqs[i]]
    BY <2>5, <2>6
  <2>8. Flats(seqs, k, g)
    BY <2>7 DEF Flats
  <2> QED BY <1>2, <2>8
<1> QED BY <1>3, <1>4

\* The ends of the first n units are one function, whatever n.
LEMMA EndsAgree ==
  ASSUME NEW w, NEW n \in Nat, NEW e, Ends(w, n, e), NEW m \in 0..n, NEW g, Ends(w, m, g),
         NEW i \in 0..m
  PROVE  g[i] = e[i]
<1> DEFINE Bad == {k \in 0..m : g[k] # e[k]}
<1>1. SUFFICES ASSUME Bad # {} PROVE FALSE
  OBVIOUS
<1>2. PICK k \in Bad : \A j \in Bad : k <= j
  <2>1. Bad \in SUBSET Nat
    OBVIOUS
  <2> HIDE DEF Bad
  <2> QED BY <1>1, <2>1, LeastOf
<1>3. k \in 0..m /\ k \in 0..n /\ g[k] # e[k]
  BY <1>2
<1>4. /\ g[k] = IF k = 0 THEN 0 ELSE g[k - 1] + w[k].size
      /\ e[k] = IF k = 0 THEN 0 ELSE e[k - 1] + w[k].size
  BY <1>3 DEF Ends
<1>5. k # 0
  BY <1>3, <1>4
<1>6. k - 1 \in 0..m /\ ~(k <= k - 1)
  BY <1>3, <1>5
<1>7. g[k - 1] = e[k - 1]
  BY <1>2, <1>6
<1> QED BY <1>3, <1>4, <1>7

\* EndOf adds up the sizes.
LEMMA EndIs ==
  ASSUME NEW U, NEW w \in Seq(U), \A u \in U : IsUnit(u)
  PROVE  /\ EndOf(w, 0) = 0
         /\ \A k \in 1..Len(w) : EndOf(w, k) = EndOf(w, k - 1) + w[k].size
         /\ \A k \in 0..Len(w) : EndOf(w, k) \in Nat
<1>1. PICK n \in Nat : n = Len(w) /\ DOMAIN w = 1..n
  OBVIOUS
<1>2. \A k \in 1..n : w[k].size \in Nat
  BY <1>1 DEF IsUnit
<1>3. PICK e : Ends(w, n, e)
  BY EndsExist
<1>4. ASSUME NEW k \in 0..n PROVE EndOf(w, k) = e[k]
  <2>1. PICK f : f = CHOOSE g : g = [i \in 0..k |-> IF i = 0 THEN 0 ELSE g[i - 1] + w[i].size]
    OBVIOUS
  <2>2. k \in Nat
    BY <1>4
  <2>3. PICK h : Ends(w, k, h)
    BY <2>2, EndsExist
  <2>4. h = [i \in 0..k |-> IF i = 0 THEN 0 ELSE h[i - 1] + w[i].size]
    BY <2>3 DEF Ends
  <2>5. f = [i \in 0..k |-> IF i = 0 THEN 0 ELSE f[i - 1] + w[i].size]
    BY Zenon, <2>1, <2>4
  <2>6. Ends(w, k, f)
    BY <2>5 DEF Ends
  <2>7. f[k] = e[k]
    <3>1. k \in 0..k
      BY <2>2
    <3> QED BY <1>3, <2>6, <3>1, EndsAgree
  <2>8. EndOf(w, k) = f[k]
    BY <2>1 DEF EndOf
  <2> QED BY <2>7, <2>8
<1>5. e[0] = 0 /\ \A i \in 1..n : e[i] = e[i - 1] + w[i].size
  <2>1. \A i \in 0..n : e[i] = IF i = 0 THEN 0 ELSE e[i - 1] + w[i].size
    BY <1>3 DEF Ends
  <2>2. 0 \in 0..n /\ \A i \in 1..n : i \in 0..n /\ i # 0
    OBVIOUS
  <2> QED BY <2>1, <2>2
<1> DEFINE Bad == {k \in 0..n : e[k] \notin Nat}
<1>6. Bad = {}
  <2>1. SUFFICES ASSUME Bad # {} PROVE FALSE
    OBVIOUS
  <2>2. PICK k \in Bad : \A j \in Bad : k <= j
    <3>1. Bad \in SUBSET Nat
      OBVIOUS
    <3> HIDE DEF Bad
    <3> QED BY <2>1, <3>1, LeastOf
  <2>3. k \in 1..n
    BY <1>5, <2>2
  <2>4. k - 1 \in 0..n /\ ~(k <= k - 1)
    BY <2>3
  <2>5. e[k - 1] \in Nat
    BY <2>2, <2>4
  <2>6. w[k].size \in Nat /\ e[k] = e[k - 1] + w[k].size /\ e[k] \notin Nat
    BY <1>2, <1>5, <2>2, <2>3
  <2> QED BY <2>5, <2>6
<1>7. \A k \in 1..n : k - 1 \in 0..n /\ k \in 0..n
  BY <1>1
<1>8. 0 \in 0..n
  BY <1>1
<1> QED BY <1>1, <1>4, <1>5, <1>6, <1>7, <1>8

\* A later unit ends later.
LEMMA EndsGrow ==
  ASSUME NEW U, NEW w \in Seq(U), \A u \in U : IsUnit(u),
         NEW k \in 0..Len(w), NEW j \in 0..k
  PROVE  EndOf(w, j) <= EndOf(w, k) /\ (j # k => EndOf(w, j) < EndOf(w, k))
<1>1. PICK n \in Nat : n = Len(w) /\ DOMAIN w = 1..n
  OBVIOUS
<1>2. \A i \in 1..n : w[i].size \in Nat \ {0}
  BY <1>1 DEF IsUnit
<1>3. PICK e : e = [i \in 0..n |-> EndOf(w, i)]
  OBVIOUS
<1>4. /\ \A i \in 1..n : e[i] = e[i - 1] + w[i].size
      /\ \A i \in 0..n : e[i] \in Nat /\ e[i] = EndOf(w, i)
  <2>1. \A i \in 0..n : e[i] = EndOf(w, i)
    BY <1>3
  <2>2. \A i \in 1..n : i \in 0..n /\ i - 1 \in 0..n
    BY <1>1
  <2>3. /\ \A i \in 1..n : EndOf(w, i) = EndOf(w, i - 1) + w[i].size
        /\ \A i \in 0..n : EndOf(w, i) \in Nat
    BY <1>1, EndIs
  <2>4. ASSUME NEW i \in 1..n PROVE e[i] = e[i - 1] + w[i].size
    <3>1. e[i] = EndOf(w, i) /\ e[i - 1] = EndOf(w, i - 1)
      BY <2>1, <2>2, <2>4
    <3> QED BY <2>3, <2>4, <3>1
  <2> QED BY <2>1, <2>3, <2>4
<1> DEFINE Bad == {i \in j..n : ~(e[j] <= e[i] /\ (j # i => e[j] < e[i]))}
<1>5. Bad = {}
  <2>1. SUFFICES ASSUME Bad # {} PROVE FALSE
    OBVIOUS
  <2>2. PICK i \in Bad : \A h \in Bad : i <= h
    <3>1. Bad \in SUBSET Nat
      OBVIOUS
    <3> HIDE DEF Bad
    <3> QED BY <2>1, <3>1, LeastOf
  <2>3. i \in j..n /\ ~(e[j] <= e[i] /\ (j # i => e[j] < e[i])) /\ j \in 0..n
    BY <1>1, <2>2
  <2>4. i # j
    <3>1. e[j] \in Nat
      BY <1>4, <2>3
    <3> QED BY <2>3, <3>1
  <2>5. i - 1 \in j..n /\ ~(i <= i - 1) /\ i \in 1..n /\ i - 1 \in 0..n
    BY <2>3, <2>4
  <2>6. e[j] <= e[i - 1]
    BY <2>2, <2>5
  <2>7. e[i] = e[i - 1] + w[i].size /\ w[i].size \in Nat \ {0} /\ e[i - 1] \in Nat /\ e[j] \in Nat
    BY <1>2, <1>4, <2>3, <2>5
  <2> QED BY <2>3, <2>6, <2>7
<1>6. k \in j..n /\ k \in 0..n /\ j \in 0..n
  BY <1>1
<1>7. e[j] <= e[k] /\ (j # k => e[j] < e[k])
  BY <1>5, <1>6
<1> QED BY <1>4, <1>6, <1>7

\* A byte of a wire is of one of its units, there are as many as the units have, and each
\* unit's first byte is where the units before it end.
LEMMA BytesOfUnits ==
  ASSUME NEW U, NEW w \in Seq(U), \A u \in U : IsUnit(u)
  PROVE  /\ Size(w) \in Nat /\ Bytes(w) \in Seq((DOMAIN w) \X Nat)
         /\ Len(Bytes(w)) = Size(w)
         /\ \A k \in 1..Len(w) : Bytes(w)[EndOf(w, k - 1) + 1] = <<k, 1>>
<1>1. PICK n \in Nat : n = Len(w) /\ DOMAIN w = 1..n
  OBVIOUS
<1>2. PICK P : P = (1..n) \X Nat
  OBVIOUS
<1>3. PICK seqs : seqs = [k \in 1..n |-> [i \in 1..w[k].size |-> <<k, i>>]]
  OBVIOUS
<1>4. \A k \in 1..n : w[k].size \in Nat
  BY <1>1 DEF IsUnit
<1>5. ASSUME NEW k \in 1..n
      PROVE  seqs[k] \in Seq(P) /\ Len(seqs[k]) = w[k].size /\ seqs[k][1] = <<k, 1>>
  <2>1. PICK m \in Nat : m = w[k].size /\ m # 0
    BY <1>1 DEF IsUnit
  <2>2. seqs[k] = [i \in 1..m |-> <<k, i>>]
    BY <1>3, <2>1
  <2>3. \A i \in 1..m : <<k, i>> \in P
    BY <1>2, <2>1
  <2>4. seqs[k] \in [1..m -> P]
    BY <2>2, <2>3
  <2>5. seqs[k] \in Seq(P) /\ Len(seqs[k]) = m
    BY <2>1, <2>4
  <2>6. 1 \in 1..m
    BY <2>1
  <2> QED BY <2>1, <2>2, <2>5, <2>6
<1>6. PICK e : e = CHOOSE f : f = [i \in 0..n |-> IF i = 0 THEN 0 ELSE f[i - 1] + w[i].size]
  OBVIOUS
<1>7. Ends(w, n, e)
  <2>1. PICK g : Ends(w, n, g)
    BY EndsExist
  <2>2. g = [i \in 0..n |-> IF i = 0 THEN 0 ELSE g[i - 1] + w[i].size]
    BY <2>1 DEF Ends
  <2>3. e = [i \in 0..n |-> IF i = 0 THEN 0 ELSE e[i - 1] + w[i].size]
    BY Zenon, <1>6, <2>2
  <2> QED BY <2>3 DEF Ends
<1>8. Size(w) = e[n]
  BY <1>1, <1>6 DEF Size, EndOf
<1>9. e[0] = 0 /\ \A i \in 1..n : e[i] = e[i - 1] + w[i].size
  <2>1. \A i \in 0..n : e[i] = IF i = 0 THEN 0 ELSE e[i - 1] + w[i].size
    BY <1>7 DEF Ends
  <2>2. 0 \in 0..n /\ \A i \in 1..n : i \in 0..n /\ i # 0
    OBVIOUS
  <2> QED BY <2>1, <2>2
<1>10. Len(seqs) = n /\ DOMAIN seqs = 1..n
  <2>1. seqs = [i \in 1..n |-> seqs[i]]
    BY <1>3
  <2> QED BY <2>1, ListsMade
<1>11. Bytes(w) = FlattenSeq(seqs)
  BY <1>1, <1>3 DEF Bytes
<1>14. \A k \in 0..n : EndOf(w, k) = e[k] /\ e[k] \in Nat
  <2>1. EndOf(w, 0) = 0 /\ \A k \in 0..n : EndOf(w, k) \in Nat
    BY <1>1, EndIs
  <2>2. \A k \in 1..n : EndOf(w, k) = EndOf(w, k - 1) + w[k].size
    BY <1>1, EndIs
  <2> DEFINE Off == {k \in 0..n : EndOf(w, k) # e[k]}
  <2>3. Off = {}
    <3>1. SUFFICES ASSUME Off # {} PROVE FALSE
      OBVIOUS
    <3>2. PICK k \in Off : \A j \in Off : k <= j
      <4>1. Off \in SUBSET Nat
        OBVIOUS
      <4> HIDE DEF Off
      <4> QED BY <3>1, <4>1, LeastOf
    <3>3. k \in 0..n /\ EndOf(w, k) # e[k]
      BY <3>2
    <3>4. k # 0
      BY <1>9, <2>1, <3>3
    <3>5. k \in 1..n /\ k - 1 \in 0..n /\ ~(k <= k - 1)
      BY <3>3, <3>4
    <3>6. EndOf(w, k - 1) = e[k - 1]
      BY <3>2, <3>5
    <3> QED BY <1>9, <2>2, <3>3, <3>5, <3>6
  <2> QED BY <2>1, <2>3
<1>15. \A k \in 1..n, j \in 1..n :
         j < k => e[j - 1] \in Nat /\ e[j - 1] < e[j] /\ e[j] <= e[k - 1] /\ e[k - 1] \in Nat
  <2> SUFFICES ASSUME NEW k \in 1..n, NEW j \in 1..n, j < k
               PROVE  /\ e[j - 1] \in Nat /\ e[j - 1] < e[j] /\ e[j] <= e[k - 1]
                      /\ e[k - 1] \in Nat
    OBVIOUS
  <2>1. k - 1 \in 0..Len(w) /\ j \in 0..(k - 1) /\ j - 1 \in 0..n /\ j \in 0..n /\ k - 1 \in 0..n
    BY <1>1
  <2>2. EndOf(w, j) <= EndOf(w, k - 1)
    BY <2>1, EndsGrow
  <2>3. e[j] = e[j - 1] + w[j].size /\ w[j].size \in Nat /\ w[j].size # 0
    BY <1>1, <1>9 DEF IsUnit
  <2>4. e[j - 1] \in Nat /\ e[k - 1] \in Nat /\ e[j] <= e[k - 1]
    BY <1>14, <2>1, <2>2
  <2> QED BY <2>3, <2>4
<1>12. CASE n = 0
  <2>1. Bytes(w) = seqs /\ seqs = << >>
    BY <1>3, <1>10, <1>11, <1>12 DEF FlattenSeq
  <2>2. e[n] = 0
    BY <1>9, <1>12
  <2> QED BY <1>1, <1>8, <1>12, <2>1, <2>2
<1>13. CASE n # 0
  <2>1. PICK f : f = CHOOSE g :
            g = [i \in 1..n |-> IF i = 1 THEN seqs[i] ELSE g[i - 1] \o seqs[i]]
    OBVIOUS
  <2>2. Bytes(w) = f[n]
    BY <1>10, <1>11, <1>13, <2>1 DEF FlattenSeq
  <2>3. Flats(seqs, n, f)
    <3>1. PICK g : Flats(seqs, n, g)
      BY FlatsExist
    <3>2. g = [i \in 1..n |-> IF i = 1 THEN seqs[i] ELSE g[i - 1] \o seqs[i]]
      BY <3>1 DEF Flats
    <3>3. f = [i \in 1..n |-> IF i = 1 THEN seqs[i] ELSE f[i - 1] \o seqs[i]]
      BY Zenon, <2>1, <3>2
    <3> QED BY <3>3 DEF Flats
  <2>4. \A i \in 1..n : f[i] = IF i = 1 THEN seqs[i] ELSE f[i - 1] \o seqs[i]
    BY <2>3 DEF Flats
  <2> DEFINE Fits(i) == /\ f[i] \in Seq(P) /\ Len(f[i]) = e[i]
                        /\ \A j \in 1..i : f[i][e[j - 1] + 1] = <<j, 1>>
             Bad == {i \in 1..n : ~Fits(i)}
  <2>5. Bad = {}
    <3>1. SUFFICES ASSUME Bad # {} PROVE FALSE
      OBVIOUS
    <3>2. PICK k \in Bad : \A j \in Bad : k <= j
      <4>1. Bad \in SUBSET Nat
        OBVIOUS
      <4> HIDE DEF Bad
      <4> QED BY <3>1, <4>1, LeastOf
    <3>3. k \in 1..n /\ ~Fits(k)
      BY <3>2
    <3>4. CASE k = 1
      <4>1. f[1] = seqs[1] /\ e[1] = e[0] + w[1].size /\ 1 \in 1..n
        BY <1>9, <2>4, <3>3, <3>4
      <4>2. seqs[1] \in Seq(P) /\ Len(seqs[1]) = w[1].size
        BY <1>5, <4>1
      <4>3. seqs[1][1] = <<1, 1>>
        BY <1>5, <4>1
      <4>4. \A j \in 1..k : f[k][e[j - 1] + 1] = <<j, 1>>
        <5>1. \A j \in 1..k : j = 1
          BY <3>4
        <5>2. f[1][e[1 - 1] + 1] = <<1, 1>>
          BY <1>9, <4>1, <4>3
        <5> QED BY <3>4, <5>1, <5>2
      <4> QED BY <1>4, <1>9, <3>3, <3>4, <4>1, <4>2, <4>4
    <3>5. CASE k # 1
      <4>1. PICK j \in 1..n : j = k - 1 /\ ~(k <= j)
        <5>1. k - 1 \in 1..n /\ ~(k <= k - 1)
          BY <3>3, <3>5
        <5> QED BY <5>1
      <4>2. Fits(j)
        BY <3>2, <4>1
      <4>3. f[k] = f[j] \o seqs[k]
        BY <2>4, <3>3, <3>5, <4>1
      <4>4. e[k] = e[j] + w[k].size
        BY <1>9, <3>3, <4>1
      <4>5. seqs[k] \in Seq(P) /\ Len(seqs[k]) = w[k].size /\ seqs[k][1] = <<k, 1>>
        BY <1>5, <3>3
      <4>6. f[k] \in Seq(P) /\ Len(f[k]) = Len(f[j]) + Len(seqs[k])
        <5>1. PICK a \in Seq(P), b \in Seq(P) : a = f[j] /\ b = seqs[k]
          BY <4>2, <4>5
        <5>2. a \o b \in Seq(P) /\ Len(a \o b) = Len(a) + Len(b)
          BY <5>1, ConcatProperties
        <5> QED BY <4>3, <5>1, <5>2
      <4>7. ASSUME NEW h \in 1..k PROVE f[k][e[h - 1] + 1] = <<h, 1>>
        <5>1. PICK a \in Seq(P), b \in Seq(P) : a = f[j] /\ b = seqs[k]
          BY <4>2, <4>5
        <5>2. e[j] \in Nat /\ Len(a) = e[j] /\ Len(b) # 0 /\ Len(b) \in Nat
          BY <1>1, <1>14, <3>3, <4>1, <4>2, <4>5, <5>1 DEF IsUnit
        <5>3. CASE h = k
          <6>1. (a \o b)[Len(a) + 1] = b[1]
            BY <5>2
          <6> QED BY <4>1, <4>3, <4>5, <5>1, <5>2, <5>3, <6>1
        <5>4. CASE h # k
          <6>1. h \in 1..j /\ h \in 1..n /\ h < k
            BY <3>3, <4>1, <4>7, <5>4
          <6>2. f[j][e[h - 1] + 1] = <<h, 1>>
            BY <4>2, <6>1
          <6>3. e[h - 1] \in Nat /\ e[h - 1] < e[h] /\ e[h] <= e[j] /\ h \in 0..n
            BY <1>1, <1>15, <3>3, <4>1, <6>1
          <6>4. e[h] \in Nat
            BY <1>14, <6>3
          <6>5. PICK i \in 1..Len(a) : i = e[h - 1] + 1
            <7>1. e[h - 1] + 1 \in 1..Len(a)
              BY <5>2, <6>3, <6>4
            <7> QED BY <7>1
          <6>6. (a \o b)[i] = a[i]
            BY <6>5
          <6> QED BY <4>3, <5>1, <6>2, <6>5, <6>6
        <5> QED BY <5>3, <5>4
      <4> QED BY <3>3, <4>2, <4>4, <4>5, <4>6, <4>7
    <3> QED BY <3>4, <3>5
  <2>6. Fits(n)
    <3>1. n \in 1..n
      BY <1>13
    <3> QED BY <2>5, <3>1
  <2>7. e[n] \in Nat
    BY <2>6
  <2>8. ASSUME NEW k \in 1..n PROVE Bytes(w)[EndOf(w, k - 1) + 1] = <<k, 1>>
    <3>1. k - 1 \in 0..n
      BY <2>8
    <3> QED BY <1>14, <2>2, <2>6, <2>8, <3>1
  <2> QED BY <1>1, <1>2, <1>8, <2>2, <2>6, <2>7, <2>8
<1> QED BY <1>12, <1>13

-----------------------------------------------------------------------------
\* The invariant.

\* What has been pushed is the beginning of the wire, and what is buffered of it are
\* bytes of its units.
InputInv ==
  /\ options \in Configured /\ wire \in WiresOf(options)
  /\ pushed \in Nat /\ pushed <= Size(wire)
  /\ input \in Seq((DOMAIN wire) \X Nat)
  /\ input_pos \in Nat /\ input_pos <= Len(input)

BufferInv ==
  /\ Listed(output) /\ Listed(delivered)
  /\ output_pos \in Nat /\ output_pos <= Len(output)
  /\ total_output_size \in Nat

\* An open frame is as start_frame made it, but for what its blocks and the drains moved.
OpenFrame(f) ==
  /\ f = [open |-> TRUE, header |-> f.header, window_size |-> f.window_size,
          frame_start |-> f.frame_start, frame_output_size |-> f.frame_output_size,
          hashed |-> f.hashed, entropy |-> f.entropy, origin |-> f.origin]
  /\ f.header \in UnitsOf(options) /\ f.header.kind = "frame"
  /\ f.window_size = f.header.window_size
  /\ f.frame_start \in Nat
  /\ GoodEntropy(options, f.entropy)

FrameInv == frame.open \in BOOLEAN /\ (frame.open => OpenFrame(frame))

\* Between frames none is open, and a payload is waited for only behind a block's header.
StateInv ==
  /\ state.tag \in {"FrameHeader", "Skippable", "BlockHeader", "BlockPayload", "FrameChecksum"}
  /\ state.tag \in {"FrameHeader", "Skippable"} => ~frame.open
  /\ state.tag = "Skippable" => state.remaining \in Nat
  /\ state.tag = "BlockPayload" => /\ state.header \in UnitsOf(options)
                                   /\ state.header.kind = "block"
                                   /\ state.header.block_type # "Reserved"

StreamInv == InputInv /\ BufferInv /\ FrameInv /\ StateInv

\* A step of the abstract window, or none.
Moves == [AbstractWindow!Next]_AbstractWindow!vars

\* A step that leaves the buffer, the frame and the accounts alone is none.
LEMMA Stutters ==
  ASSUME UNCHANGED <<options, output, output_pos, delivered, frame, total_output_size>>
  PROVE  Moves
<1>1. UNCHANGED AbstractWindow!vars
  BY DEF AbstractWindow!vars, Produced, Pending
<1> QED BY <1>1 DEF Moves

\* The unit at the cursor is one of the decoder's.
LEMMA UnitIs ==
  ASSUME InputInv, Available # 0
  PROVE  /\ Unit \in UnitsOf(options) /\ IsUnit(Unit) /\ Unit \in Units
         /\ Available \in Nat
<1>1. PICK n \in Nat : n = Len(input)
  BY DEF InputInv
<1>2. Available \in Nat /\ input_pos + 1 \in 1..n
  BY <1>1 DEF InputInv, Available
<1>3. input[input_pos + 1] \in (DOMAIN wire) \X Nat
  BY <1>1, <1>2 DEF InputInv
<1>4. PICK k \in DOMAIN wire : k = input[input_pos + 1][1]
  BY <1>3
<1>5. wire \in Seq(UnitsOf(options)) /\ options \in Configured
  BY SetupsAssumption DEF InputInv, Configured
<1>6. wire[k] \in UnitsOf(options) /\ wire[k] \in ToSet(wire)
  BY <1>4, <1>5 DEF ToSet
<1>7. PICK s \in Setups : wire \in s.wires \cup s.again
  BY DEF InputInv, WiresOf
<1>8. wire[k] \in Units
  BY <1>6, <1>7 DEF Units
<1>9. IsUnit(wire[k])
  BY <1>5, <1>6, SetupsAssumption DEF Configured
<1> QED BY <1>2, <1>4, <1>6, <1>8, <1>9 DEF Unit

\* What is consumed leaves bytes of units.
LEMMA ProgressKeeps ==
  ASSUME InputInv, NEW n \in Nat, n <= Available, Progress(n)
  PROVE  InputInv' /\ UNCHANGED options
<1>1. PICK l \in Nat, p \in Nat : l = Len(input) /\ p = input_pos + n
  <2>1. Len(input) \in Nat /\ input_pos + n \in Nat
    BY DEF InputInv
  <2> QED BY <2>1
<1>2. p <= l
  BY <1>1 DEF InputInv, Available
<1>3. UNCHANGED <<options, wire, pushed>>
  BY DEF Progress, callerVars
<1>4. CASE input' = input /\ input_pos' = p
  BY <1>1, <1>2, <1>3, <1>4 DEF InputInv
<1>5. CASE input' = SubSeq(input, p + 1, l) /\ input_pos' = 0
  <2>1. PICK P : P = (DOMAIN wire) \X Nat
    OBVIOUS
  <2>2. input \in Seq(P)
    BY <2>1 DEF InputInv
  <2>3. SubSeq(input, p + 1, l) \in Seq(P)
    <3>1. \A i \in (p + 1)..l : input[i] \in P
      BY <1>1, <2>2
    <3> QED BY <1>1, <1>2, <2>2, <3>1
  <2>4. input' \in Seq((DOMAIN wire) \X Nat)
    BY <1>5, <2>1, <2>3
  <2> QED BY <1>3, <1>5, <2>4 DEF InputInv
<1>6. \/ input' = input /\ input_pos' = p
      \/ input' = SubSeq(input, p + 1, l) /\ input_pos' = 0
  BY <1>1 DEF Progress, compact_input
<1> QED BY <1>3, <1>4, <1>5, <1>6

\* An error leaves the input where the handler had read to.
LEMMA FailsKeeps ==
  ASSUME InputInv, NEW n \in Nat, n <= Available, NEW e, Fails(e, n)
  PROVE  InputInv' /\ UNCHANGED options
<1>1. UNCHANGED <<options, wire, pushed, input>> /\ input_pos' = input_pos + n
  BY DEF Fails, callerVars
<1>2. Len(input) \in Nat /\ input_pos + n <= Len(input) /\ input_pos + n \in Nat
  BY DEF InputInv, Available
<1> QED BY <1>1, <1>2 DEF InputInv

\* What a buffer and what was delivered from it come to.
LEMMA Counts ==
  ASSUME NEW del, Listed(del), NEW out, Listed(out), NEW pos \in Nat, pos <= Len(out)
  PROVE  /\ Len(del) \in Nat /\ Len(out) \in Nat
         /\ Listed(SubSeq(out, pos + 1, Len(out)))
         /\ Len(SubSeq(out, pos + 1, Len(out))) = Len(out) - pos
         /\ Len(del \o SubSeq(out, pos + 1, Len(out))) = Len(del) + (Len(out) - pos)
<1>1. PICK l \in Nat : l = Len(out)
  BY ListsJoin
<1>2. pos + 1 \in 1..(l + 1) /\ l \in pos..l
  BY <1>1
<1>3. Listed(SubSeq(out, pos + 1, l)) /\ Len(SubSeq(out, pos + 1, l)) = l - pos
  <2>1. Listed(SubSeq(out, pos + 1, l)) /\ Len(SubSeq(out, pos + 1, l)) = l - (pos + 1) + 1
    <3>1. pos + 1 \in 1..(Len(out) + 1) /\ l \in (pos + 1 - 1)..Len(out)
      BY <1>1, <1>2
    <3> QED BY <3>1, ListsCut
  <2> QED BY <1>1, <2>1
<1> QED BY <1>1, <1>3, ListsJoin

\* The counts the abstract window keeps.
LEMMA Counted ==
  ASSUME BufferInv
  PROVE  /\ Len(delivered) \in Nat /\ Len(output) \in Nat
         /\ Len(Pending) = Len(output) - output_pos
         /\ Len(Produced) = Len(delivered) + (Len(output) - output_pos)
BY Counts DEF BufferInv, Pending, Produced

\* The buffer after p bytes have been drained and d dropped.
LEMMA FrontDrops ==
  ASSUME NEW out, Listed(out), NEW p \in Nat, p <= Len(out), NEW d \in 0..p
  PROVE  LET rest == SubSeq(out, d + 1, Len(out))
         IN  /\ Listed(rest) /\ Len(rest) = Len(out) - d
             /\ p - d \in Nat /\ p - d <= Len(rest)
<1>1. PICK l \in Nat : l = Len(out)
  BY ListsJoin
<1>2. d \in Nat /\ d <= Len(out)
  BY <1>1
<1>3. Listed(SubSeq(out, d + 1, l)) /\ Len(SubSeq(out, d + 1, l)) = l - d
  BY <1>1, <1>2, Counts
<1> QED BY <1>1, <1>2, <1>3

\* The two sides agree on what a compaction drops, and neither drops undrained bytes.
LEMMA OutputDrops ==
  ASSUME NEW l \in Nat, NEW p \in Nat, p <= l, NEW o \in BOOLEAN, NEW w, o => w \in Nat
  PROVE  /\ compact_output(l, p, o, w) \in 0..p
         /\ AbstractWindow!compact_output(l, p, o, w) = compact_output(l, p, o, w)
<1>1. PICK r \in Nat : /\ r = retain_for_matches(o, w)
                       /\ r = AbstractWindow!retain_for_matches(o, w)
  BY DEF retain_for_matches, AbstractWindow!retain_for_matches
<1>2. PICK t \in 0..p : /\ t = Least(p, saturating_sub(l, r))
                        /\ t = AbstractWindow!Least(p, AbstractWindow!saturating_sub(l, r))
  <2>1. PICK s \in Nat : s = saturating_sub(l, r) /\ s = AbstractWindow!saturating_sub(l, r)
    BY <1>1 DEF saturating_sub, AbstractWindow!saturating_sub
  <2>2. Least(p, s) \in 0..p /\ Least(p, s) = AbstractWindow!Least(p, s)
    BY <2>1 DEF Least, AbstractWindow!Least
  <2> QED BY <2>1, <2>2
<1> QED BY <1>1, <1>2 DEF compact_output, AbstractWindow!compact_output

\* They agree between frames too.
LEMMA BetweenDrops ==
  ASSUME NEW l \in Nat, NEW p \in Nat, p <= l
  PROVE  /\ compact_between_frames(l, p) \in 0..p
         /\ AbstractWindow!compact_between_frames(l, p) = compact_between_frames(l, p)
BY DEF compact_between_frames, AbstractWindow!compact_between_frames

\* An open frame's window.
LEMMA WindowOf ==
  ASSUME options \in Configured, NEW f, OpenFrame(f)
  PROVE  /\ f.window_size \in Nat /\ f.header.block_size_max = Least(f.window_size, BlockSizeMax)
         /\ f.frame_start \in Nat
BY SetupsAssumption DEF OpenFrame, Configured, IsUnit

\* An open frame of another position, output size or entropy is still one.
LEMMA FrameMoved ==
  ASSUME options \in Configured, FrameInv, NEW start \in Nat
  PROVE  LET f == [frame EXCEPT !.frame_start = start]
         IN  frame.open => /\ OpenFrame(f)
                           /\ f.open = frame.open /\ f.window_size = frame.window_size
                           /\ f.frame_output_size = frame.frame_output_size
                           /\ f.origin = frame.origin /\ f.frame_start = start
<1>1. SUFFICES ASSUME frame.open
      PROVE  LET f == [frame EXCEPT !.frame_start = start]
             IN  /\ OpenFrame(f)
                 /\ f.open = frame.open /\ f.window_size = frame.window_size
                 /\ f.frame_output_size = frame.frame_output_size
                 /\ f.origin = frame.origin /\ f.frame_start = start
  OBVIOUS
<1>2. PICK f : f = [frame EXCEPT !.frame_start = start]
  OBVIOUS
<1>3. frame = [open |-> TRUE, header |-> frame.header, window_size |-> frame.window_size,
               frame_start |-> frame.frame_start, frame_output_size |-> frame.frame_output_size,
               hashed |-> frame.hashed, entropy |-> frame.entropy, origin |-> frame.origin]
  BY <1>1 DEF FrameInv, OpenFrame
<1>4. f = [open |-> TRUE, header |-> frame.header, window_size |-> frame.window_size,
           frame_start |-> start, frame_output_size |-> frame.frame_output_size,
           hashed |-> frame.hashed, entropy |-> frame.entropy, origin |-> frame.origin]
  <2>1. PICK h, w, s, c, x, e, g :
          frame = [open |-> TRUE, header |-> h, window_size |-> w, frame_start |-> s,
                   frame_output_size |-> c, hashed |-> x, entropy |-> e, origin |-> g]
    BY <1>3
  <2>2. f = [open |-> TRUE, header |-> h, window_size |-> w, frame_start |-> start,
             frame_output_size |-> c, hashed |-> x, entropy |-> e, origin |-> g]
    BY <1>2, <2>1
  <2>3. /\ frame.header = h /\ frame.window_size = w /\ frame.frame_output_size = c
        /\ frame.hashed = x /\ frame.entropy = e /\ frame.origin = g
    BY <2>1
  <2> QED BY <2>2, <2>3
<1>5. /\ f.open = TRUE /\ f.header = frame.header /\ f.window_size = frame.window_size
      /\ f.frame_start = start /\ f.frame_output_size = frame.frame_output_size
      /\ f.hashed = frame.hashed /\ f.entropy = frame.entropy /\ f.origin = frame.origin
  BY <1>4
<1>6. OpenFrame(f)
  BY <1>1, <1>4, <1>5 DEF FrameInv, OpenFrame
<1>7. frame.open = TRUE
  BY <1>3
<1> QED BY <1>2, <1>5, <1>6, <1>7

\* The caller takes n bytes: consume_output.
LEMMA TakeKeeps ==
  ASSUME options \in Configured, BufferInv, FrameInv,
         NEW n \in Nat, n <= Len(output) - output_pos, Take(n),
         UNCHANGED <<options, total_output_size>>
  PROVE  /\ BufferInv' /\ FrameInv' /\ frame'.open = frame.open
         /\ AbstractWindow!consume_output(n)
<1>1. PICK l \in Nat, p \in Nat : l = Len(output) /\ p = output_pos + n /\ p <= l
  <2>1. Len(output) \in Nat /\ output_pos + n \in Nat /\ output_pos + n <= Len(output)
    BY Counted DEF BufferInv
  <2> QED BY <2>1
<1>2. /\ Len(delivered) \in Nat /\ Listed(delivered) /\ Listed(output)
      /\ output_pos \in Nat /\ output_pos <= l
      /\ Len(Produced) = Len(delivered) + (l - output_pos)
  BY <1>1, Counted DEF BufferInv
<1>3. /\ frame.open \in BOOLEAN
      /\ frame.open => frame.window_size \in Nat /\ frame.frame_start \in Nat
  BY WindowOf DEF FrameInv
<1>4. PICK d \in 0..p : /\ d = compact_output(l, p, frame.open, frame.window_size)
                        /\ d = AbstractWindow!compact_output(l, p, frame.open, frame.window_size)
  BY <1>1, <1>3, OutputDrops
<1>5. /\ delivered' = delivered \o SubSeq(output, output_pos + 1, p)
      /\ output' = SubSeq(output, d + 1, l)
      /\ output_pos' = p - d
      /\ frame' = IF frame.open
                  THEN [frame EXCEPT !.frame_start = release_history(frame.frame_start, d)]
                  ELSE frame
  BY <1>1, <1>4 DEF Take
<1>6. Listed(SubSeq(output, output_pos + 1, p)) /\ Len(SubSeq(output, output_pos + 1, p)) = n
  <2>1. output_pos + 1 \in 1..(Len(output) + 1) /\ p \in (output_pos + 1 - 1)..Len(output)
    BY <1>1, <1>2
  <2>2. p - (output_pos + 1) + 1 = n
    BY <1>1, <1>2
  <2> QED BY <1>2, <2>1, <2>2, ListsCut
<1>7. Listed(delivered') /\ Len(delivered') = Len(delivered) + n
  BY <1>2, <1>5, <1>6, ListsJoin
<1>8. /\ Listed(output') /\ Len(output') = l - d
      /\ output_pos' \in Nat /\ output_pos' <= Len(output')
  BY <1>1, <1>2, <1>5, FrontDrops
<1>9. Len(Produced') = Len(delivered') + (Len(output') - output_pos')
  <2>1. Len(delivered' \o SubSeq(output', output_pos' + 1, Len(output')))
          = Len(delivered') + (Len(output') - output_pos')
    BY ZenonT(30), <1>7, <1>8, Counts
  <2> QED BY <2>1 DEF Produced, Pending
<1>10. BufferInv'
  BY <1>7, <1>8 DEF BufferInv
<1>11. PICK start : /\ start = release_history(frame.frame_start, d)
                    /\ start = AbstractWindow!release_history(frame.frame_start, d)
                    /\ frame.open => start \in Nat
  <2>1. release_history(frame.frame_start, d)
          = AbstractWindow!release_history(frame.frame_start, d)
    BY DEF release_history, saturating_sub, AbstractWindow!release_history,
           AbstractWindow!saturating_sub
  <2>2. ASSUME frame.open PROVE release_history(frame.frame_start, d) \in Nat
    <3>1. PICK s \in Nat : s = frame.frame_start
      BY <1>3, <2>2
    <3>2. IF s >= d THEN s - d \in Nat ELSE 0 \in Nat
      BY <1>4, <3>1
    <3> QED BY <3>1, <3>2 DEF release_history, saturating_sub
  <2> QED BY <2>1, <2>2
<1>12. /\ FrameInv' /\ frame'.open = frame.open /\ frame'.window_size = frame.window_size
       /\ frame'.frame_output_size = frame.frame_output_size /\ frame'.origin = frame.origin
       /\ frame'.frame_start = IF frame.open THEN start ELSE frame.frame_start
  <2>1. CASE frame.open
    <3>1. frame' = [frame EXCEPT !.frame_start = start] /\ start \in Nat
      BY <1>5, <1>11, <2>1
    <3>2. /\ OpenFrame(frame')
          /\ frame'.open = frame.open /\ frame'.window_size = frame.window_size
          /\ frame'.frame_output_size = frame.frame_output_size
          /\ frame'.origin = frame.origin /\ frame'.frame_start = start
      BY <2>1, <3>1, FrameMoved
    <3> QED BY <1>3, <2>1, <3>2 DEF FrameInv, OpenFrame, GoodEntropy
  <2>2. CASE ~frame.open
    BY <1>3, <1>5, <2>2 DEF FrameInv
  <2> QED BY <2>1, <2>2
<1>13. PICK m \in Nat, q \in Nat : m = Len(delivered) /\ q = output_pos /\ p = q + n
  BY <1>1, <1>2
<1>14. AbstractWindow!DropFront(l, p, d)
  <2>1. Len(output)' = l - d /\ output_pos' = p - d
    BY <1>5, <1>8
  <2>2. (Len(delivered) - output_pos)' = (m + n) - (p - d)
    BY <1>5, <1>7, <1>13
  <2>3. (m + n) - (p - d) = (m - q) + d
    BY <1>4, <1>13
  <2> QED BY <1>13, <2>1, <2>2, <2>3 DEF AbstractWindow!DropFront
<1>15. Len(Produced)' = Len(Produced)
  <2>1. Len(Produced)' = (m + n) + ((l - d) - (p - d))
    BY <1>5, <1>7, <1>8, <1>9, <1>13
  <2>2. Len(Produced) = m + (l - q)
    BY <1>2, <1>13
  <2>3. (m + n) + ((l - d) - (p - d)) = m + (l - q)
    BY <1>1, <1>4, <1>13
  <2> QED BY <2>1, <2>2, <2>3
<1>16. /\ n <= Len(output) - output_pos
       /\ frame.frame_start' = IF frame.open
                               THEN AbstractWindow!release_history(frame.frame_start, d)
                               ELSE frame.frame_start
       /\ Len(delivered)' = Len(delivered) + n
  BY <1>7, <1>11, <1>12
<1>17. UNCHANGED <<frame.open, frame.window_size, frame.frame_output_size, total_output_size,
                   Len(Produced), frame.origin>>
  BY <1>12, <1>15
<1> QED BY <1>1, <1>4, <1>10, <1>12, <1>14, <1>16, <1>17 DEF AbstractWindow!consume_output

\* What no drain touches of the input and the state.
LEMMA InputStays ==
  ASSUME InputInv, UNCHANGED <<inputVars, callerVars>>
  PROVE  InputInv' /\ UNCHANGED options
BY DEF InputInv, inputVars, callerVars

\* A step that leaves the state and the frame's being open leaves what the state promises.
LEMMA StateStays ==
  ASSUME StateInv, UNCHANGED <<options, state>>, frame'.open = frame.open
  PROVE  StateInv'
BY DEF StateInv

\* read: consume_output of at least one byte.
LEMMA ReadMoves ==
  ASSUME StreamInv, NEW n \in Drains, read(n)
  PROVE  StreamInv' /\ Moves /\ \E m \in Nat : AbstractWindow!consume_output(m)
<1>1. options \in Configured /\ InputInv /\ BufferInv /\ FrameInv /\ StateInv
  BY DEF StreamInv, InputInv
<1>2. n \in Nat \ {0}
  BY StreamDecoderAssumption
<1>3. /\ Pending # << >> /\ Take(Least(n, Len(Pending)))
      /\ UNCHANGED <<inputVars, callerVars, state, total_output_size>>
  BY DEF read
<1>4. InputInv' /\ UNCHANGED options
  BY <1>1, <1>3, InputStays
<1>5. PICK l \in Nat : l = Len(output) - output_pos /\ l = Len(Pending) /\ l # 0
  <2>1. Len(output) - output_pos \in Nat /\ Len(Pending) = Len(output) - output_pos
    BY <1>1, Counted DEF BufferInv
  <2>2. Listed(Pending)
    BY <1>1, Counts DEF BufferInv, Pending
  <2>3. Len(Pending) # 0
    BY <1>3, <2>2 DEF Listed
  <2> QED BY <2>1, <2>3
<1>6. PICK m \in 1..l : m = Least(n, l)
  <2>1. Least(n, l) \in 1..l
    BY <1>2, <1>5 DEF Least
  <2> QED BY <2>1
<1>7. m \in Nat /\ m <= Len(output) - output_pos /\ Take(m)
  BY <1>3, <1>5, <1>6
<1>8. BufferInv' /\ FrameInv' /\ frame'.open = frame.open /\ AbstractWindow!consume_output(m)
  BY <1>1, <1>3, <1>4, <1>7, TakeKeeps
<1>9. StateInv'
  BY <1>1, <1>3, <1>4, <1>8, StateStays
<1>10. AbstractWindow!Next
  <2>1. m \in 1..(Len(output) - output_pos)
    BY <1>5, <1>6
  <2> QED BY <1>4, <1>8, <2>1 DEF AbstractWindow!Next
<1> QED BY <1>4, <1>7, <1>8, <1>9, <1>10 DEF StreamInv, Moves

\* take_output: the Vec itself between frames, or consume_output of all that is pending.
LEMMA TakeOutputMoves ==
  ASSUME StreamInv, take_output
  PROVE  StreamInv' /\ Moves /\ AbstractWindow!take_output
<1>1. options \in Configured /\ InputInv /\ BufferInv /\ FrameInv /\ StateInv
  BY DEF StreamInv, InputInv
<1>2. UNCHANGED <<inputVars, callerVars, state, total_output_size>>
  BY DEF take_output
<1>3. InputInv' /\ UNCHANGED options
  BY <1>1, <1>2, InputStays
<1>4. PICK l \in Nat, m \in Nat : /\ l = Len(output) /\ m = Len(delivered)
                                  /\ output_pos \in Nat /\ output_pos <= l
                                  /\ Len(Pending) = l - output_pos
                                  /\ Len(Produced) = m + (l - output_pos)
  BY <1>1, Counted DEF BufferInv
<1>5. CASE output_pos = 0 /\ ~frame.open
  <2>1. /\ delivered' = delivered \o output /\ output' = << >>
        /\ UNCHANGED <<output_pos, frame>>
    BY <1>5 DEF take_output
  <2>2. Listed(output') /\ Len(output') = 0
    BY <2>1, NoneListed
  <2>3. Listed(delivered') /\ Len(delivered') = m + l
    BY <1>1, <1>4, <2>1, ListsJoin DEF BufferInv
  <2>4. BufferInv' /\ FrameInv'
    <3>1. FrameInv'
      BY <1>1, <1>5, <2>1 DEF FrameInv
    <3>2. BufferInv'
      BY <1>1, <1>2, <1>5, <2>1, <2>2, <2>3 DEF BufferInv
    <3> QED BY <3>1, <3>2
  <2>5. StateInv'
    BY <1>1, <1>2, <1>3, <2>1, StateStays
  <2>6. Len(Produced') = m + l
    <3>1. Len(delivered' \o SubSeq(output', output_pos' + 1, Len(output')))
            = Len(delivered') + (Len(output') - output_pos')
      BY <1>5, <2>1, <2>2, <2>3, Counts
    <3>2. Len(delivered') + (Len(output') - output_pos') = m + l
      BY <1>4, <1>5, <2>1, <2>2, <2>3
    <3> QED BY <3>1, <3>2 DEF Produced, Pending
  <2>7. AbstractWindow!take_output
    <3>1. l - l = 0 /\ m + l - 0 = m - 0 + l /\ 0 - 0 = 0
      BY <1>4
    <3>2. Len(output)' = l - l /\ (Len(delivered) - output_pos)' = m - output_pos + l
      BY <1>4, <1>5, <2>1, <2>2, <2>3
    <3>3. Len(delivered)' = Len(delivered) + l /\ Len(Produced)' = Len(Produced)
      BY <1>4, <1>5, <2>3, <2>6
    <3>4. AbstractWindow!take_whole_buffer
      BY <1>2, <1>4, <1>5, <2>1, <3>1, <3>2, <3>3
         DEF AbstractWindow!take_whole_buffer, AbstractWindow!DropFront,
             AbstractWindow!frameVars
    <3> QED BY <1>5, <3>4 DEF AbstractWindow!take_output
  <2> QED
    BY <1>3, <2>4, <2>5, <2>7 DEF StreamInv, Moves, AbstractWindow!Next
<1>6. CASE ~(output_pos = 0 /\ ~frame.open)
  <2>1. Take(Len(Pending))
    BY <1>6 DEF take_output
  <2>2. /\ Len(output) - output_pos \in Nat /\ Len(Pending) = Len(output) - output_pos
        /\ Len(output) - output_pos <= Len(output) - output_pos
    BY <1>4
  <2>3. /\ BufferInv' /\ FrameInv' /\ frame'.open = frame.open
        /\ AbstractWindow!consume_output(Len(output) - output_pos)
    BY <1>1, <1>2, <1>3, <2>1, <2>2, TakeKeeps
  <2>4. StateInv'
    BY <1>1, <1>2, <1>3, <2>3, StateStays
  <2>5. AbstractWindow!take_output
    BY <1>6, <2>3 DEF AbstractWindow!take_output
  <2> QED BY <1>3, <2>3, <2>4, <2>5 DEF StreamInv, Moves, AbstractWindow!Next
<1> QED BY <1>5, <1>6

\* What the input handlers do not touch.
LEMMA BufferStays ==
  ASSUME BufferInv, FrameInv, UNCHANGED <<options, outputVars, frame, total_output_size>>
  PROVE  BufferInv' /\ FrameInv' /\ Moves /\ frame'.open = frame.open
<1>1. UNCHANGED <<options, output, output_pos, delivered, frame, total_output_size>>
  BY DEF outputVars
<1>2. BufferInv'
  BY <1>1 DEF BufferInv
<1>3. FrameInv'
  BY <1>1 DEF FrameInv, OpenFrame
<1>4. Moves
  BY <1>1, Stutters
<1> QED BY <1>1, <1>2, <1>3, <1>4

\* push: bytes of the wire's units, and nothing else moves.
LEMMA PushMoves ==
  ASSUME StreamInv, NEW n \in PushSizes, push(n)
  PROVE  StreamInv' /\ Moves
<1>1. options \in Configured /\ InputInv /\ BufferInv /\ FrameInv /\ StateInv
  BY DEF StreamInv, InputInv
<1>2. /\ input' = input \o SubSeq(Bytes(wire), pushed + 1, pushed + n) /\ pushed' = pushed + n
      /\ UNCHANGED <<input_pos, options, wire, state, outputVars, frame, total_output_size>>
  BY DEF push
<1>3. wire \in Seq(UnitsOf(options)) /\ \A u \in UnitsOf(options) : IsUnit(u)
  BY <1>1, SetupsAssumption DEF InputInv, Configured
<1>4. PICK P, bytes, s : /\ P = (DOMAIN wire) \X Nat /\ bytes = Bytes(wire) /\ s = Size(wire)
                         /\ bytes \in Seq(P) /\ Len(bytes) = s /\ s \in Nat
  BY <1>3, BytesOfUnits
<1>5. PICK a \in Nat, l \in Nat : a = pushed /\ l = Len(input) /\ input \in Seq(P) /\ a <= s
  BY <1>1, <1>4 DEF InputInv
<1>6. n \in Nat /\ a + n <= s
  BY <1>4, <1>5, StreamDecoderAssumption DEF PushSizes
<1>7. SubSeq(bytes, a + 1, a + n) \in Seq(P)
  <2>1. \A i \in (a + 1)..(a + n) : bytes[i] \in P
    BY <1>4, <1>5, <1>6
  <2> QED BY <1>4, <1>5, <1>6, <2>1
<1>8. PICK more \in Seq(P) : more = SubSeq(bytes, a + 1, a + n)
  BY <1>7
<1>9. input' \in Seq(P) /\ Len(input') = l + Len(more) /\ Len(more) \in Nat
  <2>1. input' = input \o more
    BY <1>2, <1>4, <1>5, <1>8
  <2> QED BY <1>5, <2>1, ConcatProperties
<1>10. InputInv'
  <2>1. wire' \in WiresOf(options') /\ options' \in Configured
    BY <1>1, <1>2 DEF InputInv, WiresOf
  <2>2. pushed' \in Nat /\ pushed' <= Size(wire')
    BY <1>2, <1>4, <1>5, <1>6
  <2>3. input' \in Seq((DOMAIN wire') \X Nat)
    BY <1>2, <1>4, <1>9
  <2>4. input_pos' \in Nat /\ input_pos' <= Len(input')
    BY <1>1, <1>2, <1>5, <1>9 DEF InputInv
  <2> QED BY <2>1, <2>2, <2>3, <2>4 DEF InputInv
<1>11. BufferInv' /\ FrameInv' /\ Moves /\ frame'.open = frame.open
  BY <1>1, <1>2, BufferStays
<1>12. StateInv'
  BY <1>1, <1>2, <1>11, StateStays
<1> QED BY <1>10, <1>11, <1>12 DEF StreamInv

\* finish, and a loop that breaks without a turn.
LEMMA IdleMoves ==
  ASSUME StreamInv, finish \/ process_stalled
  PROVE  StreamInv' /\ Moves
<1>1. InputInv /\ BufferInv /\ FrameInv /\ StateInv
  BY DEF StreamInv
<1>2. UNCHANGED <<inputVars, callerVars, outputVars, state, frame, total_output_size>>
  BY DEF finish, process_stalled, Returns
<1>3. InputInv' /\ UNCHANGED options
  BY <1>1, <1>2, InputStays
<1>4. BufferInv' /\ FrameInv' /\ Moves /\ frame'.open = frame.open
  BY <1>1, <1>2, <1>3, BufferStays
<1>5. StateInv'
  BY <1>1, <1>2, <1>3, <1>4, StateStays
<1> QED BY <1>3, <1>4, <1>5 DEF StreamInv

\* reset: the accounting restarts at a frame boundary.
LEMMA ResetMoves ==
  ASSUME StreamInv, NEW w \in Again, reset(w)
  PROVE  StreamInv' /\ Moves
<1>1. options \in Configured /\ InputInv /\ BufferInv /\ FrameInv /\ StateInv
  BY DEF StreamInv, InputInv
<1>2. /\ wire' = w /\ pushed' = 0 /\ input' = << >> /\ input_pos' = 0
      /\ state' = FrameHeaderState /\ total_output_size' = 0
      /\ UNCHANGED <<options, output, output_pos, delivered, frame>>
      /\ finish_status = "Ok"
  BY DEF reset, outputVars
<1>3. ~frame.open
  BY <1>2 DEF finish_status
<1>4. w \in WiresOf(options)
  BY DEF Again, WiresOf
<1>5. InputInv'
  <2>1. w \in Seq(UnitsOf(options)) /\ \A u \in UnitsOf(options) : IsUnit(u)
    BY <1>1, <1>4, SetupsAssumption DEF Configured
  <2>2. Size(w) \in Nat
    BY <2>1, BytesOfUnits
  <2>3. /\ options' \in Configured /\ wire' \in WiresOf(options)
        /\ pushed' \in Nat /\ pushed' <= Size(wire')
    BY <1>1, <1>2, <1>4, <2>2
  <2>4. input' \in Seq((DOMAIN wire') \X Nat) /\ input_pos' \in Nat /\ input_pos' <= Len(input')
    BY <1>2
  <2>5. WiresOf(options)' = WiresOf(options)
    BY <1>2 DEF WiresOf
  <2> QED BY <2>3, <2>4, <2>5 DEF InputInv
<1>6. BufferInv'
  BY <1>1, <1>2 DEF BufferInv
<1>7. FrameInv'
  BY <1>1, <1>2, <1>3 DEF FrameInv
<1>8. StateInv'
  BY <1>2, <1>3 DEF StateInv, FrameHeaderState
<1>9. AbstractWindow!reset
  BY <1>2, <1>3 DEF AbstractWindow!reset, AbstractWindow!frameVars, Produced, Pending
<1>10. AbstractWindow!Next
  BY <1>2, <1>9 DEF AbstractWindow!Next
<1> QED BY <1>5, <1>6, <1>7, <1>8, <1>10 DEF StreamInv, Moves

\* A header the loop goes on with is whole.
LEMMA HeaderRead ==
  ASSUME InputInv, state.tag = "FrameHeader", ~Stalled
  PROVE  /\ Available # 0 /\ Unit \in UnitsOf(options) /\ IsUnit(Unit) /\ Unit \in Units
         /\ HeaderError = "Ok" => Unit.kind \in {"frame", "skippable"} /\ Unit.size <= Available
<1>1. /\ Available # 0
      /\ \/ options.single_frame /\ decoded_a_frame
         \/ parse_frame_header(Unit, Available) # "UnexpectedEof"
  BY DEF Stalled
<1>2. /\ Unit \in UnitsOf(options) /\ IsUnit(Unit) /\ Unit \in Units /\ Available \in Nat
  BY <1>1, UnitIs
<1>3. PICK u, n : u = Unit /\ n = Available /\ u.size \in Nat /\ n \in Nat
  BY <1>2 DEF IsUnit
<1>4. ASSUME HeaderError = "Ok" PROVE u.kind \in {"frame", "skippable"} /\ u.size <= n
  <2>1. ~(options.single_frame /\ decoded_a_frame) /\ parse_frame_header(u, n) # "BadMagic"
    BY <1>3, <1>4 DEF HeaderError
  <2>2. parse_frame_header(u, n) # "UnexpectedEof"
    BY <1>1, <1>3, <2>1
  <2>3. ~(n < MAGIC_SIZE)
    BY <1>3, <2>2 DEF parse_frame_header, MAGIC_SIZE
  <2>4. u.kind \in {"frame", "skippable"}
    BY <1>3, <2>1, <2>3 DEF parse_frame_header, MAGIC_SIZE
  <2>5. ~(n < u.size)
    BY <1>3, <2>2, <2>3, <2>4 DEF parse_frame_header, MAGIC_SIZE
  <2> QED BY <1>3, <2>4, <2>5
<1> QED BY <1>1, <1>2, <1>3, <1>4

\* The header actions that touch no output.
LEMMA HeaderMoves ==
  ASSUME StreamInv, process_frame_header_error \/ process_skippable_header
  PROVE  StreamInv' /\ Moves
<1>1. InputInv /\ BufferInv /\ FrameInv /\ StateInv
  BY DEF StreamInv
<1>2. /\ state.tag = "FrameHeader" /\ ~Stalled
      /\ UNCHANGED <<outputVars, frame, total_output_size>>
  BY DEF process_frame_header_error, process_skippable_header
<1>3. IsUnit(Unit) /\ Available \in Nat /\ (HeaderError = "Ok" => Unit.size <= Available)
  BY <1>1, <1>2, HeaderRead, UnitIs
<1>4. CASE process_frame_header_error
  <2>1. Fails(HeaderError, 0) /\ UNCHANGED state
    BY <1>4 DEF process_frame_header_error
  <2>2. 0 \in Nat /\ 0 <= Available
    BY <1>3
  <2>3. InputInv' /\ UNCHANGED options
    BY <1>1, <2>1, <2>2, FailsKeeps
  <2>4. BufferInv' /\ FrameInv' /\ Moves /\ frame'.open = frame.open
    BY <1>1, <1>2, <2>3, BufferStays
  <2>5. StateInv'
    BY <1>1, <2>1, <2>3, <2>4, StateStays
  <2> QED BY <2>3, <2>4, <2>5 DEF StreamInv
<1>5. CASE process_skippable_header
  <2>1. /\ Progress(Unit.size) /\ state' = SkippableState(Unit.remaining)
        /\ HeaderError = "Ok" /\ Unit.kind = "skippable"
    BY <1>5 DEF process_skippable_header
  <2>2. Unit.size \in Nat /\ Unit.size <= Available /\ Unit.remaining \in Nat
    BY <1>3, <2>1 DEF IsUnit
  <2>3. InputInv' /\ UNCHANGED options
    BY <1>1, <2>1, <2>2, ProgressKeeps
  <2>4. BufferInv' /\ FrameInv' /\ Moves /\ frame'.open = frame.open
    BY <1>1, <1>2, <2>3, BufferStays
  <2>5. ~frame.open
    BY <1>1, <1>2 DEF StateInv
  <2>6. StateInv'
    BY <2>1, <2>2, <2>4, <2>5 DEF StateInv, SkippableState
  <2> QED BY <2>3, <2>4, <2>6 DEF StreamInv
<1> QED BY <1>4, <1>5

\* process_skippable_frame moves the input and the state only.
LEMMA SkippableMoves ==
  ASSUME StreamInv, process_skippable_frame
  PROVE  StreamInv' /\ Moves
<1>1. InputInv /\ BufferInv /\ FrameInv /\ StateInv
  BY DEF StreamInv
<1>2. PICK r \in Nat, a \in Nat : /\ r = state.remaining /\ a = Available
                                  /\ state.tag = "Skippable" /\ ~frame.open
  <2>1. state.tag = "Skippable"
    BY DEF process_skippable_frame
  <2>2. state.remaining \in Nat /\ ~frame.open
    BY <1>1, <2>1 DEF StateInv
  <2>3. Available \in Nat
    BY <1>1 DEF InputInv, Available
  <2> QED BY <2>1, <2>2, <2>3
<1>3. PICK c \in Nat : c = Least(a, r) /\ c <= a /\ c <= r
  <2>1. Least(a, r) \in Nat /\ Least(a, r) <= a /\ Least(a, r) <= r
    BY DEF Least
  <2> QED BY <2>1
<1>4. /\ state' = IF r - c = 0 THEN FrameHeaderState ELSE SkippableState(r - c)
      /\ \/ Progress(c)
         \/ UNCHANGED <<inputVars, callerVars>>
      /\ UNCHANGED <<outputVars, frame, total_output_size>>
  BY <1>2, <1>3 DEF process_skippable_frame, Returns
<1>5. InputInv' /\ UNCHANGED options
  <2>1. c <= Available
    BY <1>2, <1>3
  <2> QED BY <1>1, <1>4, <2>1, ProgressKeeps, InputStays
<1>6. BufferInv' /\ FrameInv' /\ Moves /\ frame'.open = frame.open
  BY <1>1, <1>4, <1>5, BufferStays
<1>7. r - c \in Nat
  BY <1>3
<1>8. StateInv'
  <2>1. CASE r - c = 0
    BY <1>2, <1>4, <1>6, <2>1 DEF StateInv, FrameHeaderState
  <2>2. CASE r - c # 0
    BY <1>2, <1>4, <1>6, <1>7, <2>2 DEF StateInv, SkippableState
  <2> QED BY <2>1, <2>2
<1> QED BY <1>5, <1>6, <1>8 DEF StreamInv

\* process_block_header likewise.
LEMMA BlockHeaderMoves ==
  ASSUME StreamInv, process_block_header
  PROVE  StreamInv' /\ Moves
<1>1. InputInv /\ BufferInv /\ FrameInv /\ StateInv
  BY DEF StreamInv
<1>2. /\ state.tag = "BlockHeader" /\ ~Stalled /\ Unit.kind = "block"
      /\ UNCHANGED <<outputVars, frame, total_output_size>>
      /\ \/ /\ Unit.block_type # "Reserved" /\ state' = BlockPayloadState(Unit)
            /\ Progress(BLOCK_HEADER_SIZE)
         \/ Fails("Corruption", 0) /\ UNCHANGED state
  BY DEF process_block_header
<1>3. BLOCK_HEADER_SIZE \in Nat /\ BLOCK_HEADER_SIZE <= Available /\ Available # 0 /\ 0 \in Nat
  <2>1. Available \in Nat
    BY <1>1 DEF InputInv, Available
  <2>2. ~(Available < BLOCK_HEADER_SIZE)
    BY <1>2 DEF Stalled
  <2> QED BY <2>1, <2>2 DEF BLOCK_HEADER_SIZE
<1>4. Unit \in UnitsOf(options) /\ Available \in Nat
  BY <1>1, <1>3, UnitIs
<1>5. InputInv' /\ UNCHANGED options
  BY <1>1, <1>2, <1>3, <1>4, ProgressKeeps, FailsKeeps
<1>6. BufferInv' /\ FrameInv' /\ Moves /\ frame'.open = frame.open
  BY <1>1, <1>2, <1>5, BufferStays
<1>7. StateInv'
  <2>1. CASE UNCHANGED state
    BY <1>1, <1>5, <1>6, <2>1, StateStays
  <2>2. CASE Unit.block_type # "Reserved" /\ state' = BlockPayloadState(Unit)
    <3>1. /\ state'.tag = "BlockPayload" /\ state'.header = Unit
      BY <2>2 DEF BlockPayloadState
    <3>2. UnitsOf(options)' = UnitsOf(options)
      BY <1>5 DEF UnitsOf, WiresOf
    <3> QED BY <1>2, <1>4, <2>2, <3>1, <3>2 DEF StateInv
  <2> QED BY <1>2, <2>1, <2>2
<1> QED BY <1>5, <1>6, <1>7 DEF StreamInv

\* What a fresh frame starts from.
LEMMA FreshIsGood ==
  ASSUME NEW o \in Configured
  PROVE  GoodEntropy(o, FreshEntropy(o))
<1>1. CASE o.dictionary.present
  <2>1. FreshEntropy(o) = o.dictionary.entropy
    BY <1>1 DEF FreshEntropy
  <2>2. o.dictionary.entropy.repeat_offsets \in Triples
    BY <1>1, SetupsAssumption DEF Configured, Triples
  <2>3. \/ o.dictionary.entropy.sequence_table = NoTable
        \/ o.dictionary.entropy.sequence_table \in SequenceTables(o)
    BY <1>1 DEF SequenceTables
  <2> QED BY <2>1, <2>2, <2>3 DEF GoodEntropy
<1>2. CASE ~o.dictionary.present
  <2>1. PICK h, t : FreshEntropy(o) = [repeat_offsets |-> DefaultReps, huffman_table |-> h,
                                             sequence_table |-> NoTable]
    BY <1>2 DEF FreshEntropy
  <2>2. DefaultReps \in Triples
    BY DEF DefaultReps, Triples
  <2> QED BY <2>1, <2>2 DEF GoodEntropy
<1> QED BY <1>1, <1>2

\* process_frame_header on a Zstandard frame: a frame opens, or is rejected, and what was
\* drained may be dropped.
LEMMA FrameHeaderMoves ==
  ASSUME StreamInv, process_zstandard_header
  PROVE  /\ StreamInv' /\ Moves
         /\ (\E w : AbstractWindow!start_frame(w)) \/ AbstractWindow!reject_frame
<1>1. options \in Configured /\ InputInv /\ BufferInv /\ FrameInv /\ StateInv
  BY DEF StreamInv, InputInv
<1>2. /\ state.tag = "FrameHeader" /\ ~Stalled /\ HeaderError = "Ok" /\ Unit.kind = "frame"
      /\ UNCHANGED <<delivered, total_output_size>>
  BY DEF process_zstandard_header
<1>3. ~frame.open
  BY <1>1, <1>2 DEF StateInv
<1>4. PICK l \in Nat, p \in Nat : l = Len(output) /\ p = output_pos /\ p <= l
  <2>1. Len(output) \in Nat /\ output_pos \in Nat /\ output_pos <= Len(output)
    BY <1>1, Counted DEF BufferInv
  <2> QED BY <2>1
<1>5. PICK m \in Nat : m = Len(delivered) /\ Len(Produced) = m + (l - p)
  BY <1>1, <1>4, Counted
<1>6. PICK d \in 0..p : /\ d = compact_between_frames(l, p)
                        /\ d = AbstractWindow!compact_between_frames(l, p)
  BY <1>4, BetweenDrops
<1>7. output' = SubSeq(output, d + 1, l) /\ output_pos' = p - d
  BY <1>4, <1>6 DEF process_zstandard_header
<1>8. /\ Listed(output') /\ Len(output') = l - d
      /\ output_pos' \in Nat /\ output_pos' <= Len(output')
  BY <1>1, <1>4, <1>7, FrontDrops DEF BufferInv
<1>9. BufferInv'
  BY <1>1, <1>2, <1>8 DEF BufferInv
<1>10. Len(Produced)' = Len(Produced) /\ Len(delivered)' = Len(delivered)
  <2>1. Listed(delivered') /\ Len(delivered') = m
    BY <1>1, <1>2, <1>5 DEF BufferInv
  <2>2. Len(delivered' \o SubSeq(output', output_pos' + 1, Len(output')))
          = Len(delivered') + (Len(output') - output_pos')
    <3>1. PICK a, b, c : a = delivered' /\ b = output' /\ c = output_pos'
      OBVIOUS
    <3>2. Listed(a) /\ Listed(b) /\ c \in Nat /\ c <= Len(b)
      BY <1>8, <2>1, <3>1
    <3>3. Len(a \o SubSeq(b, c + 1, Len(b))) = Len(a) + (Len(b) - c)
      BY <3>2, Counts
    <3> QED BY <3>1, <3>3
  <2>3. m + ((l - d) - (p - d)) = m + (l - p)
    <3>1. d \in Int /\ p \in Int /\ l \in Int /\ m \in Int
      BY <1>4, <1>5, <1>6
    <3> QED BY <3>1
  <2>4. Len(Produced') = m + ((l - d) - (p - d))
    BY <1>7, <1>8, <2>1, <2>2 DEF Produced, Pending
  <2> QED BY <1>5, <2>1, <2>3, <2>4
<1>11. AbstractWindow!DropFront(l, p, d)
  <2>1. (Len(delivered) - output_pos)' = m - (p - d)
    BY <1>5, <1>7, <1>10
  <2>2. m - (p - d) = (m - p) + d
    BY <1>4, <1>5, <1>6
  <2> QED BY <1>4, <1>5, <1>7, <1>8, <2>1, <2>2 DEF AbstractWindow!DropFront
<1>12. Unit \in UnitsOf(options) /\ IsUnit(Unit) /\ Unit \in Units
       /\ Unit.size \in Nat /\ Unit.size <= Available
  BY <1>1, <1>2, HeaderRead DEF IsUnit
<1>13. CASE Progress(Unit.size) /\ state' = BlockHeaderState
            /\ frame' = FreshFrame(Unit, l - d, Len(Produced))
  <2>1. InputInv' /\ UNCHANGED options
    BY <1>1, <1>12, <1>13, ProgressKeeps
  <2>2. PICK u, e, g : u = Unit /\ e = FreshEntropy(options) /\ g = Len(Produced)
    OBVIOUS
  <2>3. frame' = [open |-> TRUE, header |-> u, window_size |-> u.window_size,
                  frame_start |-> l - d, frame_output_size |-> 0, hashed |-> << >>,
                  entropy |-> e, origin |-> g]
    BY <1>13, <2>2 DEF FreshFrame
  <2>4. /\ frame'.open = TRUE /\ frame'.header = u /\ frame'.window_size = u.window_size
        /\ frame'.frame_start = l - d /\ frame'.frame_output_size = 0 /\ frame'.hashed = << >>
        /\ frame'.entropy = e /\ frame'.origin = g
    BY <2>3
  <2>5. l - d \in Nat
    BY <1>4, <1>6
  <2>6. GoodEntropy(options', e) /\ u \in UnitsOf(options') /\ u.kind = "frame"
    BY <1>1, <1>2, <1>12, <2>1, <2>2, FreshIsGood
  <2>7. FrameInv'
    <3>1. frame' = [open |-> TRUE, header |-> frame'.header, window_size |-> frame'.window_size,
                    frame_start |-> frame'.frame_start,
                    frame_output_size |-> frame'.frame_output_size,
                    hashed |-> frame'.hashed, entropy |-> frame'.entropy, origin |-> frame'.origin]
      BY <2>3, <2>4
    <3>2. OpenFrame(frame)'
      BY <2>4, <2>5, <2>6, <3>1 DEF OpenFrame
    <3> QED BY <2>4, <3>2 DEF FrameInv
  <2>8. StateInv'
    BY <1>13 DEF StateInv, BlockHeaderState
  <2>9. u.window_size \in {v.window_size : v \in {x \in Units : x.kind = "frame"}}
    BY <1>2, <1>12, <2>2
  <2>10. AbstractWindow!start_frame(u.window_size)
    BY <1>2, <1>3, <1>4, <1>6, <1>10, <1>11, <2>2, <2>4 DEF AbstractWindow!start_frame
  <2>11. AbstractWindow!Next
    BY <2>1, <2>9, <2>10 DEF AbstractWindow!Next
  <2> QED BY <1>9, <2>1, <2>7, <2>8, <2>10, <2>11 DEF StreamInv, Moves
<1>14. CASE (\E e : Fails(e, Unit.size)) /\ UNCHANGED <<frame, state>>
  <2>1. InputInv' /\ UNCHANGED options
    BY <1>1, <1>12, <1>14, FailsKeeps
  <2>2. FrameInv' /\ StateInv'
    BY <1>1, <1>2, <1>3, <1>14 DEF FrameInv, StateInv
  <2>3. AbstractWindow!reject_frame
    BY <1>2, <1>3, <1>4, <1>6, <1>10, <1>11, <1>14
       DEF AbstractWindow!reject_frame, AbstractWindow!frameVars
  <2>4. AbstractWindow!Next
    BY <2>1, <2>3 DEF AbstractWindow!Next
  <2> QED BY <1>9, <2>1, <2>2, <2>3, <2>4 DEF StreamInv, Moves
<1>15. \/ Progress(Unit.size) /\ state' = BlockHeaderState
          /\ frame' = FreshFrame(Unit, l - d, Len(Produced))
       \/ (\E e : Fails(e, Unit.size)) /\ UNCHANGED <<frame, state>>
  BY <1>4, <1>6 DEF process_zstandard_header
<1> QED BY <1>13, <1>14, <1>15

\* What decode_block makes of the buffer is what the abstract window allows a block.
LEMMA BlockDecodes ==
  ASSUME StreamInv, state.tag = "BlockPayload", frame.open, NEW d, d = decode_block(state.header)
  PROVE  /\ Listed(d.out) /\ Len(d.out) \in Nat
         /\ Len(d.out) - Len(output) \in 0..BlockSizeMax
         /\ Len(d.out) - Len(output) <= AbstractWindow!FrameBlockSizeMax
         /\ \/ Len(d.out) - Len(output) = 0
            \/ AbstractWindow!WithinLimit(Len(d.out) - Len(output))
         /\ d.result = "Ok" => /\ AbstractWindow!WithinLimit(Len(d.out) - Len(output))
                               /\ GoodEntropy(options, d.entropy)
<1>1. options \in Configured /\ InputInv /\ BufferInv /\ FrameInv /\ StateInv /\ OpenFrame(frame)
  BY DEF StreamInv, InputInv, FrameInv
<1>2. /\ state.header \in UnitsOf(options) /\ state.header.kind = "block"
      /\ state.header.block_type # "Reserved"
  BY <1>1 DEF StateInv
<1>3. PICK w \in Nat, b \in Nat : /\ w = frame.window_size /\ b = frame.header.block_size_max
                                  /\ b = AbstractWindow!FrameBlockSizeMax /\ b <= BlockSizeMax
  <2>1. /\ frame.window_size \in Nat /\ BlockSizeMax \in Nat
        /\ frame.header.block_size_max = Least(frame.window_size, BlockSizeMax)
    BY <1>1, WindowOf, StreamDecoderAssumption
  <2>2. AbstractWindow!FrameBlockSizeMax = Least(frame.window_size, BlockSizeMax)
    BY DEF AbstractWindow!FrameBlockSizeMax, AbstractWindow!Least, Least
  <2>3. /\ Least(frame.window_size, BlockSizeMax) \in Nat
        /\ Least(frame.window_size, BlockSizeMax) <= BlockSizeMax
    BY <2>1 DEF Least
  <2> QED BY <2>1, <2>2, <2>3
<1>4. PICK l \in Nat, t \in Nat : l = Len(output) /\ t = total_output_size
  BY <1>1, Counted DEF BufferInv
<1>5. PICK r \in Nat : /\ r = saturating_sub(total_output_size, Len(output))
                       /\ r = AbstractWindow!saturating_sub(total_output_size, Len(output))
  <2>1. saturating_sub(t, l) \in Nat /\ saturating_sub(t, l) = AbstractWindow!saturating_sub(t, l)
    BY DEF saturating_sub, AbstractWindow!saturating_sub
  <2> QED BY <1>4, <2>1
<1>6. PICK cap : cap = options.max_output_size /\ cap \in Nat \cup {None}
  BY <1>1, SetupsAssumption DEF Configured
<1>7. PICK env : env = [frame_start |-> frame.frame_start, window_size |-> w, block_size_max |-> b]
  OBVIOUS
<1>8. PICK limit : limit = [produced_before |-> r, max_output_size |-> cap]
  OBVIOUS
<1>9. GoodEnv(env, limit) /\ env.block_size_max = b
  <2>1. frame.frame_start \in Nat
    BY <1>1, WindowOf
  <2>2. env.frame_start \in Nat /\ env.window_size = w /\ env.block_size_max = b
    BY <1>7, <2>1
  <2>3. limit.produced_before = r /\ limit.max_output_size = cap
    BY <1>8
  <2> QED BY <1>6, <2>2, <2>3 DEF GoodEnv
<1>10. d = DecodeBlock(state.header, env, options.dictionary, limit, output, frame.entropy)
  BY <1>3, <1>5, <1>6, <1>7, <1>8 DEF decode_block
<1>11. GoodOutcome(options, limit, b, output, d)
  <2>1. Listed(output) /\ GoodEntropy(options, frame.entropy)
    BY <1>1 DEF BufferInv, OpenFrame
  <2> QED BY <1>1, <1>2, <1>9, <1>10, <2>1, BlockKeeps
<1>12. PICK e \in Nat : e = Len(d.out) /\ l <= e /\ e - l <= b
  <2>1. Listed(d.out) /\ Len(output) <= Len(d.out) /\ Len(d.out) - Len(output) <= b
    BY <1>11 DEF GoodOutcome
  <2>2. Len(d.out) \in Nat
    BY <2>1, ListsJoin
  <2> QED BY <1>4, <2>1, <2>2
<1>13. ASSUME ~OverCap(limit, e) PROVE AbstractWindow!WithinLimit(e - l)
  <2>1. cap = None \/ r + e <= cap
    <3>1. limit.produced_before = r /\ limit.max_output_size = cap
      BY <1>8
    <3> QED BY <1>6, <1>12, <1>13, <3>1 DEF OverCap, None
  <2>2. (r + l) + (e - l) = r + e
    BY <1>4, <1>5, <1>12
  <2> QED BY <1>4, <1>5, <1>6, <2>1, <2>2 DEF AbstractWindow!WithinLimit, AbstractWindow!None, None
<1>14. e - l \in 0..BlockSizeMax /\ e - l <= AbstractWindow!FrameBlockSizeMax
  BY <1>3, <1>4, <1>12, StreamDecoderAssumption
<1> QED BY <1>4, <1>11, <1>12, <1>13, <1>14 DEF GoodOutcome

\* A failed block's bytes, or a decoded one's, in the buffer.
LEMMA Appended ==
  ASSUME BufferInv, Listed(output'), NEW n \in Nat, Len(output') = Len(output) + n,
         UNCHANGED <<output_pos, delivered>>, total_output_size' \in Nat
  PROVE  /\ BufferInv' /\ Len(Produced)' = Len(Produced) + n
         /\ UNCHANGED <<output_pos, Len(delivered), Len(delivered) - output_pos>>
<1>1. PICK l \in Nat, m \in Nat, p \in Nat : /\ l = Len(output) /\ m = Len(delivered)
                                             /\ p = output_pos /\ p <= l
                                             /\ Len(Produced) = m + (l - p)
  BY Counted DEF BufferInv
<1>2. BufferInv'
  <2>1. output_pos' \in Nat /\ output_pos' <= Len(output')
    BY <1>1
  <2> QED BY <2>1 DEF BufferInv
<1>3. Len(Produced') = m + ((l + n) - p)
  <2>1. PICK a, b, c : a = delivered' /\ b = output' /\ c = output_pos'
    OBVIOUS
  <2>2. Listed(a) /\ Listed(b) /\ c \in Nat /\ c <= Len(b)
    BY <1>2, <2>1 DEF BufferInv
  <2>3. Len(a \o SubSeq(b, c + 1, Len(b))) = Len(a) + (Len(b) - c)
    BY ZenonT(30), <2>2, Counts
  <2>4. Len(a) = m /\ Len(b) = l + n /\ c = p
    BY <1>1, <2>1
  <2> QED BY <2>1, <2>3, <2>4 DEF Produced, Pending
<1>4. m + ((l + n) - p) = (m + (l - p)) + n
  BY <1>1
<1> QED BY <1>1, <1>2, <1>3, <1>4

\* A payload the loop goes on with is whole.
LEMMA PayloadRead ==
  ASSUME StreamInv, state.tag = "BlockPayload", ~Stalled
  PROVE  payload_size(state.header) \in Nat /\ payload_size(state.header) <= Available
<1>1. state.header \in UnitsOf(options) /\ state.header.kind = "block" /\ options \in Configured
  BY DEF StreamInv, StateInv, InputInv
<1>2. state.header.block_size \in Nat
  BY <1>1, SetupsAssumption DEF Configured, IsUnit, IsBlock
<1>3. payload_size(state.header) \in Nat
  BY <1>2 DEF payload_size
<1>4. Available \in Nat
  BY DEF StreamInv, InputInv, Available
<1>5. ~(Available < payload_size(state.header))
  BY DEF Stalled
<1> QED BY <1>3, <1>4, <1>5

\* The abstract window has no bound on what is made.
LEMMA Unbounded == ASSUME NEW n PROVE AbstractWindow!WithinBound(n)
BY DEF AbstractWindow!WithinBound, AbstractWindow!None, None

\* process_block_payload where decode_block fails: fail_block of what became visible.
LEMMA BlockErrorMoves ==
  ASSUME StreamInv, process_block_error
  PROVE  StreamInv' /\ Moves /\ \E n \in 0..BlockSizeMax : AbstractWindow!fail_block(n)
<1>1. InputInv /\ BufferInv /\ FrameInv /\ StateInv
  BY DEF StreamInv
<1>2. PICK d : d = decode_block(state.header)
  OBVIOUS
<1>3. /\ state.tag = "BlockPayload" /\ ~Stalled /\ frame.open /\ d.result # "Ok"
      /\ output' = d.out /\ Fails(d.result, payload_size(state.header))
      /\ UNCHANGED <<output_pos, delivered, state, frame, total_output_size>>
  BY <1>2 DEF process_block_error
<1>4. InputInv' /\ UNCHANGED options
  BY <1>1, <1>3, PayloadRead, FailsKeeps
<1>5. /\ Listed(d.out) /\ Len(d.out) \in Nat
      /\ Len(d.out) - Len(output) \in 0..BlockSizeMax
      /\ Len(d.out) - Len(output) <= AbstractWindow!FrameBlockSizeMax
      /\ \/ Len(d.out) - Len(output) = 0
         \/ AbstractWindow!WithinLimit(Len(d.out) - Len(output))
  BY <1>2, <1>3, BlockDecodes
<1>6. PICK n \in 0..BlockSizeMax : n = Len(d.out) - Len(output)
  BY <1>5
<1>7. n \in Nat /\ Len(output') = Len(output) + n
  <2>1. Len(output) \in Nat /\ BlockSizeMax \in Nat
    BY <1>1, Counted, StreamDecoderAssumption
  <2> QED BY <1>3, <1>5, <1>6, <2>1
<1>8. /\ BufferInv' /\ Len(Produced)' = Len(Produced) + n
      /\ UNCHANGED <<output_pos, Len(delivered), Len(delivered) - output_pos>>
  <2>1. Listed(output') /\ total_output_size' \in Nat
    BY <1>1, <1>3, <1>5 DEF BufferInv
  <2> QED BY <1>1, <1>3, <1>7, <2>1, Appended
<1>9. FrameInv' /\ StateInv'
  <2>1. UnitsOf(options)' = UnitsOf(options)
    BY <1>4 DEF UnitsOf, WiresOf
  <2>2. FrameInv'
    BY <1>1, <1>3, <1>4, <2>1 DEF FrameInv, OpenFrame
  <2> QED BY <1>1, <1>3, <1>4, <2>2, StateStays
<1>10. AbstractWindow!fail_block(n)
  BY <1>3, <1>5, <1>6, <1>7, <1>8, Unbounded
     DEF AbstractWindow!fail_block, AbstractWindow!frameVars
<1>11. AbstractWindow!Next
  BY <1>4, <1>6, <1>10 DEF AbstractWindow!Next
<1> QED BY <1>4, <1>6, <1>8, <1>9, <1>10, <1>11 DEF StreamInv, Moves

\* A payload without a frame is an error that touches no output.
LEMMA WithoutFrameMoves ==
  ASSUME StreamInv, process_block_without_frame
  PROVE  StreamInv' /\ Moves
<1>1. InputInv /\ BufferInv /\ FrameInv /\ StateInv
  BY DEF StreamInv
<1>2. /\ state.tag = "BlockPayload" /\ ~Stalled
      /\ Fails("Generic", payload_size(state.header))
      /\ UNCHANGED <<outputVars, state, frame, total_output_size>>
  BY DEF process_block_without_frame
<1>3. InputInv' /\ UNCHANGED options
  BY <1>1, <1>2, PayloadRead, FailsKeeps
<1>4. BufferInv' /\ FrameInv' /\ Moves /\ frame'.open = frame.open
  BY <1>1, <1>2, <1>3, BufferStays
<1>5. StateInv'
  BY <1>1, <1>2, <1>3, <1>4, StateStays
<1> QED BY <1>3, <1>4, <1>5 DEF StreamInv

\* finish_frame, whatever it decides.
LEMMA FrameCloses ==
  ASSUME NEW f, OpenFrame(f), finish_frame(f)
  PROVE  /\ frame'.open = FALSE /\ frame'.window_size = f.window_size
         /\ frame'.frame_start = f.frame_start /\ frame'.origin = f.origin
         /\ frame'.frame_output_size = f.frame_output_size
<1>1. PICK h, w, s, c, x, e, g :
        f = [open |-> TRUE, header |-> h, window_size |-> w, frame_start |-> s,
             frame_output_size |-> c, hashed |-> x, entropy |-> e, origin |-> g]
  BY DEF OpenFrame
<1>2. frame' = [f EXCEPT !.open = FALSE]
  BY DEF finish_frame
<1>3. frame' = [open |-> FALSE, header |-> h, window_size |-> w, frame_start |-> s,
                frame_output_size |-> c, hashed |-> x, entropy |-> e, origin |-> g]
  BY <1>1, <1>2
<1> QED BY <1>1, <1>3

\* process_frame_checksum: finish_frame, or an error that leaves the frame.
LEMMA ChecksumMoves ==
  ASSUME StreamInv, process_frame_checksum
  PROVE  StreamInv' /\ Moves
<1>1. InputInv /\ BufferInv /\ FrameInv /\ StateInv
  BY DEF StreamInv
<1>2. PICK e : /\ state.tag = "FrameChecksum" /\ ~Stalled
               /\ e \in {"Ok", "ContentSizeMismatch"} => frame.open
               /\ IF e \in {"Ok", "ContentSizeMismatch"} THEN finish_frame(frame)
                  ELSE UNCHANGED <<frame, decoded_a_frame>>
               /\ \/ e = "Ok" /\ Progress(CHECKSUM_SIZE) /\ state' = FrameHeaderState
                  \/ e # "Ok" /\ Fails(e, CHECKSUM_SIZE) /\ UNCHANGED state
               /\ UNCHANGED <<outputVars, total_output_size>>
  BY DEF process_frame_checksum
<1>3. CHECKSUM_SIZE \in Nat /\ CHECKSUM_SIZE <= Available
  <2>1. Available \in Nat
    BY <1>1 DEF InputInv, Available
  <2>2. ~(Available < CHECKSUM_SIZE)
    BY <1>2 DEF Stalled
  <2> QED BY <2>1, <2>2 DEF CHECKSUM_SIZE
<1>4. InputInv' /\ UNCHANGED options
  BY <1>1, <1>2, <1>3, ProgressKeeps, FailsKeeps
<1>5. CASE e \in {"Ok", "ContentSizeMismatch"}
  <2>1. frame.open /\ OpenFrame(frame) /\ finish_frame(frame)
    BY <1>1, <1>2, <1>5 DEF FrameInv
  <2>2. /\ frame'.open = FALSE /\ frame'.window_size = frame.window_size
        /\ frame'.frame_start = frame.frame_start /\ frame'.origin = frame.origin
        /\ frame'.frame_output_size = frame.frame_output_size
    BY <2>1, FrameCloses
  <2>3. BufferInv' /\ FrameInv'
    BY <1>1, <1>2, <2>2 DEF BufferInv, FrameInv, outputVars
  <2>4. StateInv'
    BY <1>2, <2>2 DEF StateInv, FrameHeaderState
  <2>5. AbstractWindow!finish_frame
    BY <1>2, <2>1, <2>2 DEF AbstractWindow!finish_frame, outputVars, Produced, Pending
  <2>6. AbstractWindow!Next
    BY <1>4, <2>5 DEF AbstractWindow!Next
  <2> QED BY <1>4, <2>3, <2>4, <2>6 DEF StreamInv, Moves
<1>6. CASE e \notin {"Ok", "ContentSizeMismatch"}
  <2>1. UNCHANGED <<outputVars, state, frame, total_output_size>>
    BY <1>2, <1>6
  <2>2. BufferInv' /\ FrameInv' /\ Moves /\ frame'.open = frame.open
    BY <1>1, <1>4, <2>1, BufferStays
  <2>3. StateInv'
    BY <1>1, <1>4, <2>1, <2>2, StateStays
  <2> QED BY <1>4, <2>2, <2>3 DEF StreamInv
<1> QED BY <1>5, <1>6

\* absorb_block_output moves the frame's output size, its hash and its entropy state only.
LEMMA Absorbed ==
  ASSUME OpenFrame(frame), NEW entropy, GoodEntropy(options, entropy), NEW produced,
         NEW f, f = absorb_block_output(frame, entropy, produced)
  PROVE  /\ OpenFrame(f) /\ f.open = TRUE /\ f.header = frame.header
         /\ f.window_size = frame.window_size /\ f.frame_start = frame.frame_start
         /\ f.frame_output_size = frame.frame_output_size + Len(produced)
         /\ f.origin = frame.origin
<1>1. PICK h, w, s, c, x, e, g :
        frame = [open |-> TRUE, header |-> h, window_size |-> w, frame_start |-> s,
                 frame_output_size |-> c, hashed |-> x, entropy |-> e, origin |-> g]
  BY DEF OpenFrame
<1>2. PICK y : y = IF frame.header.checksum THEN frame.hashed \o produced ELSE frame.hashed
  OBVIOUS
<1>3. PICK n : n = frame.frame_output_size + Len(produced)
  OBVIOUS
<1>4. f = [frame EXCEPT !.frame_output_size = n, !.hashed = y, !.entropy = entropy]
  BY <1>2, <1>3 DEF absorb_block_output
<1>5. f = [open |-> TRUE, header |-> h, window_size |-> w, frame_start |-> s,
           frame_output_size |-> n, hashed |-> y, entropy |-> entropy, origin |-> g]
  BY <1>1, <1>4
<1>6. /\ f.open = TRUE /\ f.header = h /\ f.window_size = w /\ f.frame_start = s
      /\ f.frame_output_size = n /\ f.hashed = y /\ f.entropy = entropy /\ f.origin = g
  BY <1>5
<1>7. frame.header = h /\ frame.window_size = w /\ frame.frame_start = s /\ frame.origin = g
  BY <1>1
<1>8. f = [open |-> TRUE, header |-> f.header, window_size |-> f.window_size,
           frame_start |-> f.frame_start, frame_output_size |-> f.frame_output_size,
           hashed |-> f.hashed, entropy |-> f.entropy, origin |-> f.origin]
  BY <1>5, <1>6
<1>9. OpenFrame(f)
  BY <1>6, <1>7, <1>8 DEF OpenFrame
<1> QED BY <1>3, <1>6, <1>7, <1>9

\* process_block_payload: decode_block, closing the frame where finish_frame takes it.
LEMMA PayloadMoves ==
  ASSUME StreamInv, process_block_payload
  PROVE  /\ StreamInv' /\ Moves
         /\ \E n \in 0..BlockSizeMax, closes \in BOOLEAN : AbstractWindow!decode_block(n, closes)
<1>1. InputInv /\ BufferInv /\ FrameInv /\ StateInv
  BY DEF StreamInv
<1>2. PICK d, f, produced :
        /\ d = decode_block(state.header)
        /\ produced = SubSeq(d.out, Len(output) + 1, Len(d.out))
        /\ f = absorb_block_output(frame, d.entropy, produced)
  OBVIOUS
<1>3. /\ state.tag = "BlockPayload" /\ ~Stalled /\ frame.open /\ d.result = "Ok"
      /\ output' = d.out /\ total_output_size' = total_output_size + Len(d.out) - Len(output)
      /\ UNCHANGED <<output_pos, delivered>>
  BY <1>2 DEF process_block_payload
<1>4. \/ /\ frame' = f /\ Progress(payload_size(state.header))
         /\ state' = FrameChecksumState \/ state' = BlockHeaderState
      \/ /\ finish_frame(f)
         /\ \/ (\E e : Fails(e, payload_size(state.header))) /\ UNCHANGED state
            \/ Progress(payload_size(state.header)) /\ state' = FrameHeaderState
  BY <1>2 DEF process_block_payload
<1>5. InputInv' /\ UNCHANGED options
  BY <1>1, <1>3, <1>4, PayloadRead, ProgressKeeps, FailsKeeps
<1>6. /\ Listed(d.out) /\ Len(d.out) \in Nat
      /\ Len(d.out) - Len(output) \in 0..BlockSizeMax
      /\ Len(d.out) - Len(output) <= AbstractWindow!FrameBlockSizeMax
      /\ AbstractWindow!WithinLimit(Len(d.out) - Len(output))
      /\ GoodEntropy(options, d.entropy)
  BY <1>2, <1>3, BlockDecodes
<1>7. PICK n \in 0..BlockSizeMax : n = Len(d.out) - Len(output)
  BY <1>6
<1>8. /\ n \in Nat /\ Len(output') = Len(output) + n
      /\ total_output_size' = total_output_size + n /\ total_output_size' \in Nat
      /\ Len(produced) = n
  <2>1. PICK l \in Nat, o \in Nat, t \in Nat : l = Len(output) /\ o = Len(d.out)
                                               /\ t = total_output_size
    BY <1>1, <1>6, Counted DEF BufferInv
  <2>2. n \in Nat /\ n = o - l
    BY <1>7, <2>1, StreamDecoderAssumption
  <2>3. Len(produced) = o - l
    <3>1. l <= Len(d.out)
      BY <2>1, <2>2
    <3>2. Len(SubSeq(d.out, l + 1, Len(d.out))) = Len(d.out) - l
      BY <1>6, <3>1, Counts
    <3> QED BY <1>2, <2>1, <3>2
  <2>4. total_output_size' = t + o - l
    BY <1>3, <2>1
  <2>5. o = l + n /\ t + o - l = t + n /\ t + n \in Nat
    BY <2>1, <2>2
  <2> QED BY <1>3, <2>1, <2>2, <2>3, <2>4, <2>5
<1>9. /\ BufferInv' /\ Len(Produced)' = Len(Produced) + n
      /\ UNCHANGED <<output_pos, Len(delivered), Len(delivered) - output_pos>>
  BY <1>1, <1>3, <1>6, <1>8, Appended
<1>10. /\ OpenFrame(f) /\ f.open = TRUE
       /\ f.window_size = frame.window_size /\ f.frame_start = frame.frame_start
       /\ f.frame_output_size = frame.frame_output_size + n /\ f.origin = frame.origin
  <2>1. OpenFrame(frame)
    BY <1>1, <1>3 DEF FrameInv
  <2>2. /\ OpenFrame(f) /\ f.open = TRUE /\ f.header = frame.header
        /\ f.window_size = frame.window_size /\ f.frame_start = frame.frame_start
        /\ f.frame_output_size = frame.frame_output_size + Len(produced)
        /\ f.origin = frame.origin
    <3>1. PICK e : e = d.entropy
      OBVIOUS
    <3>2. f = absorb_block_output(frame, e, produced)
      BY <1>2, <3>1
    <3>3. GoodEntropy(options, e)
      BY <1>6, <3>1
    <3> QED BY <2>1, <3>2, <3>3, Absorbed
  <2> QED BY <1>8, <2>2
<1>11. PICK closes \in BOOLEAN :
         /\ frame'.open = ~closes /\ frame'.window_size = frame.window_size
         /\ frame'.frame_start = frame.frame_start /\ frame'.origin = frame.origin
         /\ frame'.frame_output_size = frame.frame_output_size + n
         /\ FrameInv' /\ StateInv'
  <2>1. CASE /\ frame' = f
             /\ state' = FrameChecksumState \/ state' = BlockHeaderState
    <3>1. UnitsOf(options)' = UnitsOf(options)
      BY <1>5 DEF UnitsOf, WiresOf
    <3>2. OpenFrame(frame)'
      BY <1>5, <1>10, <2>1, <3>1 DEF OpenFrame
    <3>3. FrameInv'
      BY <1>10, <2>1, <3>2 DEF FrameInv
    <3>4. StateInv'
      BY <2>1 DEF StateInv, FrameChecksumState, BlockHeaderState
    <3>5. FALSE \in BOOLEAN /\ frame'.open = ~FALSE
      BY <1>10, <2>1
    <3> QED BY <1>10, <2>1, <3>3, <3>4, <3>5
  <2>2. CASE finish_frame(f) /\ (UNCHANGED state \/ state' = FrameHeaderState)
    <3>1. /\ frame'.open = FALSE /\ frame'.window_size = f.window_size
          /\ frame'.frame_start = f.frame_start /\ frame'.origin = f.origin
          /\ frame'.frame_output_size = f.frame_output_size
      BY <1>10, <2>2, FrameCloses
    <3>2. FrameInv'
      BY <3>1 DEF FrameInv
    <3>3. StateInv'
      <4>1. UnitsOf(options)' = UnitsOf(options)
        BY <1>5 DEF UnitsOf, WiresOf
      <4>2. CASE UNCHANGED state
        BY <1>1, <1>3, <3>1, <4>1, <4>2 DEF StateInv
      <4>3. CASE state' = FrameHeaderState
        BY <3>1, <4>3 DEF StateInv, FrameHeaderState
      <4> QED BY <2>2, <4>2, <4>3
    <3>4. TRUE \in BOOLEAN /\ frame'.open = ~TRUE
      BY <3>1
    <3> QED BY <1>10, <3>1, <3>2, <3>3, <3>4
  <2> QED BY <1>4, <2>1, <2>2
<1>12. AbstractWindow!decode_block(n, closes)
  BY <1>3, <1>6, <1>7, <1>8, <1>9, <1>11, Unbounded DEF AbstractWindow!decode_block
<1>13. AbstractWindow!Next
  BY <1>5, <1>7, <1>12 DEF AbstractWindow!Next
<1> QED BY <1>5, <1>7, <1>9, <1>11, <1>12, <1>13 DEF StreamInv, Moves

\* The decoder before its first push.
LEMMA StreamInit == Init => StreamInv /\ AbstractWindow!Init
<1> SUFFICES ASSUME Init PROVE StreamInv /\ AbstractWindow!Init
  OBVIOUS
<1>2. PICK s \in Setups : options = s.options /\ wire \in s.wires
  BY DEF Init
<1>3. options \in Configured /\ wire \in WiresOf(options)
  BY <1>2 DEF Configured, WiresOf
<1>4. Size(wire) \in Nat
  BY <1>3, SetupsAssumption, BytesOfUnits DEF Configured
<1>5. /\ pushed = 0 /\ input = << >> /\ input_pos = 0 /\ output = << >> /\ output_pos = 0
      /\ delivered = << >> /\ state = FrameHeaderState /\ frame = NoFrame
      /\ total_output_size = 0
  BY DEF Init
<1>6. InputInv
  BY <1>3, <1>4, <1>5 DEF InputInv
<1>7. BufferInv
  BY <1>5, NoneListed DEF BufferInv
<1>8. /\ frame.open = FALSE /\ frame.window_size = 0 /\ frame.frame_start = 0
      /\ frame.frame_output_size = 0 /\ frame.origin = 0
  BY <1>5 DEF NoFrame
<1>9. FrameInv /\ StateInv
  BY <1>5, <1>8 DEF FrameInv, StateInv, FrameHeaderState
<1>10. Len(output) = 0 /\ Len(delivered) = 0 /\ Len(Produced) = 0
  BY <1>5, <1>7, Counted
<1>11. AbstractWindow!Init
  BY <1>2, <1>5, <1>8, <1>10 DEF AbstractWindow!Init
<1> QED BY <1>6, <1>7, <1>9, <1>11 DEF StreamInv

\* Every turn and every call keeps the invariant and is a step of the abstract window.
LEMMA StreamNext == StreamInv /\ [Next]_vars => StreamInv' /\ Moves
<1> SUFFICES ASSUME StreamInv, [Next]_vars PROVE StreamInv' /\ Moves
  OBVIOUS
<1>1. CASE Process
  <2>1. CASE process_stalled \/ process_frame_header_error \/ process_skippable_header
    BY <2>1, IdleMoves, HeaderMoves
  <2>2. CASE process_zstandard_header
    BY <2>2, FrameHeaderMoves
  <2>3. CASE process_skippable_frame \/ process_block_header
    BY <2>3, SkippableMoves, BlockHeaderMoves
  <2>4. CASE process_block_error
    BY <2>4, BlockErrorMoves
  <2>5. CASE process_block_payload
    BY <2>5, PayloadMoves
  <2>6. CASE process_block_without_frame \/ process_frame_checksum
    BY <2>6, WithoutFrameMoves, ChecksumMoves
  <2> QED BY <1>1, <2>1, <2>2, <2>3, <2>4, <2>5, <2>6 DEF Process
<1>2. CASE \E n \in PushSizes : push(n)
  BY <1>2, PushMoves
<1>3. CASE finish
  BY <1>3, IdleMoves
<1>4. CASE Drain
  BY <1>4, ReadMoves, TakeOutputMoves DEF Drain
<1>5. CASE \E w \in Again : reset(w)
  BY <1>5, ResetMoves
<1>6. CASE UNCHANGED vars
  <2>1. InputInv /\ BufferInv /\ FrameInv /\ StateInv
    BY DEF StreamInv
  <2>2. UNCHANGED <<inputVars, callerVars, outputVars, state, frame, total_output_size>>
    BY <1>6 DEF vars
  <2>3. InputInv' /\ UNCHANGED options
    BY <2>1, <2>2, InputStays
  <2>4. BufferInv' /\ FrameInv' /\ Moves /\ frame'.open = frame.open
    BY <2>1, <2>2, <2>3, BufferStays
  <2>5. StateInv'
    BY <2>1, <2>2, <2>3, <2>4, StateStays
  <2> QED BY <2>3, <2>4, <2>5 DEF StreamInv
<1> QED BY <1>1, <1>2, <1>3, <1>4, <1>5, <1>6 DEF Next

\* The decoder's buffer, frame and accounts do only what the abstract window may, whatever
\* the streams hold and however they are pushed and drained (process, consume_output,
\* take_output, reset).
THEOREM ImplementsWindow == Spec => ImplementsOutputWindow
<1>1. StreamInv /\ [Next]_vars => [AbstractWindow!Next]_AbstractWindow!vars
  BY StreamNext DEF Moves
<1>2. StreamInv /\ [Next]_vars => StreamInv'
  BY StreamNext
<1> QED BY <1>1, <1>2, StreamInit, PTL DEF Spec, ImplementsOutputWindow, AbstractWindow!Spec

-----------------------------------------------------------------------------
\* What the abstract window's theorems say of the decoder.

\* The same window with every distance and every dictionary length.
Window ==
  INSTANCE OutputWindowProofs WITH
    Windows <- {u.window_size : u \in {v \in Units : v.kind = "frame"}},
    Caps <- {s.options.max_output_size : s \in Setups},
    max_output_size <- options.max_output_size,
    Offsets <- Nat, DictLens <- Nat \cup {None}, MaxMade <- None,
    len <- Len(output), open <- frame.open, window_size <- frame.window_size,
    frame_start <- frame.frame_start, frame_output_size <- frame.frame_output_size,
    base <- Len(delivered) - output_pos, drained <- Len(delivered), made <- Len(Produced),
    origin <- frame.origin

\* What the decoder may be given meets what the abstract window assumes.
LEMMA WindowAssumption == Window!OutputWindowAssumption
<1>1. ASSUME NEW u \in Units, u.kind = "frame" PROVE u.window_size \in Nat
  <2>1. PICK s \in Setups : \E w \in s.wires \cup s.again : u \in ToSet(w)
    BY DEF Units
  <2>2. PICK o : o = s.options /\ o \in Configured
    BY DEF Configured
  <2>3. u \in UnitsOf(o)
    BY <2>1, <2>2 DEF UnitsOf, WiresOf
  <2>4. IsUnit(u)
    BY <2>2, <2>3, SetupsAssumption DEF Configured
  <2> QED BY <1>1, <2>4 DEF IsUnit
<1>2. \A s \in Setups : s.options.max_output_size \in Nat \cup {None}
  BY SetupsAssumption
<1>3. None = Window!None
  BY DEF None, Window!None
<1> QED BY <1>1, <1>2, <1>3, StreamDecoderAssumption DEF Window!OutputWindowAssumption

\* What Next may do depends on no distance and no dictionary.
LEMMA SameWindow ==
  /\ AbstractWindow!Init => Window!Init
  /\ [AbstractWindow!Next]_AbstractWindow!vars => [Window!Next]_Window!vars
<1>1. AbstractWindow!Init => Window!Init
  BY DEF AbstractWindow!Init, Window!Init
<1>2. UNCHANGED AbstractWindow!vars => UNCHANGED Window!vars
  BY DEF AbstractWindow!vars, Window!vars
<1>3. AbstractWindow!Next => Window!Next
  BY Zenon DEF AbstractWindow!Next, Window!Next,
     AbstractWindow!start_frame, Window!start_frame,
     AbstractWindow!reject_frame, Window!reject_frame,
     AbstractWindow!decode_block, Window!decode_block,
     AbstractWindow!fail_block, Window!fail_block,
     AbstractWindow!finish_frame, Window!finish_frame,
     AbstractWindow!consume_output, Window!consume_output,
     AbstractWindow!take_output, Window!take_output,
     AbstractWindow!take_whole_buffer, Window!take_whole_buffer,
     AbstractWindow!reset, Window!reset,
     AbstractWindow!DropFront, Window!DropFront,
     AbstractWindow!frameVars, Window!frameVars,
     AbstractWindow!WithinLimit, Window!WithinLimit,
     AbstractWindow!WithinBound, Window!WithinBound,
     AbstractWindow!FrameBlockSizeMax, Window!FrameBlockSizeMax,
     AbstractWindow!Least, Window!Least, AbstractWindow!None, Window!None,
     AbstractWindow!saturating_sub, Window!saturating_sub,
     AbstractWindow!release_history, Window!release_history,
     AbstractWindow!compact_output, Window!compact_output,
     AbstractWindow!compact_between_frames, Window!compact_between_frames,
     AbstractWindow!retain_for_matches, Window!retain_for_matches
<1> QED BY <1>1, <1>2, <1>3

\* Compaction never changes where a match of the open frame is read from.
THEOREM MatchesResolve == Spec => []Window!MatchesUnaffected
<1>1. Spec => Window!Spec
  BY ImplementsWindow, SameWindow, PTL DEF ImplementsOutputWindow, AbstractWindow!Spec, Window!Spec
<1> QED BY <1>1, Window!MatchesAreUnaffected, WindowAssumption, PTL

-----------------------------------------------------------------------------
\* The cap on what a stream produces.

\* What the cap rests on: while no call has failed, what the stream is charged with is what
\* it produced; and a decoder whose call has failed turns on without input.
CapInv ==
  /\ stream_start \in Nat /\ stream_start <= Len(Produced)
  /\ ~failed => total_output_size = Len(Produced) - stream_start
  /\ failed /\ call # "idle" => Available = 0
  /\ \/ options.max_output_size = None
     \/ Len(Produced) - stream_start <= options.max_output_size

\* n bytes of input are used.
LEMMA ProgressUses ==
  ASSUME InputInv, NEW n \in Nat, n <= Available, Progress(n)
  PROVE  Available' = Available - n
<1>1. PICK l \in Nat, q \in Nat, p \in Nat : l = Len(input) /\ q = input_pos /\ p = q + n /\ p <= l
  <2>1. Len(input) \in Nat /\ input_pos \in Nat /\ input_pos + n \in Nat
        /\ input_pos + n <= Len(input)
    BY DEF InputInv, Available
  <2> QED BY <2>1
<1>2. \/ input' = input /\ input_pos' = p
      \/ input' = SubSeq(input, p + 1, l) /\ input_pos' = 0
  BY <1>1 DEF Progress, compact_input
<1>3. Listed(input)
  BY DEF InputInv, Listed
<1>4. Len(SubSeq(input, p + 1, l)) = l - p
  <2>1. p <= Len(input)
    BY <1>1
  <2> QED BY <1>1, <1>3, <2>1, Counts
<1>5. CASE input' = input /\ input_pos' = p
  BY <1>1, <1>5 DEF Available
<1>6. CASE input' = SubSeq(input, p + 1, l) /\ input_pos' = 0
  <2>1. Available' = (l - p) - 0
    BY <1>4, <1>6 DEF Available
  <2>2. (l - p) - 0 = (l - q) - n
    BY <1>1
  <2> QED BY <1>1, <2>1, <2>2 DEF Available
<1> QED BY <1>2, <1>5, <1>6

\* What a turn makes of the call: it goes on with what it left of the input, or it is over.
Turns == /\ UNCHANGED <<options, stream_start>>
         /\ ~failed' => ~failed
         /\ failed' /\ call' # "idle" => /\ failed /\ call # "idle"
                                         /\ Available = 0 => Available' = 0

\* A turn that made progress.
LEMMA ProgressTurns ==
  ASSUME InputInv, NEW n \in Nat, n <= Available, Progress(n) PROVE Turns
<1>1. UNCHANGED <<options, stream_start, failed, call>>
  BY DEF Progress, callerVars
<1>2. Available = 0 => Available' = 0
  BY ProgressUses
<1> QED BY <1>1, <1>2 DEF Turns

\* One that returned an error.
LEMMA FailsTurns ==
  ASSUME NEW e, NEW n, Fails(e, n) PROVE Turns
<1>1. UNCHANGED <<options, stream_start>> /\ failed' = TRUE /\ call' = "idle"
  BY DEF Fails, callerVars
<1> QED BY <1>1 DEF Turns

\* One that broke the loop.
LEMMA ReturnsTurns ==
  ASSUME NEW e, Returns(e) PROVE Turns
<1>1. UNCHANGED <<options, stream_start>> /\ (failed => failed') /\ call' = "idle"
  BY DEF Returns, callerVars
<1> QED BY <1>1 DEF Turns

\* Every handler ends its turn in one of these ways.
LEMMA ProcessTurns ==
  ASSUME StreamInv, Process PROVE Turns
<1>1. InputInv /\ StateInv
  BY DEF StreamInv
<1>2. CASE process_stalled
  BY <1>2, ReturnsTurns DEF process_stalled
<1>3. CASE process_frame_header_error
  BY <1>3, FailsTurns DEF process_frame_header_error
<1>4. CASE process_skippable_header \/ process_zstandard_header
  <2>1. Unit.size \in Nat /\ Unit.size <= Available
    <3>1. state.tag = "FrameHeader" /\ ~Stalled /\ HeaderError = "Ok"
      BY <1>4 DEF process_skippable_header, process_zstandard_header
    <3> QED BY <1>1, <3>1, HeaderRead DEF IsUnit
  <2>2. Progress(Unit.size) \/ \E e : Fails(e, Unit.size)
    BY <1>4 DEF process_skippable_header, process_zstandard_header
  <2> QED BY <1>1, <2>1, <2>2, ProgressTurns, FailsTurns
<1>5. CASE process_skippable_frame
  <2>1. PICK r \in Nat, a \in Nat : r = state.remaining /\ a = Available
    <3>1. state.tag = "Skippable"
      BY <1>5 DEF process_skippable_frame
    <3>2. state.remaining \in Nat /\ Available \in Nat
      BY <1>1, <3>1 DEF StateInv, InputInv, Available
    <3> QED BY <3>2
  <2>2. Least(a, r) \in Nat /\ Least(a, r) <= a
    BY DEF Least
  <2>3. Progress(Least(a, r)) \/ \E e : Returns(e)
    BY <1>5, <2>1 DEF process_skippable_frame
  <2> QED BY <1>1, <2>1, <2>2, <2>3, ProgressTurns, ReturnsTurns
<1>6. CASE process_block_header
  <2>1. state.tag = "BlockHeader" /\ ~Stalled
    BY <1>6 DEF process_block_header
  <2>2. BLOCK_HEADER_SIZE \in Nat /\ BLOCK_HEADER_SIZE <= Available
    <3>1. Available \in Nat
      BY <1>1 DEF InputInv, Available
    <3>2. ~(Available < BLOCK_HEADER_SIZE)
      BY <2>1 DEF Stalled
    <3> QED BY <3>1, <3>2 DEF BLOCK_HEADER_SIZE
  <2>3. Progress(BLOCK_HEADER_SIZE) \/ Fails("Corruption", 0)
    BY <1>6 DEF process_block_header
  <2> QED BY <1>1, <2>2, <2>3, ProgressTurns, FailsTurns
<1>7. CASE process_block_error \/ process_block_without_frame
  BY <1>7, FailsTurns DEF process_block_error, process_block_without_frame
<1>8. CASE process_block_payload
  <2>1. state.tag = "BlockPayload" /\ ~Stalled
    BY <1>8 DEF process_block_payload
  <2>2. payload_size(state.header) \in Nat /\ payload_size(state.header) <= Available
    BY <2>1, PayloadRead
  <2>3. Progress(payload_size(state.header)) \/ \E e : Fails(e, payload_size(state.header))
    BY <1>8 DEF process_block_payload
  <2> QED BY <1>1, <2>2, <2>3, ProgressTurns, FailsTurns
<1>9. CASE process_frame_checksum
  <2>1. state.tag = "FrameChecksum" /\ ~Stalled
    BY <1>9 DEF process_frame_checksum
  <2>2. CHECKSUM_SIZE \in Nat /\ CHECKSUM_SIZE <= Available
    <3>1. Available \in Nat
      BY <1>1 DEF InputInv, Available
    <3>2. ~(Available < CHECKSUM_SIZE)
      BY <2>1 DEF Stalled
    <3> QED BY <3>1, <3>2 DEF CHECKSUM_SIZE
  <2>3. Progress(CHECKSUM_SIZE) \/ \E e : Fails(e, CHECKSUM_SIZE)
    BY <1>9 DEF process_frame_checksum
  <2> QED BY <1>1, <2>2, <2>3, ProgressTurns, FailsTurns
<1> QED BY <1>2, <1>3, <1>4, <1>5, <1>6, <1>7, <1>8, <1>9 DEF Process

\* A step that appends nothing.
LEMMA CapStays ==
  ASSUME CapInv, Turns, UNCHANGED <<Len(Produced), total_output_size>>
  PROVE  CapInv'
BY DEF CapInv, Turns

\* A step that appends n bytes within the limit.
LEMMA CapCharged ==
  ASSUME StreamInv, CapInv, Turns, ~failed, NEW n \in Nat, Len(Produced)' = Len(Produced) + n,
         n = 0 \/ AbstractWindow!WithinLimit(n),
         failed' \/ total_output_size' = total_output_size + n
  PROVE  CapInv'
<1>1. PICK p, s, t, l : /\ p = Len(Produced) /\ s = stream_start /\ t = total_output_size
                        /\ l = Len(output)
  OBVIOUS
<1>2. p \in Nat /\ s \in Nat /\ t \in Nat /\ l \in Nat /\ s <= p /\ t = p - s
  <2>1. BufferInv
    BY DEF StreamInv
  <2>2. Len(Produced) \in Nat /\ total_output_size \in Nat /\ Len(output) \in Nat
    BY <2>1, Counted DEF BufferInv
  <2> QED BY <1>1, <2>2 DEF CapInv
<1>3. UNCHANGED <<options, stream_start>> /\ ~(failed' /\ call' # "idle")
  BY DEF Turns
<1>4. PICK cap : cap = options.max_output_size /\ (cap = None \/ cap \in Nat)
  BY SetupsAssumption DEF StreamInv, InputInv, Configured
<1>5. cap = None \/ p - s <= cap
  BY <1>1, <1>4 DEF CapInv
<1>6. cap = None \/ (p + n) - s <= cap
  <2>1. CASE cap = None
    BY <2>1
  <2>2. CASE cap # None /\ n = 0
    BY <1>2, <1>5, <2>2
  <2>3. CASE cap # None /\ AbstractWindow!WithinLimit(n)
    <3>1. PICK r : r = AbstractWindow!saturating_sub(t, l)
      OBVIOUS
    <3>2. r \in Nat /\ t <= r + l
      BY <1>2, <3>1 DEF AbstractWindow!saturating_sub
    <3>3. (r + l) + n <= cap
      BY <1>1, <1>4, <2>3, <3>1 DEF AbstractWindow!WithinLimit, AbstractWindow!None, None
    <3>4. (p + n) - s = t + n
      BY <1>2
    <3>5. cap \in Nat
      BY <1>4, <2>3
    <3> QED BY <1>2, <3>2, <3>3, <3>4, <3>5
  <2> QED BY <2>1, <2>2, <2>3
<1>7. stream_start' = s /\ Len(Produced)' = p + n /\ options'.max_output_size = cap
  BY <1>1, <1>3, <1>4
<1>8. s \in Nat /\ s <= p + n
  BY <1>2
<1>9. ~failed' => total_output_size' = (p + n) - s
  <2>1. t + n = (p + n) - s
    BY <1>2
  <2> QED BY <1>1, <2>1
<1> QED BY <1>3, <1>6, <1>7, <1>8, <1>9 DEF CapInv

\* A block without a payload appends nothing, so nothing is appended once a call has failed.
LEMMA EmptyBlock ==
  ASSUME StreamInv, state.tag = "BlockPayload", payload_size(state.header) = 0,
         NEW d, d = decode_block(state.header)
  PROVE  Len(d.out) = Len(output)
<1>1. PICK u : u = state.header
  OBVIOUS
<1>2. /\ u \in UnitsOf(options) /\ u.kind = "block" /\ u.block_type # "Reserved"
      /\ options \in Configured /\ Listed(output)
  BY <1>1 DEF StreamInv, StateInv, InputInv, BufferInv
<1>3. u.block_type # "Rle" /\ u.block_size = 0
  BY <1>1 DEF payload_size
<1>4. IsBlock(u)
  BY <1>2, SetupsAssumption DEF Configured, IsUnit
<1>5. PICK env, limit : d = DecodeBlock(u, env, options.dictionary, limit, output, frame.entropy)
  BY <1>1 DEF decode_block
<1>6. CASE u.block_type = "Compressed"
  <2>1. u.body.sequences.codes = << >> /\ ~u.body.sound
    BY <1>3, <1>4, <1>6 DEF IsBlock
  <2>2. d = decode_compressed_block(u.body, env, options.dictionary, limit, output, frame.entropy)
    BY <1>5, <1>6 DEF DecodeBlock
  <2>3. d = Failed("Corruption", output, frame.entropy)
    BY <2>1, <2>2 DEF decode_compressed_block
  <2> QED BY <2>3 DEF Failed
<1>7. CASE u.block_type = "Raw"
  <2>1. u.body \in Seq(Nat) /\ Len(u.body) = 0
    BY <1>3, <1>4, <1>7 DEF IsBlock
  <2>2. \/ d = Failed("Corruption", output, frame.entropy)
        \/ d = append_bytes(u.body, limit, output, frame.entropy)
    BY <1>5, <1>7 DEF DecodeBlock
  <2>3. d.out = output \/ d.out = output \o u.body
    BY <2>2 DEF append_bytes, Failed
  <2>4. Len(output) \in Nat /\ Len(output \o u.body) = Len(output) + Len(u.body)
    <3>1. Listed(u.body)
      BY <2>1 DEF Listed
    <3> QED BY <1>2, <3>1, ListsJoin
  <2> QED BY <2>1, <2>3, <2>4
<1> QED BY <1>2, <1>3, <1>4, <1>6, <1>7 DEF IsBlock

\* Every turn keeps the cap.
LEMMA ProcessCap ==
  ASSUME StreamInv, CapInv, Process
  PROVE  CapInv'
<1>1. Turns
  BY ProcessTurns
<1>2. CASE UNCHANGED <<output, output_pos, delivered, total_output_size>>
  BY <1>1, <1>2, CapStays DEF Produced, Pending
<1>3. CASE process_zstandard_header
  <2>1. (\E w : AbstractWindow!start_frame(w)) \/ AbstractWindow!reject_frame
    BY <1>3, FrameHeaderMoves
  <2>2. UNCHANGED <<Len(Produced), total_output_size>>
    BY <2>1 DEF AbstractWindow!start_frame, AbstractWindow!reject_frame
  <2> QED BY <1>1, <2>2, CapStays
<1>4. CASE process_block_error \/ process_block_payload
  <2>1. PICK n \in Nat : /\ Len(Produced)' = Len(Produced) + n /\ Len(output)' = Len(output) + n
                         /\ n = 0 \/ AbstractWindow!WithinLimit(n)
                         /\ failed' \/ total_output_size' = total_output_size + n
                         /\ n = 0 => UNCHANGED total_output_size
    <3>1. BlockSizeMax \in Nat /\ total_output_size \in Nat
      BY StreamDecoderAssumption DEF StreamInv, BufferInv
    <3>2. CASE process_block_error
      <4>1. PICK n \in 0..BlockSizeMax : AbstractWindow!fail_block(n)
        BY <3>2, BlockErrorMoves
      <4>2. /\ Len(Produced)' = Len(Produced) + n /\ Len(output)' = Len(output) + n
            /\ n = 0 \/ AbstractWindow!WithinLimit(n)
        BY <4>1 DEF AbstractWindow!fail_block
      <4>3. failed' = TRUE /\ UNCHANGED total_output_size
        BY <3>2 DEF process_block_error, Fails
      <4>4. n \in Nat
        BY <3>1
      <4> QED BY <4>2, <4>3, <4>4
    <3>3. CASE process_block_payload
      <4>1. PICK n \in 0..BlockSizeMax, closes \in BOOLEAN : AbstractWindow!decode_block(n, closes)
        BY <3>3, PayloadMoves
      <4>2. /\ Len(Produced)' = Len(Produced) + n /\ Len(output)' = Len(output) + n
            /\ AbstractWindow!WithinLimit(n)
            /\ total_output_size' = total_output_size + n
        BY <4>1 DEF AbstractWindow!decode_block
      <4>3. n \in Nat /\ (n = 0 => total_output_size + n = total_output_size)
        BY <3>1, <4>1
      <4> QED BY <4>2, <4>3
    <3> QED BY <1>4, <3>2, <3>3
  <2>2. CASE ~failed
    BY <1>1, <2>1, <2>2, CapCharged
  <2>3. CASE failed
    <3>1. PICK d : d = decode_block(state.header)
      OBVIOUS
    <3>2. state.tag = "BlockPayload" /\ ~Stalled /\ call # "idle" /\ output' = d.out
      BY <1>4, <3>1 DEF process_block_error, process_block_payload
    <3>3. Available = 0
      BY <2>3, <3>2 DEF CapInv
    <3>4. payload_size(state.header) = 0
      BY <3>2, <3>3, PayloadRead
    <3>5. Len(output') = Len(output)
      BY <3>1, <3>2, <3>4, EmptyBlock
    <3>6. Len(output) \in Nat /\ Len(Produced) \in Nat
      BY Counted DEF StreamInv, BufferInv
    <3>7. n = 0
      BY <2>1, <3>5, <3>6
    <3> QED BY <1>1, <2>1, <3>6, <3>7, CapStays
  <2> QED BY <2>2, <2>3
<1> QED
  BY <1>2, <1>3, <1>4 DEF Process, process_stalled, process_frame_header_error,
     process_skippable_header, process_skippable_frame, process_block_header,
     process_block_without_frame, process_frame_checksum, outputVars

\* So does every call.
LEMMA CapNext == StreamInv /\ CapInv /\ [Next]_vars => CapInv'
<1> SUFFICES ASSUME StreamInv, CapInv, [Next]_vars PROVE CapInv'
  OBVIOUS
<1>1. CASE Process
  BY <1>1, ProcessCap
<1>2. CASE \E n \in PushSizes : push(n)
  <2>1. /\ UNCHANGED <<options, output, output_pos, delivered, stream_start, total_output_size,
                       failed>>
        /\ ~failed
    BY <1>2 DEF push, outputVars
  <2>2. UNCHANGED Len(Produced)
    BY <2>1 DEF Produced, Pending
  <2> QED BY <2>1, <2>2 DEF CapInv
<1>3. CASE finish
  <2>1. /\ UNCHANGED <<options, output, output_pos, delivered, stream_start, total_output_size,
                       input, input_pos>>
        /\ call = "idle" /\ (failed => Available = 0)
        /\ (failed => failed') /\ (call' # "idle" => UNCHANGED failed)
    BY <1>3 DEF finish, outputVars, inputVars, callerVars
  <2>2. UNCHANGED <<Len(Produced), Available>>
    BY <2>1 DEF Produced, Pending, Available
  <2>3. failed' /\ call' # "idle" => Available' = 0
    BY <2>1, <2>2
  <2> QED BY <2>1, <2>2, <2>3 DEF CapInv
<1>4. CASE Drain
  <2>1. (\E n \in Nat : AbstractWindow!consume_output(n)) \/ AbstractWindow!take_output
    BY <1>4, ReadMoves, TakeOutputMoves DEF Drain
  <2>2. UNCHANGED Len(Produced)
    BY <2>1 DEF AbstractWindow!consume_output, AbstractWindow!take_output,
                AbstractWindow!take_whole_buffer
  <2>3. UNCHANGED <<options, stream_start, total_output_size, failed, call>> /\ call = "idle"
    BY <1>4 DEF Drain, read, take_output, callerVars
  <2> QED BY <2>2, <2>3 DEF CapInv
<1>5. CASE \E w \in Again : reset(w)
  <2>1. /\ UNCHANGED <<options, output, output_pos, delivered>>
        /\ stream_start' = Len(Produced) /\ total_output_size' = 0 /\ failed' = FALSE
    BY <1>5 DEF reset, outputVars
  <2>2. Len(Produced)' = Len(Produced)
    BY <2>1 DEF Produced, Pending
  <2>3. PICK m \in Nat : m = Len(Produced)
    <3>1. BufferInv
      BY DEF StreamInv
    <3>2. /\ Len(delivered) \in Nat /\ Len(output) \in Nat
          /\ Len(Produced) = Len(delivered) + (Len(output) - output_pos)
      BY <3>1, Counted
    <3>3. output_pos \in Nat /\ output_pos <= Len(output)
      BY <3>1 DEF BufferInv
    <3>4. Len(Produced) \in Nat
      BY <3>2, <3>3
    <3> QED BY <3>4
  <2>4. options.max_output_size = None \/ options.max_output_size \in Nat
    BY SetupsAssumption DEF StreamInv, InputInv, Configured
  <2>5. m - m = 0 /\ m <= m
    OBVIOUS
  <2>6. options'.max_output_size = None \/ m - m <= options'.max_output_size
    BY <2>1, <2>4, <2>5
  <2>7. stream_start' = m /\ Len(Produced)' = m
    BY <2>1, <2>2, <2>3
  <2> QED BY <2>1, <2>3, <2>5, <2>6, <2>7 DEF CapInv
<1>6. CASE UNCHANGED vars
  <2>1. UNCHANGED <<options, output, output_pos, delivered, stream_start, total_output_size,
                    input, input_pos, failed, call>>
    BY <1>6 DEF vars, outputVars, inputVars, callerVars
  <2>2. UNCHANGED <<Len(Produced), Available>>
    BY <2>1 DEF Produced, Pending, Available
  <2> QED BY <2>1, <2>2 DEF CapInv
<1> QED BY <1>1, <1>2, <1>3, <1>4, <1>5, <1>6 DEF Next

\* Before the first push nothing is charged.
LEMMA CapInit == Init => CapInv
<1> SUFFICES ASSUME Init PROVE CapInv
  OBVIOUS
<1>1. /\ stream_start = 0 /\ total_output_size = 0 /\ failed = FALSE
      /\ options.max_output_size = None \/ options.max_output_size \in Nat
  BY SetupsAssumption DEF Init
<1>2. Len(Produced) = 0
  <2>1. BufferInv /\ output = << >> /\ delivered = << >> /\ output_pos = 0
    BY StreamInit DEF Init, StreamInv
  <2>2. Len(output) = 0 /\ Len(delivered) = 0
    BY <2>1, NoneListed
  <2> QED BY <2>1, <2>2, Counted
<1> QED BY <1>1, <1>2 DEF CapInv

\* The cap bounds everything a stream produces, a failing block's output included, whatever
\* has been drained, released or left over from before a reset (decode_block, OutputLimit).
THEOREM OutputIsCapped == Spec => []OutputCapped
<1>1. Init => CapInv
  BY CapInit
<1>2. StreamInv /\ CapInv => OutputCapped
  <2> SUFFICES ASSUME StreamInv, CapInv PROVE OutputCapped
    OBVIOUS
  <2>1. Listed(Produced)
    <3>1. Listed(output) /\ Listed(delivered) /\ output_pos \in Nat /\ output_pos <= Len(output)
      BY DEF StreamInv, BufferInv
    <3>2. Listed(Pending)
      BY <3>1, Counts DEF Pending
    <3> QED BY <3>1, <3>2, ListsJoin DEF Produced
  <2>2. Len(StreamOutput) = Len(Produced) - stream_start
    BY <2>1, Counts DEF CapInv, StreamOutput
  <2> QED BY <2>2 DEF CapInv, OutputCapped
<1>3. Init => StreamInv
  BY StreamInit
<1>4. StreamInv /\ [Next]_vars => StreamInv'
  BY StreamNext
<1> QED BY <1>1, <1>2, <1>3, <1>4, CapNext, PTL DEF Spec

-----------------------------------------------------------------------------
\* Where in its wire the decoder stands.

\* The places of the first n units, as Parsed builds them.
Places(w, n, p) == p = [k \in 0..n |-> IF k = 0 THEN Outside ELSE PlaceAfter(p[k - 1], w[k])]

\* The places of the first n units are a function.
LEMMA PlacesExist == ASSUME NEW w, NEW n \in Nat PROVE \E p : Places(w, n, p)
<1> DEFINE Bad == {k \in Nat : ~ \E p : Places(w, k, p)}
<1>1. SUFFICES ASSUME Bad # {} PROVE FALSE
  OBVIOUS
<1>2. PICK k \in Bad : \A j \in Bad : k <= j
  <2>1. Bad \in SUBSET Nat
    OBVIOUS
  <2> HIDE DEF Bad
  <2> QED BY <1>1, <2>1, LeastOf
<1>3. CASE k = 0
  <2>1. PICK p : p = [i \in 0..0 |-> Outside]
    OBVIOUS
  <2>2. p = [i \in 0..0 |-> IF i = 0 THEN Outside ELSE PlaceAfter(p[i - 1], w[i])]
    BY <2>1
  <2>3. Places(w, k, p)
    BY <1>3, <2>2 DEF Places
  <2> QED BY <1>2, <2>3
<1>4. CASE k # 0
  <2>1. PICK j \in Nat : k = j + 1
    <3>1. k - 1 \in Nat /\ k = (k - 1) + 1
      BY <1>2, <1>4
    <3> QED BY <3>1
  <2>2. PICK p : Places(w, j, p)
    BY <1>2, <2>1
  <2>3. PICK q : q = [i \in 0..k |-> IF i \in 0..j THEN p[i] ELSE PlaceAfter(p[j], w[k])]
    OBVIOUS
  <2>4. /\ \A i \in 0..j : q[i] = p[i]
        /\ \A i \in 0..j : p[i] = IF i = 0 THEN Outside ELSE PlaceAfter(p[i - 1], w[i])
        /\ q[k] = PlaceAfter(p[j], w[k])
    BY <2>1, <2>2, <2>3 DEF Places
  <2>5. ASSUME NEW i \in 0..k
        PROVE  q[i] = IF i = 0 THEN Outside ELSE PlaceAfter(q[i - 1], w[i])
    <3>1. CASE i = 0
      <4>1. 0 \in 0..j
        BY <2>1
      <4> QED BY <2>4, <3>1, <4>1
    <3>2. CASE i # 0 /\ i \in 0..j
      <4>1. i - 1 \in 0..j
        BY <2>1, <3>2
      <4>2. q[i] = p[i] /\ q[i - 1] = p[i - 1]
        BY <2>4, <3>2, <4>1
      <4>3. p[i] = PlaceAfter(p[i - 1], w[i])
        BY <2>4, <3>2
      <4> QED BY <3>2, <4>2, <4>3
    <3>3. CASE i = k
      <4>1. k - 1 = j /\ j \in 0..j /\ k # 0
        BY <2>1
      <4>2. q[j] = p[j]
        BY <2>4, <4>1
      <4> QED BY <2>4, <3>3, <4>1, <4>2
    <3> QED BY <2>1, <3>1, <3>2, <3>3
  <2>6. q = [i \in 0..k |-> q[i]]
    BY <2>3
  <2>7. q = [i \in 0..k |-> IF i = 0 THEN Outside ELSE PlaceAfter(q[i - 1], w[i])]
    BY <2>5, <2>6
  <2>8. Places(w, k, q)
    BY <2>7 DEF Places
  <2> QED BY <1>2, <2>8
<1> QED BY <1>3, <1>4

\* The place behind each unit of a wire.
PlacesOf(w) == CHOOSE p : Places(w, Len(w), p)

\* Every unit of a parsed wire belongs where it is.
LEMMA PlaceIs ==
  ASSUME NEW U, NEW w \in Seq(U), \A u \in U : IsUnit(u), Parsed(w), NEW p, p = PlacesOf(w)
  PROVE  /\ p[0] = Outside
         /\ \A k \in 1..Len(w) : p[k] = PlaceAfter(p[k - 1], w[k]) /\ Belongs(p[k - 1], w[k])
         /\ \A k \in 0..Len(w) :
              /\ p[k] = [payload |-> p[k].payload, open |-> p[k].open,
                         checksum |-> p[k].checksum, last |-> p[k].last]
              /\ p[k].payload \in Nat /\ p[k].open \in BOOLEAN
<1>1. PICK n \in Nat : n = Len(w) /\ DOMAIN w = 1..n
  OBVIOUS
<1>2. Places(w, n, p)
  <2>1. \E q : Places(w, n, q)
    BY PlacesExist
  <2>2. p = CHOOSE q : Places(w, n, q)
    BY <1>1 DEF PlacesOf
  <2> QED BY Zenon, <2>1, <2>2
<1>3. p[0] = Outside /\ \A k \in 1..n : p[k] = PlaceAfter(p[k - 1], w[k])
  <2>1. \A k \in 0..n : p[k] = IF k = 0 THEN Outside ELSE PlaceAfter(p[k - 1], w[k])
    BY <1>2 DEF Places
  <2>2. 0 \in 0..n /\ \A k \in 1..n : k \in 0..n /\ k # 0
    OBVIOUS
  <2> QED BY <2>1, <2>2
<1>4. \A k \in 1..n : Belongs(p[k - 1], w[k])
  <2>1. PICK q : q = CHOOSE g : g = [k \in 0..n |-> IF k = 0 THEN Outside
                                                     ELSE PlaceAfter(g[k - 1], w[k])]
    OBVIOUS
  <2>2. q = p
    <3>1. \A g : Places(w, n, g) <=> g = [k \in 0..n |-> IF k = 0 THEN Outside
                                                     ELSE PlaceAfter(g[k - 1], w[k])]
      BY DEF Places
    <3>2. q = CHOOSE g : Places(w, n, g)
      BY Zenon, <2>1, <3>1
    <3> QED BY <1>1, <3>2 DEF PlacesOf
  <2>3. \A k \in 1..n : Belongs(q[k - 1], w[k])
    BY Zenon, <1>1, <2>1 DEF Parsed
  <2> QED BY <2>2, <2>3
<1> DEFINE Fits(k) == /\ p[k] = [payload |-> p[k].payload, open |-> p[k].open,
                                 checksum |-> p[k].checksum, last |-> p[k].last]
                      /\ p[k].payload \in Nat /\ p[k].open \in BOOLEAN
           Bad == {k \in 0..n : ~Fits(k)}
<1>5. Bad = {}
  <2>1. SUFFICES ASSUME Bad # {} PROVE FALSE
    OBVIOUS
  <2>2. PICK k \in Bad : \A j \in Bad : k <= j
    <3>1. Bad \in SUBSET Nat
      OBVIOUS
    <3> HIDE DEF Bad
    <3> QED BY <2>1, <3>1, LeastOf
  <2>3. k \in 0..n /\ ~Fits(k)
    BY <2>2
  <2>4. k # 0
    <3>1. ASSUME k = 0 PROVE FALSE
      <4>1. p[k] = [payload |-> 0, open |-> FALSE, checksum |-> FALSE, last |-> FALSE]
        BY <1>3, <3>1 DEF Outside
      <4> QED BY <2>3, <4>1
    <3> QED BY <3>1
  <2>5. k \in 1..n /\ k - 1 \in 0..n /\ ~(k <= k - 1)
    BY <2>3, <2>4
  <2>6. PICK q : q = p[k - 1]
    OBVIOUS
  <2>7. /\ q = [payload |-> q.payload, open |-> q.open, checksum |-> q.checksum,
                last |-> q.last]
        /\ q.payload \in Nat /\ q.open \in BOOLEAN
    BY <2>2, <2>5, <2>6
  <2>8. PICK u, r : u = w[k] /\ IsUnit(u) /\ r = p[k] /\ r = PlaceAfter(q, u)
    BY <1>1, <1>3, <2>5, <2>6
  <2>9. u.kind \in {"skippable", "frame", "block", "checksum", "junk", "payload"}
    BY <2>8 DEF IsUnit
  <2>10. /\ r = [payload |-> r.payload, open |-> r.open, checksum |-> r.checksum,
                 last |-> r.last]
         /\ r.payload \in Nat /\ r.open \in BOOLEAN
    <3>1. CASE u.kind = "frame"
      <4>1. r = [payload |-> 0, open |-> TRUE, checksum |-> u.checksum, last |-> FALSE]
        BY <2>8, <3>1 DEF PlaceAfter
      <4> QED BY <4>1
    <3>2. CASE u.kind = "skippable"
      <4>1. r = [q EXCEPT !.payload = u.remaining] /\ u.remaining \in Nat
        BY <2>8, <3>2 DEF PlaceAfter, IsUnit
      <4>2. r = [payload |-> u.remaining, open |-> q.open, checksum |-> q.checksum,
                 last |-> q.last]
        BY <2>7, <4>1
      <4> QED BY <2>7, <4>1, <4>2
    <3>3. CASE u.kind = "block"
      <4>1. PICK b, c, l : b = payload_size(u) /\ c = (~u.last_block \/ q.checksum)
                           /\ l = u.last_block
        OBVIOUS
      <4>2. r = [q EXCEPT !.payload = b, !.last = l, !.open = c]
        BY <2>8, <3>3, <4>1 DEF PlaceAfter
      <4>3. r = [payload |-> b, open |-> c, checksum |-> q.checksum, last |-> l]
        BY <2>7, <4>2
      <4>4. b \in Nat /\ c \in BOOLEAN
        BY <2>8, <3>3, <4>1 DEF payload_size, IsUnit, IsBlock
      <4> QED BY <4>3, <4>4
    <3>4. CASE u.kind = "payload"
      <4>1. r = [q EXCEPT !.payload = 0]
        BY <2>8, <3>4 DEF PlaceAfter
      <4>2. r = [payload |-> 0, open |-> q.open, checksum |-> q.checksum, last |-> q.last]
        BY <2>7, <4>1
      <4> QED BY <2>7, <4>2
    <3>5. CASE u.kind = "checksum"
      <4>1. r = [q EXCEPT !.open = FALSE]
        BY <2>8, <3>5 DEF PlaceAfter
      <4>2. r = [payload |-> q.payload, open |-> FALSE, checksum |-> q.checksum,
                 last |-> q.last]
        BY <2>7, <4>1
      <4> QED BY <2>7, <4>2
    <3>6. CASE u.kind = "junk"
      BY <2>7, <2>8, <3>6 DEF PlaceAfter
    <3> QED BY <2>9, <3>1, <3>2, <3>3, <3>4, <3>5, <3>6
  <2> QED BY <2>3, <2>8, <2>10
<1> QED BY <1>1, <1>3, <1>4, <1>5

\* What the wire is made of.
LEMMA WireIs ==
  ASSUME InputInv
  PROVE  /\ wire \in Seq(UnitsOf(options)) /\ \A u \in UnitsOf(options) : IsUnit(u)
         /\ Parsed(wire) /\ Len(wire) \in Nat
         /\ \A k \in 1..Len(wire) : IsUnit(wire[k])
<1>1. options \in Configured /\ wire \in WiresOf(options)
  BY DEF InputInv
<1>2. wire \in Seq(UnitsOf(options)) /\ Parsed(wire) /\ \A u \in UnitsOf(options) : IsUnit(u)
  BY <1>1, SetupsAssumption DEF Configured
<1> QED BY <1>2

\* What is buffered is what was pushed last, from where the decoder has dropped to.
PosInv ==
  /\ input_dropped \in Nat /\ pushed = input_dropped + Len(input)
  /\ \A i \in 1..Len(input) : input[i] = Bytes(wire)[input_dropped + i]
  /\ received_input = (pushed # 0)

\* The read cursor is in what has been pushed.
LEMMA PosIs ==
  ASSUME InputInv, PosInv
  PROVE  /\ stream_input_pos \in Nat /\ Available \in Nat
         /\ stream_input_pos + Available = pushed
BY DEF InputInv, PosInv, stream_input_pos, Available

\* At the end of unit k the next byte is the next unit's first.
LEMMA UnitAt ==
  ASSUME InputInv, PosInv, NEW k \in 0..Len(wire), stream_input_pos = EndOf(wire, k),
         Available # 0
  PROVE  k + 1 \in 1..Len(wire) /\ Unit = wire[k + 1]
<1>1. PICK n \in Nat : n = Len(wire)
  BY WireIs
<1>2. /\ \A i \in 1..n : Bytes(wire)[EndOf(wire, i - 1) + 1] = <<i, 1>>
      /\ Size(wire) = EndOf(wire, n)
  <2>1. \A i \in 1..Len(wire) : Bytes(wire)[EndOf(wire, i - 1) + 1] = <<i, 1>>
    BY WireIs, BytesOfUnits
  <2> QED BY <1>1, <2>1 DEF Size
<1>3. PICK l \in Nat, p \in Nat, d \in Nat :
        l = Len(input) /\ p = input_pos /\ d = input_dropped /\ pushed = d + l /\ p <= l
  <2>1. Len(input) \in Nat /\ input_pos \in Nat /\ input_dropped \in Nat
    BY DEF InputInv, PosInv
  <2> QED BY <2>1 DEF InputInv, PosInv
<1>4. d + p = EndOf(wire, k) /\ p < l
  BY <1>3 DEF stream_input_pos, Available
<1>5. k # n
  <2>1. ASSUME k = n PROVE FALSE
    <3>1. pushed <= EndOf(wire, k)
      BY <1>2, <2>1 DEF InputInv
    <3> QED BY <1>3, <1>4, <3>1
  <2> QED BY <2>1
<1>6. k + 1 \in 1..n /\ (k + 1) - 1 = k
  BY <1>1, <1>5
<1>7. Bytes(wire)[EndOf(wire, k) + 1] = <<k + 1, 1>>
  <2>1. PICK i \in 1..n : i = k + 1 /\ i - 1 = k
    BY <1>6
  <2> QED BY <1>2, <2>1
<1>8. input[p + 1] = Bytes(wire)[d + (p + 1)]
  <2>1. p + 1 \in 1..l
    BY <1>3, <1>4
  <2> QED BY <1>3, <2>1 DEF PosInv
<1>9. d + (p + 1) = EndOf(wire, k) + 1
  BY <1>3, <1>4
<1>10. input[input_pos + 1][1] = k + 1
  BY <1>3, <1>7, <1>8, <1>9
<1> QED BY <1>1, <1>6, <1>10 DEF Unit

\* Using input moves the cursor, and nothing else of the wire.
LEMMA ProgressPos ==
  ASSUME InputInv, PosInv, NEW n \in Nat, n <= Available, Progress(n)
  PROVE  /\ PosInv' /\ stream_input_pos' = stream_input_pos + n /\ UNCHANGED <<options, wire>>
         /\ UNCHANGED pushed
<1>1. PICK l \in Nat, q \in Nat, d \in Nat, p \in Nat :
        l = Len(input) /\ q = input_pos /\ d = input_dropped /\ p = q + n /\ p <= l
  <2>1. Len(input) \in Nat /\ input_pos \in Nat /\ input_pos + n \in Nat /\ input_dropped \in Nat
        /\ input_pos + n <= Len(input)
    BY DEF InputInv, PosInv, Available
  <2> QED BY <2>1
<1>2. UNCHANGED <<options, wire, pushed, received_input>>
  BY DEF Progress, callerVars, flags
<1>3. CASE input' = input /\ input_pos' = p /\ input_dropped' = d
  <2>1. PosInv'
    BY <1>1, <1>2, <1>3 DEF PosInv
  <2> QED BY <1>1, <1>2, <1>3, <2>1 DEF stream_input_pos
<1>4. CASE input' = SubSeq(input, p + 1, l) /\ input_pos' = 0 /\ input_dropped' = d + p
  <2>1. PICK P : input \in Seq(P)
    BY DEF InputInv
  <2>2. Len(input') = l - p
    BY <1>1, <1>4, <2>1
  <2>3. \A i \in 1..(l - p) : input'[i] = input[p + i] /\ p + i \in 1..l
    BY <1>1, <1>4, <2>1
  <2>4. \A i \in 1..(l - p) : input'[i] = Bytes(wire)[d + (p + i)]
    BY <1>1, <2>3 DEF PosInv
  <2>5. \A i \in 1..(l - p) : d + (p + i) = (d + p) + i
    BY <1>1
  <2>6. \A i \in 1..Len(input') : input'[i] = Bytes(wire')[input_dropped' + i]
    BY <1>2, <1>4, <2>2, <2>4, <2>5
  <2>7. pushed' = input_dropped' + Len(input') /\ input_dropped' \in Nat
    <3>1. pushed = d + l
      BY <1>1 DEF PosInv
    <3>2. d + l = (d + p) + (l - p) /\ d + p \in Nat
      BY <1>1
    <3> QED BY <1>2, <1>4, <2>2, <3>1, <3>2
  <2>8. PosInv'
    BY <1>2, <2>6, <2>7 DEF PosInv
  <2>9. stream_input_pos' = d + p
    BY <1>1, <1>4 DEF stream_input_pos
  <2> QED BY <1>1, <1>2, <2>8, <2>9 DEF stream_input_pos
<1>5. \/ input' = input /\ input_pos' = p /\ input_dropped' = d
      \/ input' = SubSeq(input, p + 1, l) /\ input_pos' = 0 /\ input_dropped' = d + p
  BY <1>1 DEF Progress, compact_input
<1> QED BY <1>3, <1>4, <1>5

\* So does an error.
LEMMA FailsPos ==
  ASSUME InputInv, PosInv, NEW n \in Nat, n <= Available, NEW e, Fails(e, n)
  PROVE  /\ PosInv' /\ stream_input_pos' = stream_input_pos + n /\ UNCHANGED <<options, wire>>
         /\ UNCHANGED pushed
<1>1. UNCHANGED <<options, wire, pushed, received_input, input, input_dropped>>
      /\ input_pos' = input_pos + n
  BY DEF Fails, callerVars, flags
<1>2. PosInv'
  BY <1>1 DEF PosInv
<1>3. input_pos \in Nat /\ input_dropped \in Nat
  BY DEF InputInv, PosInv
<1> QED BY <1>1, <1>2, <1>3 DEF stream_input_pos

\* A loop that breaks leaves it.
LEMMA StaysPos ==
  ASSUME PosInv, UNCHANGED <<inputVars, callerVars, received_input>>
  PROVE  /\ PosInv' /\ UNCHANGED <<stream_input_pos, options, wire, pushed>>
BY DEF PosInv, inputVars, callerVars, stream_input_pos

\* push buffers the wire's next bytes.
LEMMA PushPos ==
  ASSUME InputInv, PosInv, NEW n \in PushSizes, push(n)
  PROVE  PosInv' /\ UNCHANGED <<stream_input_pos, options, wire>>
<1>1. /\ input' = input \o SubSeq(Bytes(wire), pushed + 1, pushed + n) /\ pushed' = pushed + n
      /\ UNCHANGED <<input_pos, input_dropped, options, wire>> /\ received_input' = TRUE
  BY DEF push
<1>2. PICK P, bytes, s : /\ P = (DOMAIN wire) \X Nat /\ bytes = Bytes(wire) /\ s = Size(wire)
                         /\ bytes \in Seq(P) /\ Len(bytes) = s /\ s \in Nat
  BY WireIs, BytesOfUnits
<1>3. PICK a \in Nat, l \in Nat, d \in Nat :
        /\ a = pushed /\ l = Len(input) /\ input \in Seq(P) /\ a <= s
        /\ d = input_dropped /\ a = d + l
  <2>1. pushed \in Nat /\ Len(input) \in Nat /\ input_dropped \in Nat /\ input \in Seq(P)
        /\ pushed = input_dropped + Len(input) /\ pushed <= s
    BY <1>2 DEF InputInv, PosInv
  <2> QED BY <2>1
<1>4. n \in Nat /\ a + n <= s /\ n # 0
  BY <1>2, <1>3, StreamDecoderAssumption DEF PushSizes
<1>5. PICK more : more = SubSeq(bytes, a + 1, a + n)
  OBVIOUS
<1>6. /\ more \in Seq(P) /\ Len(more) = n
      /\ \A i \in 1..n : more[i] = bytes[a + i]
  <2>1. \A i \in (a + 1)..(a + n) : bytes[i] \in P
    BY <1>2, <1>3, <1>4
  <2>2. more \in Seq(P)
    BY <1>2, <1>3, <1>4, <1>5, <2>1
  <2>3. Len(more) = n
    BY <1>2, <1>3, <1>4, <1>5
  <2>4. \A i \in 1..n : more[i] = bytes[a + i]
    BY <1>2, <1>3, <1>4, <1>5
  <2> QED BY <2>2, <2>3, <2>4
<1>7. input' = input \o more
  BY <1>1, <1>2, <1>3, <1>5
<1>8. /\ Len(input') = l + n
      /\ \A i \in 1..(l + n) : input'[i] = IF i <= l THEN input[i] ELSE more[i - l]
  <2>1. Len(input \o more) = l + n
    BY <1>3, <1>4, <1>6, ConcatProperties
  <2>2. \A i \in 1..(l + n) : (input \o more)[i] = IF i <= l THEN input[i] ELSE more[i - l]
    BY <1>3, <1>4, <1>6, ConcatProperties
  <2> QED BY <1>7, <2>1, <2>2
<1>9. ASSUME NEW i \in 1..(l + n) PROVE input'[i] = bytes[d + i]
  <2>1. CASE i <= l
    <3>1. i \in 1..l
      BY <1>3, <2>1
    <3> QED BY <1>2, <1>3, <1>8, <2>1, <3>1 DEF PosInv
  <2>2. CASE ~(i <= l)
    <3>1. PICK j \in 1..n : j = i - l
      <4>1. i - l \in 1..n
        BY <1>3, <1>4, <2>2
      <4> QED BY <4>1
    <3>2. a + j = d + i
      BY <1>3, <3>1
    <3> QED BY <1>6, <1>8, <2>2, <3>1, <3>2
  <2> QED BY <2>1, <2>2
<1>10. pushed' = input_dropped' + Len(input') /\ pushed' # 0
  <2>1. a + n = d + (l + n) /\ a + n # 0
    BY <1>3, <1>4
  <2> QED BY <1>1, <1>3, <1>8, <2>1
<1>11. PosInv'
  BY <1>1, <1>2, <1>3, <1>8, <1>9, <1>10 DEF PosInv
<1> QED BY <1>1, <1>11 DEF stream_input_pos

-----------------------------------------------------------------------------
\* What the decoder's state says of the units it has read.

\* A decoder in state s with frame f has read pos bytes of wire w: k units and, where it is
\* in the middle of one that announces a payload, that unit's header.
Stands(w, k, s, f, pos) ==
  LET place == PlacesOf(w)[k]
  IN  /\ k \in 0..Len(w)
      /\ place.payload = 0 /\ f.open = place.open
      /\ f.open => place.checksum = f.header.checksum
      /\ s.tag \in {"FrameHeader", "BlockHeader", "FrameChecksum"} => pos = EndOf(w, k)
      /\ s.tag \in {"FrameHeader", "Skippable"} => ~f.open
      /\ s.tag \in {"BlockHeader", "BlockPayload"} => f.open /\ ~place.last
      /\ s.tag = "FrameChecksum" => f.open /\ place.last
      /\ s.tag = "BlockPayload" =>
           k + 1 \in 1..Len(w) /\ s.header = w[k + 1] /\ pos = EndOf(w, k + 1)
      /\ s.tag = "Skippable" =>
           /\ k + 1 \in 1..Len(w) /\ w[k + 1].kind = "skippable"
           /\ s.remaining <= w[k + 1].remaining
           /\ s.remaining = 0 => w[k + 1].remaining = 0
           /\ pos = EndOf(w, k + 1) + (w[k + 1].remaining - s.remaining)

\* Units 2 to k are of one frame.
LateKinds == {"block", "payload", "checksum"}
OneFrame(w, k) == \A j \in 2..k : w[j].kind \in LateKinds

\* A decoder of one frame is before it, in it or behind it.
Single(w, k, s, f, decoded) ==
  /\ OneFrame(w, k)
  /\ s.tag # "Skippable"
  /\ f.open => ~decoded
  /\ s.tag = "FrameHeader" /\ ~decoded => k = 0
  /\ k = 0 => ~decoded

At(k) ==
  /\ Stands(wire, k, state, frame, stream_input_pos)
  /\ options.single_frame => Single(wire, k, state, frame, decoded_a_frame)

\* A block without a payload can be tried again after it has failed.
Retries == state.tag = "BlockPayload" /\ payload_size(state.header) = 0 /\ frame.open

Placed == \E k \in 0..Len(wire) : At(k)
PlaceInv == ~failed \/ Retries => Placed

\* Once its one frame is decoded such a decoder reads no further.
LengthInv ==
  /\ decoded_a_frame \in BOOLEAN
  /\ options.single_frame /\ decoded_a_frame =>
       /\ state.tag = "FrameHeader"
       /\ \E k \in 1..Len(wire) :
            /\ stream_input_pos = EndOf(wire, k) /\ OneFrame(wire, k)
            /\ PlacesOf(wire)[k].payload = 0 /\ ~PlacesOf(wire)[k].open

\* The unit behind the first k.
LEMMA NextUnit ==
  ASSUME InputInv, NEW k \in 0..Len(wire), k + 1 \in 1..Len(wire)
  PROVE  LET place == PlacesOf(wire)[k] u == wire[k + 1]
         IN  /\ PlacesOf(wire)[k + 1] = PlaceAfter(place, u) /\ Belongs(place, u) /\ IsUnit(u)
             /\ EndOf(wire, k + 1) = EndOf(wire, k) + u.size
             /\ EndOf(wire, k) \in Nat /\ EndOf(wire, k + 1) \in Nat
             /\ place = [payload |-> place.payload, open |-> place.open,
                         checksum |-> place.checksum, last |-> place.last]
             /\ place.payload \in Nat /\ place.open \in BOOLEAN
<1>1. PICK n, i : /\ n = Len(wire) /\ n \in Nat
                  /\ i = k + 1 /\ i - 1 = k /\ i \in 0..n /\ i \in 1..n /\ k \in 0..n
  <2>1. Len(wire) \in Nat /\ (k + 1) - 1 = k /\ k + 1 \in 0..Len(wire)
    BY WireIs
  <2> QED BY <2>1
<1>2. /\ EndOf(wire, i) = EndOf(wire, i - 1) + wire[i].size
      /\ EndOf(wire, k) \in Nat /\ EndOf(wire, i) \in Nat
  BY <1>1, WireIs, EndIs
<1>3. PICK p : p = PlacesOf(wire)
  OBVIOUS
<1>4. /\ p[i] = PlaceAfter(p[i - 1], wire[i]) /\ Belongs(p[i - 1], wire[i])
      /\ p[k] = [payload |-> p[k].payload, open |-> p[k].open,
                 checksum |-> p[k].checksum, last |-> p[k].last]
      /\ p[k].payload \in Nat /\ p[k].open \in BOOLEAN
  BY <1>1, <1>3, WireIs, PlaceIs
<1>5. IsUnit(wire[i])
  BY <1>1, WireIs
<1> QED BY <1>1, <1>2, <1>3, <1>4, <1>5

\* A header the loop acts on is the next unit's.
LEMMA HeaderAt ==
  ASSUME StreamInv, PosInv, NEW k \in 0..Len(wire), At(k), state.tag = "FrameHeader", ~Stalled
  PROVE  /\ k + 1 \in 1..Len(wire) /\ Unit = wire[k + 1] /\ Available # 0
         /\ Unit.kind \in {"frame", "skippable", "junk"}
         /\ stream_input_pos = EndOf(wire, k)
         /\ PlacesOf(wire)[k].payload = 0 /\ ~PlacesOf(wire)[k].open
         /\ ~frame.open
         /\ options.single_frame /\ ~decoded_a_frame => k = 0
<1>1. InputInv /\ Available # 0 /\ stream_input_pos = EndOf(wire, k)
  BY DEF StreamInv, At, Stands, Stalled
<1>2. k + 1 \in 1..Len(wire) /\ Unit = wire[k + 1]
  BY <1>1, UnitAt
<1>3. PICK q : q = PlacesOf(wire)[k]
  OBVIOUS
<1>4. q.payload = 0 /\ ~q.open /\ Belongs(q, wire[k + 1]) /\ ~frame.open
  <2>1. q.payload = 0 /\ ~frame.open /\ frame.open = q.open
    BY <1>3 DEF At, Stands
  <2>2. Belongs(q, wire[k + 1])
    BY <1>1, <1>2, <1>3, NextUnit
  <2> QED BY <2>1, <2>2
<1>5. wire[k + 1].kind \in {"frame", "skippable", "junk"}
  BY <1>4 DEF Belongs
<1>6. options.single_frame /\ ~decoded_a_frame => k = 0
  BY DEF At, Single
<1> QED BY <1>1, <1>2, <1>3, <1>4, <1>5, <1>6

\* A skippable frame's header leads into that unit.
LEMMA SkippableHeaderAt ==
  ASSUME StreamInv, PosInv, NEW k \in 0..Len(wire), At(k), process_skippable_header
  PROVE  At(k)' /\ PosInv' /\ ~options.single_frame /\ UNCHANGED <<options, wire, pushed>>
<1>1. /\ state.tag = "FrameHeader" /\ ~Stalled /\ HeaderError = "Ok" /\ Unit.kind = "skippable"
      /\ state' = SkippableState(Unit.remaining) /\ Progress(Unit.size)
      /\ UNCHANGED <<frame, decoded_a_frame>>
  BY DEF process_skippable_header
<1>2. /\ k + 1 \in 1..Len(wire) /\ Unit = wire[k + 1] /\ ~frame.open
      /\ stream_input_pos = EndOf(wire, k)
  BY <1>1, HeaderAt
<1>3. InputInv /\ IsUnit(Unit) /\ Unit.size <= Available
  BY <1>1, HeaderRead DEF StreamInv
<1>4. Unit.size \in Nat /\ Unit.remaining \in Nat
  BY <1>1, <1>3 DEF IsUnit
<1>5. /\ PosInv' /\ stream_input_pos' = stream_input_pos + Unit.size
      /\ UNCHANGED <<options, wire, pushed>>
  BY <1>1, <1>3, <1>4, ProgressPos
<1>6. ~options.single_frame
  <2>1. parse_frame_header(Unit, Available) = "skippable"
    <3>1. PICK u, n : u = Unit /\ n = Available /\ u.kind = "skippable" /\ u.size <= n
                      /\ u.size = SKIPPABLE_HEADER_SIZE /\ n \in Nat
      BY <1>1, <1>3, PosIs DEF IsUnit
    <3>2. ~(n < MAGIC_SIZE) /\ n >= MAGIC_SIZE /\ ~(n < u.size)
      BY <3>1 DEF MAGIC_SIZE, SKIPPABLE_HEADER_SIZE
    <3>3. parse_frame_header(u, n) = "skippable"
      BY <3>1, <3>2 DEF parse_frame_header
    <3> QED BY <3>1, <3>3
  <2> QED BY <1>1, <2>1 DEF HeaderError
<1>7. EndOf(wire, k + 1) = EndOf(wire, k) + Unit.size /\ EndOf(wire, k + 1) \in Nat
  BY <1>2, <1>3, NextUnit
<1>8. state'.tag = "Skippable" /\ state'.remaining = Unit.remaining
  BY <1>1 DEF SkippableState
<1>9. Stands(wire, k, state', frame, stream_input_pos')
  <2>1. PICK r \in Nat, e \in Nat : r = Unit.remaining /\ e = EndOf(wire, k + 1)
    BY <1>4, <1>7
  <2>2. stream_input_pos' = e + (wire[k + 1].remaining - state'.remaining)
    BY <1>2, <1>5, <1>7, <1>8, <2>1
  <2>3. /\ PlacesOf(wire)[k].payload = 0 /\ frame.open = PlacesOf(wire)[k].open
    BY DEF At, Stands
  <2>4. state'.remaining <= wire[k + 1].remaining
    BY <1>2, <1>8, <2>1
  <2>5. state'.remaining = 0 => wire[k + 1].remaining = 0
    BY <1>2, <1>8
  <2> QED BY <1>1, <1>2, <1>8, <2>1, <2>2, <2>3, <2>4, <2>5 DEF Stands
<1> QED BY <1>1, <1>5, <1>6, <1>9 DEF At

\* A frame's header opens the frame behind it, or is read and rejected.
LEMMA ZstandardHeaderAt ==
  ASSUME StreamInv, PosInv, NEW k \in 0..Len(wire), At(k), process_zstandard_header
  PROVE  /\ PosInv' /\ UNCHANGED <<options, wire, pushed, decoded_a_frame>>
         /\ k + 1 \in 1..Len(wire) /\ Unit = wire[k + 1] /\ wire[k + 1].kind = "frame"
         /\ stream_input_pos' = EndOf(wire, k + 1)
         /\ options.single_frame => ~decoded_a_frame
         /\ failed' \/ At(k + 1)'
<1>1. /\ state.tag = "FrameHeader" /\ ~Stalled /\ HeaderError = "Ok" /\ Unit.kind = "frame"
      /\ UNCHANGED <<decoded_a_frame>>
  BY DEF process_zstandard_header
<1>2. /\ k + 1 \in 1..Len(wire) /\ Unit = wire[k + 1] /\ ~frame.open
      /\ stream_input_pos = EndOf(wire, k)
      /\ options.single_frame /\ ~decoded_a_frame => k = 0
  BY <1>1, HeaderAt
<1>3. InputInv /\ IsUnit(Unit) /\ Unit.size <= Available /\ Unit.size \in Nat
  BY <1>1, HeaderRead DEF StreamInv, IsUnit
<1>4. PICK start, origin :
        \/ /\ frame' = FreshFrame(Unit, start, origin) /\ state' = BlockHeaderState
           /\ Progress(Unit.size)
        \/ \E e : Fails(e, Unit.size)
  BY DEF process_zstandard_header
<1>5. /\ PosInv' /\ stream_input_pos' = stream_input_pos + Unit.size
      /\ UNCHANGED <<options, wire, pushed>>
  BY <1>3, <1>4, ProgressPos, FailsPos
<1>6. stream_input_pos' = EndOf(wire, k + 1)
  BY <1>2, <1>3, <1>5, NextUnit
<1>7. options.single_frame => ~decoded_a_frame
  BY <1>1 DEF HeaderError
<1>8. CASE \E e : Fails(e, Unit.size)
  <2>1. failed' = TRUE
    BY <1>8 DEF Fails
  <2> QED BY <1>1, <1>2, <1>5, <1>6, <1>7, <2>1
<1>9. CASE /\ frame' = FreshFrame(Unit, start, origin) /\ state' = BlockHeaderState
           /\ Progress(Unit.size)
  <2>1. state'.tag = "BlockHeader"
    BY <1>9 DEF BlockHeaderState
  <2>2. frame'.open = TRUE /\ frame'.header = Unit
    BY <1>9 DEF FreshFrame
  <2>3. PICK q : q = PlacesOf(wire)[k + 1] /\ q = PlaceAfter(PlacesOf(wire)[k], wire[k + 1])
    BY <1>2, <1>3, NextUnit
  <2>4. q = [payload |-> 0, open |-> TRUE, checksum |-> Unit.checksum, last |-> FALSE]
    BY <1>1, <1>2, <2>3 DEF PlaceAfter
  <2>5. q.payload = 0 /\ q.open = TRUE /\ q.checksum = Unit.checksum /\ q.last = FALSE
    BY <2>4
  <2>6. k + 1 \in 0..Len(wire)
    BY <1>2
  <2>7. Stands(wire, k + 1, state', frame', stream_input_pos')
    BY <1>6, <2>1, <2>2, <2>3, <2>5, <2>6 DEF Stands
  <2>8. options.single_frame => Single(wire, k + 1, state', frame', decoded_a_frame)
    <3>1. SUFFICES ASSUME options.single_frame
                   PROVE  Single(wire, k + 1, state', frame', decoded_a_frame)
      OBVIOUS
    <3>2. k = 0 /\ ~decoded_a_frame
      BY <1>2, <1>7, <3>1
    <3>3. OneFrame(wire, k + 1)
      <4>1. \A j \in 2..(k + 1) : FALSE
        BY <3>2
      <4> QED BY <4>1 DEF OneFrame
    <3> QED BY <2>1, <3>2, <3>3 DEF Single
  <2>9. At(k + 1)'
    BY <1>1, <1>5, <2>7, <2>8 DEF At
  <2> QED BY <1>1, <1>2, <1>5, <1>6, <1>7, <2>9
<1> QED BY <1>4, <1>8, <1>9

\* A turn in a skippable frame stays in it or leaves it behind.
LEMMA SkippableFrameAt ==
  ASSUME StreamInv, PosInv, NEW k \in 0..Len(wire), At(k), process_skippable_frame
  PROVE  /\ PosInv' /\ UNCHANGED <<options, wire, pushed, frame, decoded_a_frame>>
         /\ ~options.single_frame
         /\ k + 1 \in 1..Len(wire) /\ wire[k + 1].kind = "skippable"
         /\ \/ At(k)' /\ state'.tag = "Skippable"
            \/ wire[k + 1].remaining = 0 /\ At(k + 1)' /\ state'.tag = "FrameHeader"
            \/ /\ k + 2 \in 1..Len(wire) /\ wire[k + 2].kind = "payload"
               /\ At(k + 2)' /\ state'.tag = "FrameHeader"
<1>1. /\ state.tag = "Skippable" /\ UNCHANGED <<frame, decoded_a_frame>>
      /\ InputInv /\ state.remaining \in Nat
  BY DEF process_skippable_frame, StreamInv, StateInv
<1>2. /\ k + 1 \in 1..Len(wire) /\ wire[k + 1].kind = "skippable" /\ ~frame.open
      /\ state.remaining <= wire[k + 1].remaining
      /\ state.remaining = 0 => wire[k + 1].remaining = 0
      /\ stream_input_pos = EndOf(wire, k + 1) + (wire[k + 1].remaining - state.remaining)
      /\ ~options.single_frame
      /\ PlacesOf(wire)[k].payload = 0 /\ frame.open = PlacesOf(wire)[k].open
  BY <1>1 DEF At, Stands, Single
<1>3. PICK q, g, u : /\ q = PlacesOf(wire)[k] /\ g = PlacesOf(wire)[k + 1] /\ u = wire[k + 1]
                     /\ g = PlaceAfter(q, u) /\ IsUnit(u) /\ EndOf(wire, k + 1) \in Nat
                     /\ q = [payload |-> q.payload, open |-> q.open,
                             checksum |-> q.checksum, last |-> q.last]
  BY <1>1, <1>2, NextUnit
<1>4. PICK r \in Nat, m \in Nat, e \in Nat, a \in Nat, pos \in Nat, t \in Nat :
        /\ r = state.remaining /\ m = u.remaining /\ e = EndOf(wire, k + 1) /\ a = Available
        /\ pos = stream_input_pos /\ t = pushed
        /\ r <= m /\ (r = 0 => m = 0) /\ pos = e + (m - r) /\ pos + a = t
  <2>1. u.remaining \in Nat /\ Available \in Nat /\ stream_input_pos \in Nat
        /\ stream_input_pos + Available = pushed /\ pushed \in Nat
    BY <1>1, <1>2, <1>3, PosIs DEF IsUnit, InputInv
  <2> QED BY <1>1, <1>2, <1>3, <2>1
<1>5. r <= m /\ (r = 0 => m = 0) /\ pos = e + (m - r) /\ pos + a = t
  BY <1>4
<1>6. g = [payload |-> m, open |-> q.open, checksum |-> q.checksum, last |-> q.last]
  BY <1>2, <1>3, <1>4 DEF PlaceAfter
<1>7. PICK c \in Nat : c = Least(a, r) /\ c <= a /\ c <= r
  <2>1. Least(a, r) \in Nat /\ Least(a, r) <= a /\ Least(a, r) <= r
    BY DEF Least
  <2> QED BY <2>1
<1>8. /\ state' = IF r - c = 0 THEN FrameHeaderState ELSE SkippableState(r - c)
      /\ \/ Progress(c)
         \/ c = 0 /\ (\E s : Returns(s)) /\ UNCHANGED inputVars
  BY <1>4, <1>7 DEF process_skippable_frame
<1>9. c <= a /\ c <= r
  BY <1>7
<1>10. /\ PosInv' /\ stream_input_pos' = pos + c /\ UNCHANGED <<options, wire, pushed>>
  <2>1. CASE Progress(c)
    BY <1>1, <1>4, <1>7, <2>1, ProgressPos
  <2>2. CASE c = 0 /\ (\E s : Returns(s)) /\ UNCHANGED inputVars
    <3>1. UNCHANGED <<inputVars, callerVars, received_input>>
      BY <2>2 DEF Returns, flags
    <3>2. PosInv' /\ UNCHANGED <<stream_input_pos, options, wire, pushed>>
      BY <3>1, StaysPos
    <3>3. stream_input_pos' = pos /\ pos = pos + c
      <4>1. stream_input_pos' = stream_input_pos
        BY <3>2
      <4>2. pos = pos + c
        BY <2>2
      <4> QED BY <1>4, <4>1, <4>2
    <3> QED BY <3>2, <3>3
  <2> QED BY <1>8, <2>1, <2>2
<1>11. frame'.open = frame.open /\ frame' = frame
  BY <1>1
<1>12. CASE r - c # 0
  <2>1. state'.tag = "Skippable" /\ state'.remaining = r - c
    BY <1>8, <1>12 DEF SkippableState
  <2>2. /\ stream_input_pos' = e + (m - (r - c)) /\ r - c <= m /\ r - c # 0
    <3>1. pos + c = e + (m - (r - c)) /\ r - c <= m
      BY <1>5, <1>9
    <3> QED BY <1>10, <1>12, <3>1
  <2>3. Stands(wire, k, state', frame', stream_input_pos')
    BY <1>2, <1>3, <1>4, <1>11, <2>1, <2>2 DEF Stands
  <2>4. At(k)'
    BY <1>2, <1>10, <2>3 DEF At
  <2> QED BY <1>1, <1>2, <1>10, <2>1, <2>4
<1>13. CASE r - c = 0 /\ m = 0
  <2>1. state'.tag = "FrameHeader"
    BY <1>8, <1>13 DEF FrameHeaderState
  <2>2. stream_input_pos' = EndOf(wire, k + 1)
    <3>1. pos + c = e
      BY <1>5, <1>9, <1>13
    <3> QED BY <1>4, <1>10, <3>1
  <2>3. g.payload = 0 /\ g.open = q.open /\ g.checksum = q.checksum
    BY <1>6, <1>13
  <2>4. k + 1 \in 0..Len(wire)
    BY <1>2
  <2>5. Stands(wire, k + 1, state', frame', stream_input_pos')
    BY <1>2, <1>3, <1>11, <2>1, <2>2, <2>3, <2>4 DEF Stands
  <2>6. At(k + 1)'
    BY <1>2, <1>10, <2>5 DEF At
  <2> QED BY <1>1, <1>2, <1>3, <1>4, <1>10, <1>13, <2>1, <2>6
<1>14. CASE r - c = 0 /\ m # 0
  <2>1. state'.tag = "FrameHeader"
    BY <1>8, <1>14 DEF FrameHeaderState
  <2>2. PICK n \in Nat : n = Len(wire)
    BY <1>1, WireIs
  <2>3. r # 0 /\ e + m <= t
    BY <1>5, <1>9, <1>14
  <2>4. k + 1 # n
    <3>1. ASSUME k + 1 = n PROVE FALSE
      <4>1. t <= e
        BY <1>1, <1>4, <2>2, <3>1 DEF InputInv, Size
      <4> QED BY <1>14, <2>3, <4>1
    <3> QED BY <3>1
  <2>5. PICK h : h = k + 1 /\ h \in 0..Len(wire) /\ h + 1 \in 1..Len(wire) /\ h + 1 = k + 2
    <3>1. k + 1 \in 0..Len(wire) /\ (k + 1) + 1 \in 1..Len(wire) /\ (k + 1) + 1 = k + 2
      BY <1>2, <2>2, <2>4
    <3> QED BY <3>1
  <2>6. PICK v, f : /\ v = wire[h + 1] /\ f = PlacesOf(wire)[h + 1]
                    /\ f = PlaceAfter(g, v) /\ Belongs(g, v)
                    /\ EndOf(wire, h + 1) = e + v.size
    BY <1>1, <1>3, <1>4, <2>5, NextUnit
  <2>7. g.payload = m
    BY <1>6
  <2>8. v.kind = "payload" /\ v.size = m
    BY <1>14, <2>6, <2>7 DEF Belongs
  <2>9. f = [payload |-> 0, open |-> q.open, checksum |-> q.checksum, last |-> q.last]
    BY <1>6, <2>6, <2>8 DEF PlaceAfter
  <2>10. f.payload = 0 /\ f.open = q.open
    BY <2>9
  <2>11. stream_input_pos' = EndOf(wire, h + 1)
    <3>1. pos + c = e + m
      BY <1>5, <1>9, <1>14
    <3> QED BY <1>10, <2>6, <2>8, <3>1
  <2>12. h + 1 \in 0..Len(wire)
    BY <2>5
  <2>13. Stands(wire, h + 1, state', frame', stream_input_pos')
    BY <1>2, <1>3, <1>11, <2>1, <2>6, <2>10, <2>11, <2>12 DEF Stands
  <2>14. At(h + 1)'
    BY <1>2, <1>10, <2>13 DEF At
  <2> QED BY <1>1, <1>2, <1>10, <2>1, <2>5, <2>6, <2>8, <2>14
<1> QED BY <1>12, <1>13, <1>14

\* A block's header leads into that unit, or is refused where it stands.
LEMMA BlockHeaderAt ==
  ASSUME StreamInv, PosInv, NEW k \in 0..Len(wire), At(k), process_block_header
  PROVE  /\ PosInv' /\ UNCHANGED <<options, wire, pushed, frame, decoded_a_frame>>
         /\ frame.open /\ k + 1 \in 1..Len(wire) /\ Unit = wire[k + 1]
         /\ wire[k + 1].kind = "block"
         /\ \/ At(k)' /\ state' = BlockPayloadState(wire[k + 1])
               /\ wire[k + 1].block_type # "Reserved"
            \/ /\ Fails("Corruption", 0) /\ UNCHANGED <<state, stream_input_pos>>
               /\ wire[k + 1].block_type = "Reserved"
<1>1. /\ state.tag = "BlockHeader" /\ ~Stalled /\ Unit.kind = "block" /\ InputInv
      /\ UNCHANGED <<frame, decoded_a_frame>>
      /\ \/ /\ Unit.block_type # "Reserved" /\ state' = BlockPayloadState(Unit)
            /\ Progress(BLOCK_HEADER_SIZE)
         \/ Unit.block_type = "Reserved" /\ Fails("Corruption", 0) /\ UNCHANGED state
  BY DEF process_block_header, StreamInv
<1>2. /\ stream_input_pos = EndOf(wire, k) /\ frame.open /\ ~PlacesOf(wire)[k].last
      /\ PlacesOf(wire)[k].payload = 0 /\ frame.open = PlacesOf(wire)[k].open
      /\ PlacesOf(wire)[k].checksum = frame.header.checksum
  BY <1>1 DEF At, Stands
<1>3. /\ Available \in Nat /\ BLOCK_HEADER_SIZE \in Nat /\ BLOCK_HEADER_SIZE <= Available
      /\ Available # 0 /\ 0 \in Nat /\ 0 <= Available /\ stream_input_pos \in Nat
  <2>1. Available \in Nat /\ ~(Available < BLOCK_HEADER_SIZE) /\ stream_input_pos \in Nat
    BY <1>1, PosIs DEF Stalled
  <2> QED BY <2>1 DEF BLOCK_HEADER_SIZE
<1>4. k + 1 \in 1..Len(wire) /\ Unit = wire[k + 1]
  BY <1>1, <1>2, <1>3, UnitAt
<1>5. EndOf(wire, k + 1) = EndOf(wire, k) + Unit.size /\ Unit.size = BLOCK_HEADER_SIZE
  BY <1>1, <1>4, NextUnit DEF IsUnit
<1>6. CASE /\ Unit.block_type # "Reserved" /\ state' = BlockPayloadState(Unit)
           /\ Progress(BLOCK_HEADER_SIZE)
  <2>1. /\ PosInv' /\ stream_input_pos' = stream_input_pos + BLOCK_HEADER_SIZE
        /\ UNCHANGED <<options, wire, pushed>>
    BY <1>1, <1>3, <1>6, ProgressPos
  <2>2. stream_input_pos' = EndOf(wire, k + 1)
    BY <1>2, <1>5, <2>1
  <2>3. state'.tag = "BlockPayload" /\ state'.header = wire[k + 1]
    BY <1>4, <1>6 DEF BlockPayloadState
  <2>4. Stands(wire, k, state', frame', stream_input_pos')
    BY <1>1, <1>2, <1>4, <2>2, <2>3 DEF Stands
  <2>5. options.single_frame => Single(wire, k, state', frame', decoded_a_frame')
    <3>1. ASSUME options.single_frame PROVE Single(wire, k, state', frame', decoded_a_frame')
      <4>1. Single(wire, k, state, frame, decoded_a_frame)
        BY <3>1 DEF At
      <4> QED BY <1>1, <1>2, <2>3, <4>1 DEF Single
    <3> QED BY <3>1
  <2> QED BY <1>1, <1>2, <1>4, <1>6, <2>1, <2>4, <2>5 DEF At
<1>7. CASE Unit.block_type = "Reserved" /\ Fails("Corruption", 0) /\ UNCHANGED state
  <2>1. /\ PosInv' /\ stream_input_pos' = stream_input_pos + 0
        /\ UNCHANGED <<options, wire, pushed>>
    BY <1>1, <1>3, <1>7, FailsPos
  <2> QED BY <1>1, <1>2, <1>3, <1>4, <1>7, <2>1
<1> QED BY <1>1, <1>6, <1>7

\* The end of a block's payload: behind its header, or behind the unit that follows it.
PayloadEnd(w, k) == IF payload_size(w[k + 1]) = 0 THEN k + 1 ELSE k + 2

\* A payload that is there is the next unit, if it is not empty.
LEMMA PayloadAt ==
  ASSUME StreamInv, PosInv, NEW k \in 0..Len(wire), At(k), state.tag = "BlockPayload", ~Stalled,
         NEW j, j = PayloadEnd(wire, k)
  PROVE  LET place == PlacesOf(wire)[j] block == wire[k + 1]
         IN  /\ k + 1 \in 1..Len(wire) /\ state.header = wire[k + 1] /\ block.kind = "block"
             /\ j \in 1..Len(wire) /\ EndOf(wire, j) = stream_input_pos + payload_size(block)
             /\ payload_size(block) # 0 =>
                  j = (k + 1) + 1 /\ wire[j].kind = "payload" /\ wire[j].size = payload_size(block)
             /\ payload_size(block) = 0 => j = k + 1
             /\ place.payload = 0 /\ place.checksum = frame.header.checksum
             /\ place.open = (~block.last_block \/ frame.header.checksum)
             /\ place.last = block.last_block
             /\ OneFrame(wire, k) => OneFrame(wire, j)
<1>1. /\ InputInv /\ state.header.kind = "block" /\ StateInv
  BY DEF StreamInv, StateInv
<1>2. /\ k + 1 \in 1..Len(wire) /\ state.header = wire[k + 1] /\ frame.open
      /\ stream_input_pos = EndOf(wire, k + 1) /\ ~PlacesOf(wire)[k].last
      /\ PlacesOf(wire)[k].payload = 0 /\ PlacesOf(wire)[k].checksum = frame.header.checksum
  BY DEF At, Stands
<1>3. PICK q, g, u : /\ q = PlacesOf(wire)[k] /\ g = PlacesOf(wire)[k + 1] /\ u = wire[k + 1]
                     /\ g = PlaceAfter(q, u) /\ IsUnit(u) /\ EndOf(wire, k + 1) \in Nat
                     /\ q = [payload |-> q.payload, open |-> q.open,
                             checksum |-> q.checksum, last |-> q.last]
  BY <1>1, <1>2, NextUnit
<1>4. PICK m \in Nat : m = payload_size(u) /\ m <= Available
  BY <1>2, <1>3, PayloadRead
<1>5. g = [payload |-> m, open |-> (~u.last_block \/ q.checksum), checksum |-> q.checksum,
           last |-> u.last_block]
  <2>1. PICK c, l : c = (~u.last_block \/ q.checksum) /\ l = u.last_block
    OBVIOUS
  <2>2. g = [q EXCEPT !.payload = m, !.last = l, !.open = c]
    BY <1>1, <1>2, <1>3, <1>4, <2>1 DEF PlaceAfter
  <2>3. g = [payload |-> m, open |-> c, checksum |-> q.checksum, last |-> l]
    BY <1>3, <2>2
  <2> QED BY <2>1, <2>3
<1>6. /\ g.payload = m /\ g.open = (~u.last_block \/ q.checksum) /\ g.checksum = q.checksum
      /\ g.last = u.last_block
  BY <1>5
<1>7. PICK n \in Nat : n = Len(wire)
  BY <1>1, WireIs
<1>8. CASE m = 0
  <2>1. j = k + 1
    BY <1>3, <1>4, <1>8 DEF PayloadEnd
  <2>2. OneFrame(wire, k) => OneFrame(wire, j)
    <3>1. \A i \in 2..(k + 1) : i \in 2..k \/ i = k + 1
      OBVIOUS
    <3>2. wire[k + 1].kind \in LateKinds
      BY <1>1, <1>2 DEF LateKinds
    <3> QED BY <2>1, <3>1, <3>2 DEF OneFrame
  <2>3. EndOf(wire, j) = stream_input_pos + payload_size(wire[k + 1])
    BY <1>2, <1>3, <1>4, <1>8, <2>1
  <2> QED BY <1>1, <1>2, <1>3, <1>4, <1>6, <1>8, <2>1, <2>2, <2>3
<1>9. CASE m # 0
  <2>1. PICK e \in Nat, t \in Nat, a \in Nat :
          e = EndOf(wire, k + 1) /\ t = pushed /\ a = Available /\ e + a = t /\ m <= a
    <3>1. pushed \in Nat /\ Available \in Nat /\ stream_input_pos + Available = pushed
      BY <1>1, PosIs DEF InputInv
    <3> QED BY <1>2, <1>3, <1>4, <3>1
  <2>2. k + 1 # n
    <3>1. ASSUME k + 1 = n PROVE FALSE
      <4>1. t <= e
        BY <1>1, <1>7, <2>1, <3>1 DEF InputInv, Size
      <4> QED BY <1>9, <2>1, <4>1
    <3> QED BY <3>1
  <2>3. PICK h : h = k + 1 /\ h \in 0..Len(wire) /\ h + 1 \in 1..Len(wire) /\ h + 1 = k + 2
    <3>1. k + 1 \in 0..Len(wire) /\ (k + 1) + 1 \in 1..Len(wire) /\ (k + 1) + 1 = k + 2
      BY <1>2, <1>7, <2>2
    <3> QED BY <3>1
  <2>4. PICK v, f : /\ v = wire[h + 1] /\ f = PlacesOf(wire)[h + 1]
                    /\ f = PlaceAfter(g, v) /\ Belongs(g, v)
                    /\ EndOf(wire, h + 1) = e + v.size
    BY <1>1, <1>3, <2>1, <2>3, NextUnit
  <2>5. v.kind = "payload" /\ v.size = m
    BY <1>6, <1>9, <2>4 DEF Belongs
  <2>6. f = [g EXCEPT !.payload = 0]
    BY <2>4, <2>5 DEF PlaceAfter
  <2>7. f = [payload |-> 0, open |-> (~u.last_block \/ q.checksum), checksum |-> q.checksum,
             last |-> u.last_block]
    BY <1>5, <2>6
  <2>8. /\ f.payload = 0 /\ f.open = (~u.last_block \/ q.checksum) /\ f.checksum = q.checksum
        /\ f.last = u.last_block
    BY <2>7
  <2>9. j = h + 1 /\ j = (k + 1) + 1
    BY <1>3, <1>4, <1>9, <2>3 DEF PayloadEnd
  <2>10. OneFrame(wire, k) => OneFrame(wire, j)
    <3>1. \A i \in 2..((k + 1) + 1) : i \in 2..k \/ i = k + 1 \/ i = (k + 1) + 1
      OBVIOUS
    <3>2. wire[k + 1].kind \in LateKinds /\ wire[j].kind \in LateKinds
      BY <1>1, <1>2, <2>4, <2>5, <2>9 DEF LateKinds
    <3> QED BY <2>9, <3>1, <3>2 DEF OneFrame
  <2>11. EndOf(wire, j) = stream_input_pos + payload_size(wire[k + 1])
    BY <1>2, <1>3, <1>4, <2>1, <2>4, <2>5, <2>9
  <2> QED BY <1>1, <1>2, <1>3, <1>4, <1>9, <2>3, <2>4, <2>5, <2>8, <2>9, <2>10, <2>11
<1> QED BY <1>8, <1>9

\* A decoded block leads behind its payload.
LEMMA PayloadLeads ==
  ASSUME StreamInv, PosInv, decoded_a_frame \in BOOLEAN, NEW k \in 0..Len(wire), At(k),
         process_block_payload, NEW j, j = PayloadEnd(wire, k)
  PROVE  /\ PosInv' /\ UNCHANGED <<options, wire, pushed>>
         /\ j \in 1..Len(wire) /\ stream_input_pos' = EndOf(wire, j)
         /\ \/ At(j)' /\ UNCHANGED failed /\ state'.tag # "BlockPayload"
            \/ failed' /\ ~frame'.open /\ UNCHANGED <<state, decoded_a_frame>>
<1>1. PICK block, f :
        /\ block = state.header
        /\ \E e, made : f = absorb_block_output(frame, e, made)
        /\ state.tag = "BlockPayload" /\ ~Stalled /\ frame.open
        /\ \/ /\ ~block.last_block \/ f.header.checksum
              /\ frame' = f
              /\ state' = IF block.last_block THEN FrameChecksumState ELSE BlockHeaderState
              /\ Progress(payload_size(block))
              /\ UNCHANGED decoded_a_frame
           \/ /\ block.last_block /\ ~f.header.checksum
              /\ finish_frame(f)
              /\ IF ContentMismatch(f)
                 THEN Fails("ContentSizeMismatch", payload_size(block)) /\ UNCHANGED state
                 ELSE Progress(payload_size(block)) /\ state' = FrameHeaderState
  BY DEF process_block_payload
<1>2. InputInv /\ OpenFrame(frame)
  BY <1>1 DEF StreamInv, FrameInv
<1>3. PICK e, made : f = absorb_block_output(frame, e, made)
  BY <1>1
<1>4. /\ f = [open |-> f.open, header |-> f.header, window_size |-> f.window_size,
              frame_start |-> f.frame_start, frame_output_size |-> f.frame_output_size,
              hashed |-> f.hashed, entropy |-> f.entropy, origin |-> f.origin]
      /\ f.open = TRUE /\ f.header = frame.header
  <2>1. PICK h, w, s, c, x, y, g :
          frame = [open |-> TRUE, header |-> h, window_size |-> w, frame_start |-> s,
                   frame_output_size |-> c, hashed |-> x, entropy |-> y, origin |-> g]
    BY <1>2 DEF OpenFrame
  <2>2. PICK n, z : f = [frame EXCEPT !.frame_output_size = n, !.hashed = z, !.entropy = e]
    BY <1>3 DEF absorb_block_output
  <2>3. f = [open |-> TRUE, header |-> h, window_size |-> w, frame_start |-> s,
             frame_output_size |-> n, hashed |-> z, entropy |-> e, origin |-> g]
    BY <2>1, <2>2
  <2> QED BY <2>1, <2>3
<1>5. PICK q : q = PlacesOf(wire)[j]
  OBVIOUS
<1>6. /\ j \in 1..Len(wire) /\ EndOf(wire, j) = stream_input_pos + payload_size(block)
      /\ q.payload = 0 /\ q.checksum = frame.header.checksum
      /\ q.open = (~block.last_block \/ frame.header.checksum) /\ q.last = block.last_block
      /\ OneFrame(wire, k) => OneFrame(wire, j)
  BY <1>1, <1>5, PayloadAt
<1>7. payload_size(block) \in Nat /\ payload_size(block) <= Available
  BY <1>1, PayloadRead
<1>8. Progress(payload_size(block)) \/ \E x : Fails(x, payload_size(block))
  BY <1>1
<1>9. /\ PosInv' /\ stream_input_pos' = stream_input_pos + payload_size(block)
      /\ UNCHANGED <<options, wire, pushed>>
  BY <1>2, <1>7, <1>8, ProgressPos, FailsPos
<1>10. j \in 0..Len(wire) /\ j # 0
  BY <1>6
<1>11. options.single_frame => OneFrame(wire, j) /\ ~decoded_a_frame
  BY <1>1, <1>6 DEF At, Single
<1>12. CASE /\ ~block.last_block \/ f.header.checksum
            /\ frame' = f
            /\ state' = IF block.last_block THEN FrameChecksumState ELSE BlockHeaderState
            /\ Progress(payload_size(block))
            /\ UNCHANGED decoded_a_frame
  <2>1. /\ state'.tag = IF block.last_block THEN "FrameChecksum" ELSE "BlockHeader"
    BY <1>12 DEF FrameChecksumState, BlockHeaderState
  <2>2. frame'.open = TRUE /\ frame'.header = frame.header /\ q.open = TRUE
    BY <1>4, <1>6, <1>12
  <2>3. Stands(wire, j, state', frame', stream_input_pos')
    BY <1>5, <1>6, <1>9, <1>10, <2>1, <2>2 DEF Stands
  <2>4. options.single_frame => Single(wire, j, state', frame', decoded_a_frame')
    BY <1>10, <1>11, <1>12, <2>1 DEF Single
  <2>5. UNCHANGED failed
    BY <1>12 DEF Progress
  <2> QED BY <1>6, <1>9, <2>1, <2>3, <2>4, <2>5 DEF At
<1>13. CASE block.last_block /\ ~f.header.checksum /\ finish_frame(f)
  <2>1. frame' = [f EXCEPT !.open = FALSE]
        /\ decoded_a_frame' = (decoded_a_frame \/ ~ContentMismatch(f))
    BY <1>13 DEF finish_frame
  <2>2. frame'.open = FALSE
    BY <1>4, <2>1
  <2>3. CASE ContentMismatch(f)
    <3>1. Fails("ContentSizeMismatch", payload_size(block)) /\ UNCHANGED state
      BY <1>1, <1>13, <2>3
    <3>2. failed' = TRUE /\ UNCHANGED decoded_a_frame
      BY <2>1, <2>3, <3>1 DEF Fails
    <3> QED BY <1>6, <1>9, <2>1, <2>2, <2>3, <3>1, <3>2
  <2>4. CASE ~ContentMismatch(f)
    <3>1. Progress(payload_size(block)) /\ state' = FrameHeaderState
      BY <1>1, <1>13, <2>4
    <3>2. state'.tag = "FrameHeader" /\ decoded_a_frame' = TRUE
      BY <2>1, <2>4, <3>1 DEF FrameHeaderState
    <3>3. q.open = FALSE
      BY <1>4, <1>6, <1>13
    <3>4. Stands(wire, j, state', frame', stream_input_pos')
      BY <1>5, <1>6, <1>9, <1>10, <2>2, <3>2, <3>3 DEF Stands
    <3>5. options.single_frame => Single(wire, j, state', frame', decoded_a_frame')
      BY <1>10, <1>11, <2>2, <3>2 DEF Single
    <3>6. UNCHANGED failed
      BY <3>1 DEF Progress
    <3> QED BY <1>6, <1>9, <3>2, <3>4, <3>5, <3>6 DEF At
  <2> QED BY <2>3, <2>4
<1> QED BY <1>1, <1>12, <1>13

\* So does a checksum that agrees.
LEMMA ChecksumAt ==
  ASSUME StreamInv, PosInv, decoded_a_frame \in BOOLEAN, NEW k \in 0..Len(wire), At(k),
         process_frame_checksum
  PROVE  /\ PosInv' /\ UNCHANGED <<options, wire, pushed>>
         /\ k + 1 \in 1..Len(wire) /\ Unit = wire[k + 1] /\ wire[k + 1].kind = "checksum"
         /\ frame.open /\ stream_input_pos' = EndOf(wire, k + 1)
         /\ \/ At(k + 1)' /\ UNCHANGED failed /\ state'.tag = "FrameHeader"
            \/ failed' /\ UNCHANGED <<state, decoded_a_frame>>
<1>1. PICK e :
        /\ state.tag = "FrameChecksum" /\ ~Stalled /\ InputInv
        /\ IF e \in {"Ok", "ContentSizeMismatch"} THEN finish_frame(frame)
           ELSE UNCHANGED <<frame, decoded_a_frame>>
        /\ \/ e = "Ok" /\ Progress(CHECKSUM_SIZE) /\ state' = FrameHeaderState
           \/ e # "Ok" /\ Fails(e, CHECKSUM_SIZE) /\ UNCHANGED state
        /\ e = "Ok" => ~ContentMismatch(frame)
        /\ e = "ContentSizeMismatch" => ContentMismatch(frame)
  BY DEF process_frame_checksum, StreamInv
<1>2. /\ stream_input_pos = EndOf(wire, k) /\ frame.open /\ PlacesOf(wire)[k].last
      /\ PlacesOf(wire)[k].payload = 0 /\ frame.open = PlacesOf(wire)[k].open
      /\ PlacesOf(wire)[k].checksum = frame.header.checksum
  BY <1>1 DEF At, Stands
<1>3. /\ Available \in Nat /\ CHECKSUM_SIZE \in Nat /\ CHECKSUM_SIZE <= Available
      /\ Available # 0 /\ stream_input_pos \in Nat
  <2>1. Available \in Nat /\ ~(Available < CHECKSUM_SIZE) /\ stream_input_pos \in Nat
    BY <1>1, PosIs DEF Stalled
  <2> QED BY <2>1 DEF CHECKSUM_SIZE
<1>4. k + 1 \in 1..Len(wire) /\ Unit = wire[k + 1]
  BY <1>1, <1>2, <1>3, UnitAt
<1>5. PICK q, g, u : /\ q = PlacesOf(wire)[k] /\ g = PlacesOf(wire)[k + 1] /\ u = wire[k + 1]
                     /\ g = PlaceAfter(q, u) /\ Belongs(q, u) /\ IsUnit(u)
                     /\ EndOf(wire, k + 1) = EndOf(wire, k) + u.size
                     /\ q = [payload |-> q.payload, open |-> q.open,
                             checksum |-> q.checksum, last |-> q.last]
  BY <1>1, <1>4, NextUnit
<1>6. u.kind = "checksum" /\ u.size = CHECKSUM_SIZE
  <2>1. u.kind = "checksum"
    BY <1>2, <1>5 DEF Belongs
  <2> QED BY <1>5, <2>1 DEF IsUnit
<1>7. /\ PosInv' /\ stream_input_pos' = stream_input_pos + CHECKSUM_SIZE
      /\ UNCHANGED <<options, wire, pushed>>
  BY <1>1, <1>3, ProgressPos, FailsPos
<1>8. stream_input_pos' = EndOf(wire, k + 1)
  BY <1>2, <1>5, <1>6, <1>7
<1>9. CASE e = "Ok" /\ Progress(CHECKSUM_SIZE) /\ state' = FrameHeaderState
  <2>1. frame' = [frame EXCEPT !.open = FALSE] /\ decoded_a_frame' = TRUE
    BY <1>1, <1>9 DEF finish_frame
  <2>2. frame'.open = FALSE
    <3>1. OpenFrame(frame)
      BY <1>2 DEF StreamInv, FrameInv
    <3> QED BY <2>1, <3>1 DEF OpenFrame
  <2>3. state'.tag = "FrameHeader"
    BY <1>9 DEF FrameHeaderState
  <2>4. g = [q EXCEPT !.open = FALSE]
    BY <1>5, <1>6 DEF PlaceAfter
  <2>5. g.open = FALSE /\ g.payload = 0
    <3>1. g = [payload |-> q.payload, open |-> FALSE, checksum |-> q.checksum,
               last |-> q.last]
      BY <1>5, <2>4
    <3> QED BY <1>2, <1>5, <3>1
  <2>6. k + 1 \in 0..Len(wire) /\ k + 1 # 0
    BY <1>4
  <2>7. Stands(wire, k + 1, state', frame', stream_input_pos')
    BY <1>5, <1>8, <2>2, <2>3, <2>5, <2>6 DEF Stands
  <2>8. options.single_frame => Single(wire, k + 1, state', frame', decoded_a_frame')
    <3>1. ASSUME options.single_frame PROVE OneFrame(wire, k + 1)
      <4>1. OneFrame(wire, k)
        BY <3>1 DEF At, Single
      <4>2. \A i \in 2..(k + 1) : i \in 2..k \/ i = k + 1
        OBVIOUS
      <4>3. wire[k + 1].kind \in LateKinds
        BY <1>5, <1>6 DEF LateKinds
      <4> QED BY <4>1, <4>2, <4>3 DEF OneFrame
    <3> QED BY <2>1, <2>2, <2>3, <2>6, <3>1 DEF Single
  <2>9. UNCHANGED failed
    BY <1>9 DEF Progress
  <2> QED BY <1>2, <1>4, <1>5, <1>6, <1>7, <1>8, <2>3, <2>7, <2>8, <2>9 DEF At
<1>10. CASE e # "Ok" /\ Fails(e, CHECKSUM_SIZE) /\ UNCHANGED state
  <2>1. failed' = TRUE
    BY <1>10 DEF Fails
  <2>2. UNCHANGED decoded_a_frame
    BY <1>1, <1>10 DEF finish_frame
  <2> QED BY <1>2, <1>4, <1>5, <1>6, <1>7, <1>8, <1>10, <2>1, <2>2
<1> QED BY <1>1, <1>9, <1>10

\* A place in step with a decoded frame is its end.
LEMMA AtLength == StateInv /\ decoded_a_frame \in BOOLEAN /\ Placed => LengthInv
<1> SUFFICES ASSUME StateInv, decoded_a_frame \in BOOLEAN, NEW k \in 0..Len(wire), At(k)
             PROVE  LengthInv
  BY DEF Placed
<1>1. SUFFICES ASSUME options.single_frame, decoded_a_frame
               PROVE  /\ state.tag = "FrameHeader" /\ k \in 1..Len(wire)
                      /\ stream_input_pos = EndOf(wire, k) /\ OneFrame(wire, k)
                      /\ PlacesOf(wire)[k].payload = 0 /\ ~PlacesOf(wire)[k].open
  BY DEF LengthInv
<1>2. OneFrame(wire, k) /\ state.tag # "Skippable" /\ ~frame.open /\ k # 0
  BY <1>1 DEF At, Single
<1>3. state.tag = "FrameHeader"
  BY <1>2 DEF At, Stands, StateInv
<1> QED BY <1>2, <1>3 DEF At, Stands

\* So it is after a step.
LEMMA AtLengthNext == (StateInv /\ decoded_a_frame \in BOOLEAN /\ Placed => LengthInv)'
BY AtLength, PTL

\* A turn keeps all this.
LEMMA ProcessPlace ==
  ASSUME StreamInv, StateInv', PosInv, PlaceInv, LengthInv, CapInv, Process
  PROVE  PosInv' /\ PlaceInv' /\ LengthInv'
<1>1. InputInv /\ StateInv /\ decoded_a_frame \in BOOLEAN /\ call # "idle"
  BY DEF StreamInv, LengthInv, Process, process_stalled, process_frame_header_error,
     process_skippable_header, process_zstandard_header, process_skippable_frame,
     process_block_header, process_block_error, process_block_without_frame,
     process_block_payload, process_frame_checksum
<1>2. StateInv' /\ decoded_a_frame' \in BOOLEAN /\ Placed' => PlaceInv' /\ LengthInv'
  <2>1. StateInv' /\ decoded_a_frame' \in BOOLEAN /\ Placed' => LengthInv'
    BY AtLengthNext
  <2> QED BY <2>1 DEF PlaceInv
<1>3. failed => Available = 0
  BY <1>1 DEF CapInv
<1>4. ASSUME UNCHANGED <<stream_input_pos, options, wire, state, frame, decoded_a_frame>>
      PROVE  LengthInv' /\ (Placed => Placed') /\ (Retries' <=> Retries)
  <2>1. LengthInv'
    BY <1>4 DEF LengthInv
  <2>2. ASSUME NEW k, At(k) PROVE At(k)'
    BY <1>4, <2>2 DEF At
  <2> QED BY <1>4, <2>1, <2>2 DEF Placed, Retries
<1>5. CASE process_stalled
  <2>1. /\ UNCHANGED <<inputVars, callerVars, received_input, state, frame, decoded_a_frame>>
        /\ failed => failed'
    BY <1>5 DEF process_stalled, Returns, flags
  <2>2. PosInv' /\ UNCHANGED <<stream_input_pos, options, wire, pushed>>
    BY <2>1, StaysPos
  <2>3. LengthInv' /\ (Placed => Placed') /\ (Retries' <=> Retries)
    BY <1>4, <2>1, <2>2
  <2> QED BY <2>1, <2>2, <2>3 DEF PlaceInv
<1>6. CASE process_frame_header_error
  <2>1. /\ Fails(HeaderError, 0) /\ UNCHANGED <<state, frame, decoded_a_frame>>
        /\ state.tag = "FrameHeader"
    BY <1>6 DEF process_frame_header_error
  <2>2. 0 \in Nat /\ 0 <= Available /\ stream_input_pos \in Nat
    BY <1>1, PosIs
  <2>3. PosInv' /\ UNCHANGED <<stream_input_pos, options, wire, pushed>>
    <3>1. /\ PosInv' /\ stream_input_pos' = stream_input_pos + 0
          /\ UNCHANGED <<options, wire, pushed>>
      BY <1>1, <2>1, <2>2, FailsPos
    <3> QED BY <2>2, <3>1
  <2>4. LengthInv' /\ (Placed => Placed') /\ (Retries' <=> Retries)
    BY <1>4, <2>1, <2>3
  <2> QED BY <2>1, <2>3, <2>4 DEF PlaceInv, Retries, Fails
<1>7. CASE process_skippable_header
  <2>1. ~failed
    <3>1. state.tag = "FrameHeader" /\ ~Stalled
      BY <1>7 DEF process_skippable_header
    <3> QED BY <1>1, <1>3, <3>1, HeaderRead
  <2>2. PICK k \in 0..Len(wire) : At(k)
    BY <2>1 DEF PlaceInv, Placed
  <2>3. At(k)' /\ PosInv' /\ UNCHANGED <<options, wire, pushed>>
    BY <1>7, <2>2, SkippableHeaderAt
  <2>4. decoded_a_frame' = decoded_a_frame /\ Placed'
    BY <1>7, <2>2, <2>3 DEF process_skippable_header, Placed
  <2> QED BY <1>1, <1>2, <2>3, <2>4
<1>8. CASE process_zstandard_header
  <2>1. ~failed /\ state.tag = "FrameHeader"
    <3>1. state.tag = "FrameHeader" /\ ~Stalled
      BY <1>8 DEF process_zstandard_header
    <3> QED BY <1>1, <1>3, <3>1, HeaderRead
  <2>2. PICK k \in 0..Len(wire) : At(k)
    BY <2>1 DEF PlaceInv, Placed
  <2>3. /\ PosInv' /\ UNCHANGED <<options, wire, pushed, decoded_a_frame>>
        /\ k + 1 \in 1..Len(wire) /\ (options.single_frame => ~decoded_a_frame)
        /\ failed' \/ At(k + 1)'
    BY <1>8, <2>2, ZstandardHeaderAt
  <2>4. CASE At(k + 1)'
    <3>1. k + 1 \in 0..Len(wire')
      BY <2>3
    <3>2. Placed'
      BY <2>4, <3>1 DEF Placed
    <3> QED BY <1>1, <1>2, <2>3, <3>2
  <2>5. CASE failed' /\ ~At(k + 1)'
    <3>1. LengthInv'
      BY <1>1, <2>3 DEF LengthInv
    <3>2. ~Retries'
      <4>1. UNCHANGED state \/ state' = BlockHeaderState
        BY <1>8 DEF process_zstandard_header
      <4> QED BY <2>1, <4>1 DEF Retries, BlockHeaderState
    <3> QED BY <2>3, <2>5, <3>1, <3>2 DEF PlaceInv
  <2> QED BY <2>3, <2>4, <2>5
<1>9. CASE process_skippable_frame
  <2>1. state.tag = "Skippable"
    BY <1>9 DEF process_skippable_frame
  <2>2. CASE ~failed
    <3>1. PICK k \in 0..Len(wire) : At(k)
      BY <2>2 DEF PlaceInv, Placed
    <3>2. /\ PosInv' /\ UNCHANGED <<options, wire, decoded_a_frame>> /\ k + 1 \in 1..Len(wire)
          /\ \/ At(k)'
             \/ At(k + 1)'
             \/ k + 2 \in 1..Len(wire) /\ At(k + 2)'
      BY <1>9, <3>1, SkippableFrameAt
    <3>3. Placed'
      <4>1. k + 1 \in 0..Len(wire') /\ (k + 2 \in 1..Len(wire) => k + 2 \in 0..Len(wire'))
            /\ k \in 0..Len(wire')
        BY <3>2
      <4> QED BY <3>2, <4>1 DEF Placed
    <3> QED BY <1>1, <1>2, <3>2, <3>3
  <2>3. CASE failed
    <3>1. /\ state' = SkippableState(state.remaining - Least(Available, state.remaining))
             \/ state' = FrameHeaderState
          /\ UNCHANGED <<decoded_a_frame>>
          /\ Least(Available, state.remaining) = 0
      BY <1>1, <1>3, <1>9, <2>1, <2>3 DEF process_skippable_frame, StateInv, Least
    <3>2. /\ \/ Progress(0)
             \/ (\E e : Returns(e)) /\ UNCHANGED inputVars
          /\ failed => failed'
      BY <1>9, <3>1 DEF process_skippable_frame, Progress, Returns
    <3>3. 0 \in Nat /\ 0 <= Available
      BY <1>1, PosIs
    <3>4. PosInv' /\ UNCHANGED <<options, wire>>
      <4>1. CASE Progress(0)
        BY <1>1, <3>3, <4>1, ProgressPos
      <4>2. CASE (\E e : Returns(e)) /\ UNCHANGED inputVars
        <5>1. UNCHANGED <<inputVars, callerVars, received_input>>
          BY <4>2 DEF Returns, flags
        <5> QED BY <5>1, StaysPos
      <4> QED BY <3>2, <4>1, <4>2
    <3>5. LengthInv' /\ ~Retries'
      <4>1. state'.tag # "BlockPayload"
        BY <3>1 DEF SkippableState, FrameHeaderState
      <4> QED BY <1>1, <2>1, <3>1, <3>4, <4>1 DEF LengthInv, Retries
    <3> QED BY <2>3, <3>2, <3>4, <3>5 DEF PlaceInv
  <2> QED BY <2>2, <2>3
<1>10. CASE process_block_header
  <2>1. ~failed /\ state.tag = "BlockHeader"
    <3>1. state.tag = "BlockHeader" /\ ~(Available < BLOCK_HEADER_SIZE)
      BY <1>10 DEF process_block_header, Stalled
    <3>2. Available # 0
      BY <3>1 DEF BLOCK_HEADER_SIZE
    <3> QED BY <1>3, <3>1, <3>2
  <2>2. PICK k \in 0..Len(wire) : At(k)
    BY <2>1 DEF PlaceInv, Placed
  <2>3. /\ PosInv' /\ UNCHANGED <<options, wire, pushed, frame, decoded_a_frame>>
        /\ \/ At(k)'
           \/ Fails("Corruption", 0) /\ UNCHANGED <<state, stream_input_pos>>
    BY <1>10, <2>2, BlockHeaderAt
  <2>4. CASE At(k)'
    <3>1. Placed'
      BY <2>3, <2>4 DEF Placed
    <3> QED BY <1>1, <1>2, <2>3, <3>1
  <2>5. CASE Fails("Corruption", 0) /\ UNCHANGED <<state, stream_input_pos>>
    <3>1. LengthInv' /\ (Placed => Placed')
      BY <1>4, <2>3, <2>5
    <3> QED BY <2>2, <2>3, <3>1 DEF PlaceInv, Placed
  <2> QED BY <2>3, <2>4, <2>5
<1>11. CASE process_block_error \/ process_block_without_frame
  <2>1. PICK e : /\ state.tag = "BlockPayload" /\ ~Stalled /\ failed' = TRUE
                 /\ Fails(e, payload_size(state.header))
                 /\ UNCHANGED <<state, frame, decoded_a_frame>>
    BY <1>11 DEF process_block_error, process_block_without_frame, Fails
  <2>2. payload_size(state.header) \in Nat /\ payload_size(state.header) <= Available
    BY <2>1, PayloadRead
  <2>3. /\ PosInv' /\ stream_input_pos' = stream_input_pos + payload_size(state.header)
        /\ UNCHANGED <<options, wire, pushed>>
    BY <1>1, <2>1, <2>2, FailsPos
  <2>4. LengthInv'
    BY <1>1, <2>1, <2>3 DEF LengthInv
  <2>5. Retries' => Retries /\ UNCHANGED stream_input_pos
    <3>1. stream_input_pos \in Nat
      BY <1>1, PosIs
    <3> QED BY <2>1, <2>3, <3>1 DEF Retries
  <2>6. Retries' => Placed'
    BY <1>4, <2>1, <2>3, <2>5 DEF PlaceInv
  <2> QED BY <2>1, <2>3, <2>4, <2>6 DEF PlaceInv
<1>12. CASE process_block_payload
  <2>1. state.tag = "BlockPayload" /\ ~Stalled /\ frame.open
    BY <1>12 DEF process_block_payload
  <2>2. failed => Retries
    <3>1. payload_size(state.header) \in Nat /\ payload_size(state.header) <= Available
      BY <2>1, PayloadRead
    <3> QED BY <1>3, <2>1, <3>1 DEF Retries
  <2>3. PICK k \in 0..Len(wire) : At(k)
    BY <2>2 DEF PlaceInv, Placed
  <2>4. PICK j : j = PayloadEnd(wire, k)
    OBVIOUS
  <2>5. /\ PosInv' /\ UNCHANGED <<options, wire, pushed>>
        /\ j \in 1..Len(wire)
        /\ \/ At(j)' /\ UNCHANGED failed /\ state'.tag # "BlockPayload"
           \/ failed' /\ ~frame'.open /\ UNCHANGED <<state, decoded_a_frame>>
    BY <1>1, <1>12, <2>3, <2>4, PayloadLeads
  <2>6. decoded_a_frame' \in BOOLEAN
    BY <1>1, <1>12 DEF process_block_payload, finish_frame
  <2>7. CASE At(j)'
    <3>1. j \in 0..Len(wire')
      BY <2>5
    <3>2. Placed'
      BY <2>7, <3>1 DEF Placed
    <3> QED BY <1>2, <2>5, <2>6, <3>2
  <2>8. CASE failed' /\ ~frame'.open /\ UNCHANGED <<state, decoded_a_frame>>
    <3>1. ~(options.single_frame /\ decoded_a_frame)
      BY <2>1, <2>3 DEF At, Single
    <3> QED BY <1>1, <2>5, <2>8, <3>1 DEF PlaceInv, LengthInv, Retries
  <2> QED BY <2>5, <2>7, <2>8
<1>13. CASE process_frame_checksum
  <2>1. ~failed /\ state.tag = "FrameChecksum"
    <3>1. state.tag = "FrameChecksum" /\ ~(Available < CHECKSUM_SIZE)
      BY <1>13 DEF process_frame_checksum, Stalled
    <3>2. Available # 0
      BY <3>1 DEF CHECKSUM_SIZE
    <3> QED BY <1>3, <3>1, <3>2
  <2>2. PICK k \in 0..Len(wire) : At(k)
    BY <2>1 DEF PlaceInv, Placed
  <2>3. /\ PosInv' /\ UNCHANGED <<options, wire, pushed>> /\ k + 1 \in 1..Len(wire)
        /\ frame.open
        /\ \/ At(k + 1)'
           \/ failed' /\ UNCHANGED <<state, decoded_a_frame>>
    BY <1>1, <1>13, <2>2, ChecksumAt
  <2>4. CASE At(k + 1)'
    <3>1. k + 1 \in 0..Len(wire')
      BY <2>3
    <3>2. Placed'
      BY <2>4, <3>1 DEF Placed
    <3>3. decoded_a_frame' \in BOOLEAN
      BY <1>1, <1>13 DEF process_frame_checksum, finish_frame
    <3> QED BY <1>2, <2>3, <3>2, <3>3
  <2>5. CASE failed' /\ UNCHANGED <<state, decoded_a_frame>>
    <3>1. ~(options.single_frame /\ decoded_a_frame)
      BY <2>2, <2>3 DEF At, Single
    <3> QED BY <1>1, <2>1, <2>3, <2>5, <3>1 DEF PlaceInv, LengthInv, Retries
  <2> QED BY <2>3, <2>4, <2>5
<1> QED
  BY <1>5, <1>6, <1>7, <1>8, <1>9, <1>10, <1>11, <1>12, <1>13 DEF Process

\* A reset decoder stands at the beginning of its next stream.
LEMMA ResetAt ==
  ASSUME StreamInv, NEW w \in Again, reset(w)
  PROVE  PosInv' /\ At(0)' /\ wire' = w /\ 0 \in 0..Len(w) /\ decoded_a_frame' = FALSE
<1>1. /\ wire' = w /\ pushed' = 0 /\ input' = << >> /\ input_pos' = 0 /\ input_dropped' = 0
      /\ state' = FrameHeaderState /\ decoded_a_frame' = FALSE /\ received_input' = FALSE
      /\ UNCHANGED <<options, frame>> /\ ~frame.open
  BY DEF reset, finish_status
<1>2. w \in Seq(UnitsOf(options)) /\ (\A u \in UnitsOf(options) : IsUnit(u)) /\ Parsed(w)
  <2>1. w \in WiresOf(options) /\ options \in Configured
    BY DEF Again, WiresOf, StreamInv, InputInv
  <2> QED BY <2>1, SetupsAssumption DEF Configured
<1>3. PosInv' /\ stream_input_pos' = 0
  <2>1. Len(input') = 0 /\ 1..0 = {} /\ 0 + 0 = 0 /\ 0 \in Nat
    BY <1>1, NoneListed
  <2>2. pushed' = input_dropped' + Len(input') /\ input_dropped' \in Nat
    BY <1>1, <2>1
  <2>3. received_input' = (pushed' # 0)
    BY <1>1
  <2> QED BY <1>1, <2>1, <2>2, <2>3 DEF PosInv, stream_input_pos
<1>4. EndOf(w, 0) = 0 /\ PlacesOf(w)[0] = Outside /\ 0 \in 0..Len(w)
  BY <1>2, EndIs, PlaceIs
<1>5. frame.open \in BOOLEAN
  BY DEF StreamInv, FrameInv
<1>6. At(0)'
  <2>1. PlacesOf(w)[0].payload = 0 /\ PlacesOf(w)[0].open = FALSE
    BY <1>4 DEF Outside
  <2>2. state'.tag = "FrameHeader"
    BY <1>1 DEF FrameHeaderState
  <2>3. Stands(w, 0, state', frame', stream_input_pos')
    BY <1>1, <1>3, <1>4, <1>5, <2>1, <2>2 DEF Stands
  <2>4. Single(w, 0, state', frame', decoded_a_frame')
    <3>1. \A j \in 2..0 : FALSE
      OBVIOUS
    <3> QED BY <1>1, <2>2, <3>1 DEF Single, OneFrame
  <2> QED BY <1>1, <2>3, <2>4 DEF At
<1> QED BY <1>1, <1>3, <1>4, <1>6

\* So does every call.
LEMMA PlaceNext ==
  StreamInv /\ StateInv' /\ PosInv /\ PlaceInv /\ LengthInv /\ CapInv /\ [Next]_vars
    => PosInv' /\ PlaceInv' /\ LengthInv'
<1> SUFFICES ASSUME StreamInv, StateInv', PosInv, PlaceInv, LengthInv, CapInv, [Next]_vars
             PROVE  PosInv' /\ PlaceInv' /\ LengthInv'
  OBVIOUS
<1>1. InputInv /\ decoded_a_frame \in BOOLEAN
  BY DEF StreamInv, LengthInv
<1>2. ASSUME UNCHANGED <<stream_input_pos, options, wire, state, decoded_a_frame>>,
             frame'.open = frame.open, frame.open => frame'.header = frame.header,
             failed => failed'
      PROVE  LengthInv' /\ PlaceInv'
  <2>1. LengthInv'
    BY <1>2 DEF LengthInv
  <2>2. ASSUME NEW k, At(k) PROVE At(k)'
    <3>1. Stands(wire, k, state, frame', stream_input_pos)
      BY <1>2, <2>2 DEF At, Stands
    <3>2. options.single_frame => Single(wire, k, state, frame', decoded_a_frame)
      BY <1>2, <2>2 DEF At, Single
    <3> QED BY <1>2, <3>1, <3>2 DEF At
  <2>3. Placed => Placed'
    BY <1>2, <2>2 DEF Placed
  <2>4. Retries' => Retries
    BY <1>2 DEF Retries
  <2> QED BY <1>2, <2>1, <2>3, <2>4 DEF PlaceInv
<1>3. CASE Process
  BY <1>3, ProcessPlace
<1>4. CASE \E n \in PushSizes : push(n)
  <2>1. PICK n \in PushSizes : push(n)
    BY <1>4
  <2>2. PosInv' /\ UNCHANGED <<stream_input_pos, options, wire>>
    BY <1>1, <2>1, PushPos
  <2>3. UNCHANGED <<state, frame, decoded_a_frame, failed>>
    BY <2>1 DEF push
  <2> QED BY <1>2, <2>2, <2>3
<1>5. CASE finish
  <2>1. /\ UNCHANGED <<inputVars, callerVars, received_input, state, frame, decoded_a_frame>>
        /\ failed => failed'
    BY <1>5 DEF finish
  <2>2. PosInv' /\ UNCHANGED <<stream_input_pos, options, wire, pushed>>
    BY <2>1, StaysPos
  <2> QED BY <1>2, <2>1, <2>2
<1>6. CASE Drain
  <2>1. UNCHANGED <<inputVars, callerVars, received_input, state, decoded_a_frame, failed>>
    BY <1>6 DEF Drain, read, take_output, flags
  <2>2. PosInv' /\ UNCHANGED <<stream_input_pos, options, wire, pushed>>
    BY <2>1, StaysPos
  <2>3. frame'.open = frame.open /\ (frame.open => frame'.header = frame.header)
    <3>1. \/ frame' = frame
          \/ frame.open /\ \E s : frame' = [frame EXCEPT !.frame_start = s]
      BY <1>6 DEF Drain, read, take_output, Take
    <3>2. CASE frame.open /\ \E s : frame' = [frame EXCEPT !.frame_start = s]
      <4>1. OpenFrame(frame)
        BY <3>2 DEF StreamInv, FrameInv
      <4>2. PICK h, w, s, c, x, e, g :
              frame = [open |-> TRUE, header |-> h, window_size |-> w, frame_start |-> s,
                       frame_output_size |-> c, hashed |-> x, entropy |-> e, origin |-> g]
        BY <4>1 DEF OpenFrame
      <4>3. PICK t : frame' = [frame EXCEPT !.frame_start = t]
        BY <3>2
      <4>4. frame' = [open |-> TRUE, header |-> h, window_size |-> w, frame_start |-> t,
                      frame_output_size |-> c, hashed |-> x, entropy |-> e, origin |-> g]
        BY <4>2, <4>3
      <4> QED BY <4>2, <4>4
    <3> QED BY <3>1, <3>2
  <2> QED BY <1>2, <2>1, <2>2, <2>3
<1>7. CASE \E w \in Again : reset(w)
  <2>1. PICK w \in Again : reset(w)
    BY <1>7
  <2>2. PosInv' /\ At(0)' /\ wire' = w /\ 0 \in 0..Len(w) /\ decoded_a_frame' = FALSE
    BY <2>1, ResetAt
  <2>3. Placed'
    BY <2>2 DEF Placed
  <2> QED BY <2>2, <2>3 DEF PlaceInv, LengthInv
<1>8. CASE UNCHANGED vars
  <2>1. UNCHANGED <<inputVars, callerVars, received_input, state, frame, decoded_a_frame, failed>>
    BY <1>8 DEF vars, flags
  <2>2. PosInv' /\ UNCHANGED <<stream_input_pos, options, wire, pushed>>
    BY <2>1, StaysPos
  <2> QED BY <1>2, <2>1, <2>2
<1> QED BY <1>3, <1>4, <1>5, <1>6, <1>7, <1>8 DEF Next

\* Before its first push the decoder stands at the wire's beginning.
LEMMA InitAt ==
  ASSUME Init PROVE PosInv /\ At(0) /\ 0 \in 0..Len(wire) /\ decoded_a_frame = FALSE
<1>1. /\ pushed = 0 /\ input = << >> /\ input_pos = 0 /\ input_dropped = 0
      /\ state = FrameHeaderState /\ frame = NoFrame
      /\ received_input = FALSE /\ decoded_a_frame = FALSE
  BY DEF Init
<1>2. PosInv /\ stream_input_pos = 0
  <2>1. Len(input) = 0 /\ 1..0 = {} /\ 0 + 0 = 0 /\ 0 \in Nat
    BY <1>1, NoneListed
  <2>2. pushed = input_dropped + Len(input) /\ input_dropped \in Nat
    BY <1>1, <2>1
  <2>3. received_input = (pushed # 0)
    BY <1>1
  <2> QED BY <1>1, <2>1, <2>2, <2>3 DEF PosInv, stream_input_pos
<1>3. InputInv
  BY StreamInit DEF StreamInv
<1>4. EndOf(wire, 0) = 0 /\ PlacesOf(wire)[0] = Outside /\ 0 \in 0..Len(wire)
  BY <1>3, WireIs, EndIs, PlaceIs
<1>5. PlacesOf(wire)[0].payload = 0 /\ PlacesOf(wire)[0].open = FALSE
  BY <1>4 DEF Outside
<1>6. state.tag = "FrameHeader" /\ frame.open = FALSE
  BY <1>1 DEF FrameHeaderState, NoFrame
<1>7. Stands(wire, 0, state, frame, stream_input_pos)
  BY <1>2, <1>4, <1>5, <1>6 DEF Stands
<1>8. Single(wire, 0, state, frame, decoded_a_frame)
  <2>1. \A j \in 2..0 : FALSE
    OBVIOUS
  <2> QED BY <1>1, <1>6, <2>1 DEF Single, OneFrame
<1> QED BY <1>1, <1>2, <1>4, <1>7, <1>8 DEF At

\* So it is in its place.
LEMMA PlaceInit == Init => PosInv /\ PlaceInv /\ LengthInv
BY InitAt DEF PlaceInv, Placed, LengthInv

\* The unit a frame ends with is where LengthInv says.
LEMMA FrameEndIs ==
  ASSUME InputInv, NEW k \in 1..Len(wire), OneFrame(wire, k),
         PlacesOf(wire)[k].payload = 0, ~PlacesOf(wire)[k].open
  PROVE  FrameEnd(wire) = k
<1>1. PICK n \in Nat : n = Len(wire) /\ DOMAIN wire = 1..n
  BY WireIs
<1> DEFINE EndsAt(j) == /\ \A i \in 2..j : wire[i].kind \in LateKinds
                        /\ j = n \/ wire[j + 1].kind \notin LateKinds
<1>2. EndsAt(k) /\ k \in 1..n
  <2>1. ASSUME k # n PROVE wire[k + 1].kind \notin LateKinds
    <3>1. k \in 0..Len(wire) /\ k + 1 \in 1..Len(wire)
      BY <1>1, <2>1
    <3>2. Belongs(PlacesOf(wire)[k], wire[k + 1])
      BY <3>1, NextUnit
    <3> QED BY <3>2 DEF Belongs, LateKinds
  <2> QED BY <1>1, <2>1 DEF OneFrame
<1>3. ASSUME NEW j \in 1..n, EndsAt(j) PROVE j = k
  <2>1. CASE j < k
    <3>1. j + 1 \in 2..k /\ j # n
      BY <1>2, <2>1
    <3> QED BY <1>2, <1>3, <3>1
  <2>2. CASE k < j
    <3>1. k + 1 \in 2..j /\ k # n
      BY <1>2, <2>2
    <3> QED BY <1>2, <1>3, <3>1
  <2> QED BY <1>2, <2>1, <2>2
<1>4. FrameEnd(wire) = CHOOSE j \in 1..n : EndsAt(j)
  BY Zenon, <1>1 DEF FrameEnd, LateKinds
<1> HIDE DEF EndsAt
<1> QED BY <1>2, <1>3, <1>4

\* What a decoder of one frame reports to have consumed is its frame, and what it holds is
\* what was pushed behind it (input_consumed, unconsumed_input); and the cap holds.
THEOREM AccountsAreExact == Spec => []AccountsExact
<1>1. StreamInv /\ PosInv /\ LengthInv => FrameLengthExact
  <2> SUFFICES ASSUME StreamInv, PosInv, LengthInv, options.single_frame, decoded_a_frame
               PROVE  /\ stream_input_pos = EndOf(wire, FrameEnd(wire))
                      /\ Available = pushed - EndOf(wire, FrameEnd(wire))
    BY DEF FrameLengthExact
  <2>1. PICK k \in 1..Len(wire) :
          /\ stream_input_pos = EndOf(wire, k) /\ OneFrame(wire, k)
          /\ PlacesOf(wire)[k].payload = 0 /\ ~PlacesOf(wire)[k].open
    BY DEF LengthInv
  <2>2. FrameEnd(wire) = k
    BY <2>1, FrameEndIs DEF StreamInv
  <2>3. /\ stream_input_pos \in Nat /\ Available \in Nat
        /\ stream_input_pos + Available = pushed
    BY PosIs DEF StreamInv
  <2> QED BY <2>1, <2>2, <2>3
<1>2. StreamInv' => StateInv'
  BY DEF StreamInv
<1>3. Spec => [](StreamInv /\ CapInv)
  BY StreamInit, CapInit, StreamNext, CapNext, PTL DEF Spec
<1>4. Spec => [](PosInv /\ LengthInv)
  BY <1>2, <1>3, PlaceInit, PlaceNext, PTL DEF Spec
<1> QED BY <1>1, <1>3, <1>4, OutputIsCapped, PTL DEF AccountsExact
=============================================================================
