--------------------------- MODULE CarriedStateProofs ---------------------------
(***************************************************************************)
(* What a block hands on to the next is the same at both ends.             *)
(*                                                                         *)
(* The repeat offsets: their copies agree for every set of distances and   *)
(* every starting history, hence for every frame of any length.            *)
(*                                                                         *)
(* Through the blocks too: however they are planned, and cut into pieces,  *)
(* the decoder recovers the planned distances, as long as only a block's   *)
(* last piece is stored raw.  A plan has a history along it (Along), the   *)
(* one its values were made with; each routine that steps a history, over  *)
(* a piece of the plan, goes along the same one.                           *)
(*                                                                         *)
(* The entropy tables: every block of every frame is read with the tables  *)
(* it was coded with, for any alphabets, any dictionary and any number of  *)
(* blocks.  The encoder and the decoder keep their tables in different     *)
(* ways; what connects them is that whenever the encoder may repeat a      *)
(* table, the one at the address it carries is the one the decoder would   *)
(* decode with next (EndsAgree).  It stays so because no table is built at *)
(* an address that is carried (BuildSpares), which is what strong_count is *)
(* consulted for.                                                          *)
(*                                                                         *)
(* The optimal parser's statistics: no price wraps, however long the frame *)
(* and wherever its counts came from, in a word wide enough for one block. *)
(* Scaling brings a sum back to its target before each block, so what has  *)
(* to fit is a target and what the bytes of a block can add to it (Room).  *)
(***************************************************************************)
EXTENDS RepcodeLockstep, BlockSplit, CarriedTables, PriceModel,
        FiniteSetTheorems, SequenceTheorems, WellFoundedInduction, TLAPS

\* One value crosses correctly: from the same valid history, the executor
\* recovers the distance, and all three copies step to the same valid history.
LEMMA OneTransfer ==
  ASSUME NEW a \in Nat \ {0}, NEW b \in Nat \ {0}, NEW c \in Nat \ {0},
         NEW raw \in Nat \ {0}, NEW ll0 \in BOOLEAN
  PROVE  LET e == encode_offset_value_and_update(<<a, b, c>>, raw, ll0)
             d == execute_offset(<<a, b, c>>, ll0, e.value)
         IN  /\ e.reps \in Triples
             /\ d.offset = raw
             /\ d.reps = e.reps
             /\ advance_rep_state(<<a, b, c>>, e.value, ll0) = e.reps
<1> DEFINE r == <<a, b, c>>
<1>1. CASE ~ll0 /\ raw = a
  BY <1>1 DEF encode_offset_value_and_update, execute_offset, advance_rep_state, Triples
<1>2. CASE raw = b /\ ~(~ll0 /\ raw = a)
  BY <1>2 DEF encode_offset_value_and_update, execute_offset, resolve_rep_offset_decode,
              advance_rep_state, Promote, Triples
<1>3. CASE raw = c /\ raw # b /\ ~(~ll0 /\ raw = a)
  BY <1>3 DEF encode_offset_value_and_update, execute_offset, resolve_rep_offset_decode,
              advance_rep_state, Promote, Triples
<1>4. CASE ll0 /\ a > 1 /\ raw = a - 1 /\ raw # c /\ raw # b
  BY <1>4 DEF encode_offset_value_and_update, execute_offset, resolve_rep_offset_decode,
              advance_rep_state, OneLess, Triples
<1>5. CASE ~(~ll0 /\ raw = a) /\ raw # b /\ raw # c /\ ~(ll0 /\ a > 1 /\ raw = a - 1)
  BY <1>5 DEF encode_offset_value_and_update, execute_offset, advance_rep_state, Triples
<1> QED BY <1>1, <1>2, <1>3, <1>4, <1>5

\* Both ends agree now and step together.
RepcodeInv == TypeOK /\ RepsInStep

\* Encoder, executor and planner agree on every distance and every history of
\* every frame, whatever matches the encoder finds.
THEOREM RepcodesInStep == Spec => [](TypeOK /\ RepsInStep)
<1>1. Init => RepcodeInv
  BY RepeatOffsetsAssumption DEF Init, RepcodeInv, TypeOK, RepsInStep, Triples
<1>2. RepcodeInv /\ [Next]_vars => RepcodeInv'
  <2> SUFFICES ASSUME RepcodeInv, [Next]_vars PROVE RepcodeInv'
    OBVIOUS
  <2>1. ASSUME NEW raw \in Distances, NEW ll0 \in BOOLEAN, Transfer(raw, ll0)
        PROVE  RepcodeInv'
    <3>1. PICK a \in Nat \ {0}, b \in Nat \ {0}, c \in Nat \ {0} : encoder = <<a, b, c>>
      BY DEF RepcodeInv, TypeOK, Triples
    <3>2. raw \in Nat \ {0}
      BY RepeatOffsetsAssumption
    <3> DEFINE e == encode_offset_value_and_update(<<a, b, c>>, raw, ll0)
               d == execute_offset(<<a, b, c>>, ll0, e.value)
    <3>3. /\ e.reps \in Triples /\ d.offset = raw /\ d.reps = e.reps
          /\ advance_rep_state(<<a, b, c>>, e.value, ll0) = e.reps
      <4> HIDE DEF e, d
      <4>1. \A y \in Nat \ {0} :
              LET x == encode_offset_value_and_update(<<a, b, c>>, y, ll0)
                  z == execute_offset(<<a, b, c>>, ll0, x.value)
              IN  /\ x.reps \in Triples /\ z.offset = y /\ z.reps = x.reps
                  /\ advance_rep_state(<<a, b, c>>, x.value, ll0) = x.reps
        BY OneTransfer
      <4> QED BY <3>2, <4>1 DEF e, d
    <3>4. /\ encoder' = e.reps /\ decoder' = d.reps /\ sent' = raw /\ received' = d.offset
          /\ planner' = advance_rep_state(<<a, b, c>>, e.value, ll0)
      BY <2>1, <3>1 DEF Transfer, RepcodeInv, RepsInStep
    <3> HIDE DEF e, d
    <3> QED BY <3>2, <3>3, <3>4 DEF RepcodeInv, TypeOK, RepsInStep
  <2>2. CASE UNCHANGED vars
    BY <2>2 DEF vars, RepcodeInv, TypeOK, RepsInStep
  <2> QED BY <2>1, <2>2 DEF Next
<1> QED BY <1>1, <1>2, PTL DEF Spec, RepcodeInv

-----------------------------------------------------------------------------
\* The blocks of a frame, whole and cut.

\* A nonempty set of naturals has a least member.
LEMMA LeastOf ==
  ASSUME NEW S \in SUBSET Nat, S # {}
  PROVE  \E n \in S : \A m \in S : n <= m
<1>1. PICK n \in S : \A m \in S : ~(<<m, n>> \in OpToRel(<, Nat))
  BY Zenon, NatLessThanWellFounded, WFMin
<1>2. \A m \in S : ~(m < n)
  BY <1>1 DEF OpToRel
<1> QED BY <1>2

\* What the planner makes of a match.
Planned == [raw : Nat \ {0}, ll_zero : BOOLEAN, value : Nat]

\* h is the history along seqs: each sequence was given its value, and stepped the
\* history, by encode_offset_value_and_update.
Along(h, seqs) ==
  /\ seqs \in Seq(Planned) /\ h \in [0..Len(seqs) -> Triples]
  /\ \A i \in 1..Len(seqs) :
       encode_offset_value_and_update(h[i - 1], seqs[i].raw, seqs[i].ll_zero)
         = [value |-> seqs[i].value, reps |-> h[i]]

\* What a value of a plan does to each of the routines that step a history.
LEMMA OneStep ==
  ASSUME NEW r \in Triples, NEW t, NEW s \in Planned,
         encode_offset_value_and_update(r, s.raw, s.ll_zero) = [value |-> s.value, reps |-> t]
  PROVE  /\ execute_offset(r, s.ll_zero, s.value) = [offset |-> s.raw, reps |-> t]
         /\ resolve_values(r, s.ll_zero, s.value) = [offset |-> s.raw, reps |-> t]
<1>1. PICK a \in Nat \ {0}, b \in Nat \ {0}, c \in Nat \ {0} : r = <<a, b, c>>
  BY DEF Triples
<1>2. PICK raw \in Nat \ {0} : raw = s.raw
  BY DEF Planned
<1>3. PICK ll0 \in BOOLEAN : ll0 = s.ll_zero
  BY DEF Planned
<1>4. PICK v : v = s.value
  OBVIOUS
<1>5. encode_offset_value_and_update(<<a, b, c>>, raw, ll0) = [value |-> v, reps |-> t]
  BY <1>1, <1>2, <1>3, <1>4
<1> HIDE <1>1
<1>6. /\ execute_offset(<<a, b, c>>, ll0, v) = [offset |-> raw, reps |-> t]
      /\ resolve_values(<<a, b, c>>, ll0, v) = [offset |-> raw, reps |-> t]
  <2>1. CASE ~ll0 /\ raw = a
    BY <1>5, <2>1 DEF encode_offset_value_and_update, execute_offset, resolve_values, Promote
  <2>2. CASE raw = b /\ ~(~ll0 /\ raw = a)
    BY <1>5, <2>2 DEF encode_offset_value_and_update, execute_offset, resolve_rep_offset_decode,
                      resolve_values, Promote
  <2>3. CASE raw = c /\ raw # b /\ ~(~ll0 /\ raw = a)
    BY <1>5, <2>3 DEF encode_offset_value_and_update, execute_offset, resolve_rep_offset_decode,
                      resolve_values, Promote
  <2>4. CASE ll0 /\ a > 1 /\ raw = a - 1 /\ raw # c /\ raw # b
    BY <1>5, <2>4 DEF encode_offset_value_and_update, execute_offset, resolve_rep_offset_decode,
                      resolve_values, Promote
  <2>5. CASE ~(~ll0 /\ raw = a) /\ raw # b /\ raw # c /\ ~(ll0 /\ a > 1 /\ raw = a - 1)
    BY <1>5, <2>5 DEF encode_offset_value_and_update, execute_offset, resolve_values
  <2> QED BY <2>1, <2>2, <2>3, <2>4, <2>5
<1> QED BY <1>1, <1>2, <1>3, <1>4, <1>6

\* The decoder that starts where the plan did recovers the distances it was made of and
\* ends with its history.
LEMMA DecodesAlong ==
  ASSUME NEW h, NEW seqs, Along(h, seqs)
  PROVE  Decode(h[0], seqs) = [reps |-> h[Len(seqs)], offsets |-> Meant(seqs)]
<1>1. PICK n \in Nat : n = Len(seqs) /\ DOMAIN seqs = 1..n
  BY DEF Along
<1>2. ASSUME NEW i \in 1..n
      PROVE  /\ execute_offset(h[i - 1], seqs[i].ll_zero, seqs[i].value)
                  = [offset |-> seqs[i].raw, reps |-> h[i]]
             /\ seqs[i].raw \in Nat \ {0}
  <2>1. PICK s \in Planned : s = seqs[i]
    BY <1>1 DEF Along
  <2>2. PICK r \in Triples : r = h[i - 1]
    <3>1. i - 1 \in 0..n
      BY <1>1
    <3> QED BY <1>1, <3>1 DEF Along
  <2>3. encode_offset_value_and_update(r, s.raw, s.ll_zero) = [value |-> s.value, reps |-> h[i]]
    BY <1>1, <2>1, <2>2 DEF Along
  <2>4. execute_offset(r, s.ll_zero, s.value) = [offset |-> s.raw, reps |-> h[i]]
    BY <2>3, OneStep
  <2>5. s.raw \in Nat \ {0}
    BY DEF Planned
  <2> QED BY <2>1, <2>2, <2>4, <2>5
<1> DEFINE Runs(f) == f = [i \in 0..n |->
             IF i = 0 THEN [offset |-> BadOffset, reps |-> h[0]]
             ELSE execute_offset(f[i - 1].reps, seqs[i].ll_zero, seqs[i].value)]
           made == [i \in 0..n |->
             IF i = 0 THEN [offset |-> BadOffset, reps |-> h[0]]
             ELSE [offset |-> seqs[i].raw, reps |-> h[i]]]
<1>3. /\ made[0] = [offset |-> BadOffset, reps |-> h[0]]
      /\ \A i \in 1..n : made[i] = [offset |-> seqs[i].raw, reps |-> h[i]]
  <2>1. 0 \in 0..n /\ \A i \in 1..n : i \in 0..n /\ i # 0
    BY <1>1
  <2> QED BY <2>1
<1>4. \A i \in 0..n : made[i].reps = h[i]
  <2>1. \A i \in 0..n : i = 0 \/ i \in 1..n
    BY <1>1
  <2> HIDE DEF made
  <2>2. made[0].reps = h[0]
    BY <1>3
  <2>3. ASSUME NEW i \in 1..n PROVE made[i].reps = h[i]
    <3>1. made[i] = [offset |-> seqs[i].raw, reps |-> h[i]]
      BY <1>3, <2>3
    <3> QED BY <3>1
  <2> QED BY <2>1, <2>2, <2>3
<1>5. ASSUME NEW i \in 1..n
      PROVE  made[i] = execute_offset(made[i - 1].reps, seqs[i].ll_zero, seqs[i].value)
  <2>1. i - 1 \in 0..n
    BY <1>1
  <2>2. made[i - 1].reps = h[i - 1]
    BY <1>4, <2>1
  <2> QED BY <1>2, <1>3, <2>2
<1>6. Runs(made)
  <2>1. made = [i \in 0..n |-> made[i]]
    OBVIOUS
  <2> HIDE DEF made
  <2>2. \A i \in 0..n : i = 0 \/ (i # 0 /\ i \in 1..n)
    BY <1>1
  <2>3. [i \in 0..n |-> made[i]]
          = [i \in 0..n |-> IF i = 0 THEN [offset |-> BadOffset, reps |-> h[0]]
                            ELSE execute_offset(made[i - 1].reps, seqs[i].ll_zero, seqs[i].value)]
    BY <1>3, <1>5, <2>2
  <2> QED BY <2>1, <2>3
<1>7. ASSUME NEW f, Runs(f) PROVE \A i \in 0..n : f[i] = made[i]
  <2> DEFINE Bad == {i \in 0..n : f[i] # made[i]}
  <2>1. SUFFICES ASSUME Bad # {} PROVE FALSE
    OBVIOUS
  <2>2. PICK i \in Bad : \A j \in Bad : i <= j
    <3>1. Bad \in SUBSET Nat
      OBVIOUS
    <3> HIDE DEF Bad
    <3> QED BY <2>1, <3>1, LeastOf
  <2>3. i \in 1..n
    <3>1. f[0] = made[0]
      BY <1>1, <1>7
    <3> QED BY <1>1, <2>2, <3>1
  <2>4. f[i - 1] = made[i - 1]
    BY <1>1, <2>2, <2>3
  <2>5. f[i] = execute_offset(f[i - 1].reps, seqs[i].ll_zero, seqs[i].value)
    BY <1>1, <1>7, <2>3
  <2> QED BY <1>5, <2>2, <2>3, <2>4, <2>5
<1> HIDE DEF made
<1>8. PICK run : run = CHOOSE f : Runs(f)
  OBVIOUS
<1>9. Runs(run)
  BY Zenon, <1>6, <1>8
<1>10. \A i \in 0..n : run[i] = made[i]
  BY Zenon, <1>7, <1>9
<1>11. Decode(h[0], seqs)
         = [reps |-> run[n].reps, offsets |-> [i \in DOMAIN seqs |-> run[i].offset]]
  BY <1>1, <1>8 DEF Decode
<1>12. run[n].reps = h[n]
  BY <1>1, <1>4, <1>10
<1>13. \A i \in 1..n : run[i].offset = seqs[i].raw
  <2> SUFFICES ASSUME NEW i \in 1..n PROVE run[i].offset = seqs[i].raw
    OBVIOUS
  <2>1. i \in 0..n
    BY <1>1
  <2>2. run[i] = [offset |-> seqs[i].raw, reps |-> h[i]]
    BY <1>3, <1>10, <2>1
  <2> QED BY <2>2
<1>14. [i \in DOMAIN seqs |-> run[i].offset] = Meant(seqs)
  BY <1>1, <1>13 DEF Meant
<1> QED BY <1>1, <1>11, <1>12, <1>14

\* And so does the encoder that resolves its values; none fails.
LEMMA ResolvesAlong ==
  ASSUME NEW h, NEW seqs, Along(h, seqs)
  PROVE  ResolveAll(h[0], seqs) = [reps |-> h[Len(seqs)], ok |-> TRUE]
<1>1. PICK n \in Nat : n = Len(seqs) /\ DOMAIN seqs = 1..n
  BY DEF Along
<1>2. ASSUME NEW i \in 1..n
      PROVE  /\ resolve_values(h[i - 1], seqs[i].ll_zero, seqs[i].value)
                  = [offset |-> seqs[i].raw, reps |-> h[i]]
             /\ seqs[i].raw \in Nat \ {0}
  <2>1. PICK s \in Planned : s = seqs[i]
    BY <1>1 DEF Along
  <2>2. PICK r \in Triples : r = h[i - 1]
    <3>1. i - 1 \in 0..n
      BY <1>1
    <3> QED BY <1>1, <3>1 DEF Along
  <2>3. encode_offset_value_and_update(r, s.raw, s.ll_zero) = [value |-> s.value, reps |-> h[i]]
    BY <1>1, <2>1, <2>2 DEF Along
  <2>4. resolve_values(r, s.ll_zero, s.value) = [offset |-> s.raw, reps |-> h[i]]
    BY <2>3, OneStep
  <2>5. s.raw \in Nat \ {0}
    BY DEF Planned
  <2> QED BY <2>1, <2>2, <2>4, <2>5
<1> DEFINE Runs(f) == f = [i \in 0..n |->
             IF i = 0 THEN [offset |-> BadOffset, reps |-> h[0]]
             ELSE resolve_values(f[i - 1].reps, seqs[i].ll_zero, seqs[i].value)]
           made == [i \in 0..n |->
             IF i = 0 THEN [offset |-> BadOffset, reps |-> h[0]]
             ELSE [offset |-> seqs[i].raw, reps |-> h[i]]]
<1>3. /\ made[0] = [offset |-> BadOffset, reps |-> h[0]]
      /\ \A i \in 1..n : made[i] = [offset |-> seqs[i].raw, reps |-> h[i]]
  <2>1. 0 \in 0..n /\ \A i \in 1..n : i \in 0..n /\ i # 0
    BY <1>1
  <2> QED BY <2>1
<1>4. \A i \in 0..n : made[i].reps = h[i]
  <2>1. \A i \in 0..n : i = 0 \/ i \in 1..n
    BY <1>1
  <2> HIDE DEF made
  <2>2. made[0].reps = h[0]
    BY <1>3
  <2>3. ASSUME NEW i \in 1..n PROVE made[i].reps = h[i]
    <3>1. made[i] = [offset |-> seqs[i].raw, reps |-> h[i]]
      BY <1>3, <2>3
    <3> QED BY <3>1
  <2> QED BY <2>1, <2>2, <2>3
<1>5. ASSUME NEW i \in 1..n
      PROVE  made[i] = resolve_values(made[i - 1].reps, seqs[i].ll_zero, seqs[i].value)
  <2>1. i - 1 \in 0..n
    BY <1>1
  <2>2. made[i - 1].reps = h[i - 1]
    BY <1>4, <2>1
  <2> QED BY <1>2, <1>3, <2>2
<1>6. Runs(made)
  <2>1. made = [i \in 0..n |-> made[i]]
    OBVIOUS
  <2> HIDE DEF made
  <2>2. \A i \in 0..n : i = 0 \/ (i # 0 /\ i \in 1..n)
    BY <1>1
  <2>3. [i \in 0..n |-> made[i]]
          = [i \in 0..n |-> IF i = 0 THEN [offset |-> BadOffset, reps |-> h[0]]
                            ELSE resolve_values(made[i - 1].reps, seqs[i].ll_zero, seqs[i].value)]
    BY <1>3, <1>5, <2>2
  <2> QED BY <2>1, <2>3
<1>7. ASSUME NEW f, Runs(f) PROVE \A i \in 0..n : f[i] = made[i]
  <2> DEFINE Bad == {i \in 0..n : f[i] # made[i]}
  <2>1. SUFFICES ASSUME Bad # {} PROVE FALSE
    OBVIOUS
  <2>2. PICK i \in Bad : \A j \in Bad : i <= j
    <3>1. Bad \in SUBSET Nat
      OBVIOUS
    <3> HIDE DEF Bad
    <3> QED BY <2>1, <3>1, LeastOf
  <2>3. i \in 1..n
    <3>1. f[0] = made[0]
      BY <1>1, <1>7
    <3> QED BY <1>1, <2>2, <3>1
  <2>4. f[i - 1] = made[i - 1]
    BY <1>1, <2>2, <2>3
  <2>5. f[i] = resolve_values(f[i - 1].reps, seqs[i].ll_zero, seqs[i].value)
    BY <1>1, <1>7, <2>3
  <2> QED BY <1>5, <2>2, <2>3, <2>4, <2>5
<1> HIDE DEF made
<1>8. PICK run : run = CHOOSE f : Runs(f)
  OBVIOUS
<1>9. Runs(run)
  BY Zenon, <1>6, <1>8
<1>10. \A i \in 0..n : run[i] = made[i]
  BY Zenon, <1>7, <1>9
<1>11. ResolveAll(h[0], seqs)
         = [reps |-> run[n].reps, ok |-> \A i \in DOMAIN seqs : run[i].offset # BadOffset]
  BY <1>1, <1>8 DEF ResolveAll
<1>12. run[n].reps = h[n]
  BY <1>1, <1>4, <1>10
<1>13. \A i \in 1..n : run[i].offset = seqs[i].raw
  <2> SUFFICES ASSUME NEW i \in 1..n PROVE run[i].offset = seqs[i].raw
    OBVIOUS
  <2>1. i \in 0..n
    BY <1>1
  <2>2. run[i] = [offset |-> seqs[i].raw, reps |-> h[i]]
    BY <1>3, <1>10, <2>1
  <2> QED BY <2>2
<1>14. \A i \in DOMAIN seqs : run[i].offset # BadOffset
  BY <1>1, <1>2, <1>13 DEF BadOffset
<1> QED BY <1>1, <1>11, <1>12, <1>14

\* Every history is one along an empty plan.
LEMMA AlongNone ==
  ASSUME NEW r \in Triples
  PROVE  Along([i \in 0..0 |-> r], << >>)
BY DEF Along

\* A plan that grows by a match takes its history along.
LEMMA AlongMore ==
  ASSUME NEW h, NEW seqs, Along(h, seqs), NEW raw \in Nat \ {0}, NEW ll0 \in BOOLEAN
  PROVE  LET e == encode_offset_value_and_update(h[Len(seqs)], raw, ll0)
         IN  \E g : /\ Along(g, Append(seqs, [raw |-> raw, ll_zero |-> ll0, value |-> e.value]))
                    /\ g[0] = h[0] /\ g[Len(seqs) + 1] = e.reps
<1>1. PICK n \in Nat : n = Len(seqs)
  BY DEF Along
<1>2. PICK a \in Nat \ {0}, b \in Nat \ {0}, c \in Nat \ {0} : h[n] = <<a, b, c>>
  <2>1. h[n] \in Triples
    BY <1>1 DEF Along
  <2> QED BY <2>1 DEF Triples
<1>3. PICK e : e = encode_offset_value_and_update(h[n], raw, ll0)
  OBVIOUS
<1>4. e.reps \in Triples
  BY <1>2, <1>3, OneTransfer
<1>5. e = [value |-> e.value, reps |-> e.reps] /\ e.value \in Nat
  BY <1>2, <1>3 DEF encode_offset_value_and_update
<1>6. PICK s \in Planned : s = [raw |-> raw, ll_zero |-> ll0, value |-> e.value]
  BY <1>5 DEF Planned
<1>7. PICK t : t = Append(seqs, s)
  OBVIOUS
<1>8. t \in Seq(Planned) /\ Len(t) = n + 1 /\ t[n + 1] = s /\ \A i \in 1..n : t[i] = seqs[i]
  BY <1>1, <1>7 DEF Along
<1>9. PICK g : g = [i \in 0..(n + 1) |-> IF i = n + 1 THEN e.reps ELSE h[i]]
  OBVIOUS
<1>10. g[n + 1] = e.reps /\ \A i \in 0..n : g[i] = h[i] /\ h[i] \in Triples
  BY <1>1, <1>9 DEF Along
<1>11. g \in [0..(n + 1) -> Triples]
  <2>1. \A i \in 0..(n + 1) : i = n + 1 \/ i \in 0..n
    OBVIOUS
  <2> QED BY <1>4, <1>9, <1>10, <2>1
<1>12. ASSUME NEW i \in 1..(n + 1)
       PROVE  encode_offset_value_and_update(g[i - 1], t[i].raw, t[i].ll_zero)
                = [value |-> t[i].value, reps |-> g[i]]
  <2>1. CASE i = n + 1
    <3>1. g[i - 1] = h[n] /\ g[i] = e.reps
      <4>1. i - 1 = n /\ n \in 0..n
        BY <2>1
      <4> QED BY <1>10, <2>1, <4>1
    <3>2. t[i].raw = raw /\ t[i].ll_zero = ll0 /\ t[i].value = e.value
      BY <1>6, <1>8, <2>1
    <3> QED BY <1>3, <1>5, <3>1, <3>2
  <2>2. CASE i \in 1..n
    <3>1. i - 1 \in 0..n /\ i \in 0..n
      BY <2>2
    <3>2. g[i - 1] = h[i - 1] /\ g[i] = h[i]
      BY <1>10, <3>1
    <3>3. t[i] = seqs[i]
      BY <1>8, <2>2
    <3> QED BY <1>1, <2>2, <3>2, <3>3 DEF Along
  <2> QED BY <2>1, <2>2
<1>13. Along(g, t)
  BY <1>8, <1>11, <1>12 DEF Along
<1>14. g[0] = h[0]
  BY <1>10
<1> QED BY <1>1, <1>3, <1>6, <1>7, <1>10, <1>13, <1>14

\* What is cut from seqs behind the first lo, up to the hi-th.
CutFrom(piece, seqs, lo, hi) ==
  lo \in Nat /\ hi \in Nat /\ lo <= hi /\ hi <= Len(seqs) /\ piece = SubSeq(seqs, lo + 1, hi)

\* A piece of a plan has its piece of the history.
LEMMA AlongPart ==
  ASSUME NEW h, NEW seqs, Along(h, seqs), NEW piece, NEW lo, NEW hi, CutFrom(piece, seqs, lo, hi)
  PROVE  \E g : Along(g, piece) /\ g[0] = h[lo] /\ g[Len(piece)] = h[hi]
<1>0. lo \in Nat /\ hi \in Nat /\ lo <= hi /\ hi <= Len(seqs) /\ piece = SubSeq(seqs, lo + 1, hi)
  BY DEF CutFrom
<1>1. PICK n \in Nat : n = Len(seqs)
  BY DEF Along
<1>2. PICK k \in Nat : k = hi - lo /\ lo + k = hi
  <2>1. hi - lo \in Nat /\ lo + (hi - lo) = hi
    BY <1>0
  <2> QED BY <2>1
<1>3. PICK t : t = piece /\ t = SubSeq(seqs, lo + 1, hi)
  BY <1>0
<1>4. /\ t \in Seq(Planned) /\ Len(t) = k
      /\ \A i \in 1..k : t[i] = seqs[lo + i]
  <2>1. seqs \in Seq(Planned)
    BY DEF Along
  <2>2. PICK m \in Nat : m = lo + 1 /\ m \in 1..Len(seqs) + 1 /\ hi \in m - 1..Len(seqs)
                         /\ hi - m + 1 = k
    <3>1. PICK m \in Nat : m = lo + 1
      BY <1>0
    <3>2. m \in 1..n + 1 /\ hi \in m - 1..n /\ hi - m + 1 = k
      BY <1>0, <1>1, <1>2, <3>1
    <3> QED BY <1>1, <3>1, <3>2
  <2>3. t = SubSeq(seqs, m, hi)
    BY <1>3, <2>2
  <2>4. t \in Seq(Planned) /\ Len(t) = k /\ \A i \in 1..k : t[i] = seqs[m + i - 1]
    <3>1. m \in Int /\ hi \in Int /\ (IF m <= hi THEN hi - m + 1 ELSE 0) = k
      BY <1>0, <2>2
    <3>2. \A i \in m..hi : seqs[i] \in Planned
      BY <2>1, <2>2
    <3>3. /\ SubSeq(seqs, m, hi) \in Seq(Planned)
          /\ Len(SubSeq(seqs, m, hi)) = IF m <= hi THEN hi - m + 1 ELSE 0
          /\ \A i \in 1..hi - m + 1 : SubSeq(seqs, m, hi)[i] = seqs[m + i - 1]
      BY <3>1, <3>2, SubSeqProperties
    <3> QED BY <2>2, <2>3, <3>1, <3>3
  <2>5. \A i \in 1..k : m + i - 1 = lo + i
    BY <1>0, <2>2
  <2> QED BY <2>4, <2>5
<1>5. PICK g : g = [i \in 0..k |-> h[lo + i]]
  OBVIOUS
<1>6. \A i \in 0..k : g[i] = h[lo + i] /\ lo + i \in 0..n
  BY <1>0, <1>1, <1>2, <1>5
<1>7. g \in [0..k -> Triples]
  <2>1. \A i \in 0..k : h[lo + i] \in Triples
    BY <1>1, <1>6 DEF Along
  <2> QED BY <1>5, <2>1
<1>8. ASSUME NEW i \in 1..k
      PROVE  encode_offset_value_and_update(g[i - 1], t[i].raw, t[i].ll_zero)
               = [value |-> t[i].value, reps |-> g[i]]
  <2>1. PICK j \in 1..n : j = lo + i
    <3>1. lo + i \in 1..n
      BY <1>0, <1>1, <1>2
    <3> QED BY <3>1
  <2>2. g[i - 1] = h[j - 1]
    <3>1. i - 1 \in 0..k /\ lo + (i - 1) = j - 1
      BY <1>0, <1>2, <2>1
    <3> QED BY <1>6, <3>1
  <2>3. g[i] = h[j]
    <3>1. i \in 0..k
      BY <1>2
    <3> QED BY <1>6, <2>1, <3>1
  <2>4. t[i] = seqs[j]
    BY <1>4, <2>1
  <2> QED BY <1>1, <2>1, <2>2, <2>3, <2>4 DEF Along
<1>9. Along(g, t)
  BY <1>4, <1>7, <1>8 DEF Along
<1>10. g[0] = h[lo] /\ g[k] = h[hi]
  <2>1. lo + 0 = lo /\ 0 \in 0..k /\ k \in 0..k
    BY <1>0, <1>2
  <2> QED BY <1>2, <1>6, <2>1
<1> QED BY <1>3, <1>4, <1>9, <1>10

\* 1 .. n, in order.
InOrder(n) == [i \in 1..n |-> i]

\* Between blocks the histories are one and the last chunk was written in order.  While a
\* split block is written they are still one, where the plan's history is at that cut;
\* what was written of the chunk ends there; and only its last piece may have been raw.
BlocksInv ==
  /\ phase \in {"plan", "split"} /\ ~misread
  /\ repeat_offsets \in Triples
  /\ \E h : /\ Along(h, plan) /\ h[0] = repeat_offsets /\ h[Len(plan)] = plan_reps
            /\ phase = "split" /\ part < Len(split_points) => history = h[split_points[part]]
  /\ phase = "plan" =>
       /\ history = repeat_offsets
       /\ plan # << >> => emitted = << >>
       /\ \E n \in Nat : emitted = InOrder(n)
  /\ phase = "split" =>
       /\ split_points \in Partitions(Len(plan)) /\ part \in 1..Len(split_points)
       /\ decoder_reps = history /\ history \in Triples
       /\ part > 1 => any_compressed
       /\ part < Len(split_points) => ~prev_was_uncompressed
       /\ emitted = InOrder(split_points[part])

\* The first block begins in step.
LEMMA BlocksBegin == FrameInit => BlocksInv
<1> SUFFICES ASSUME FrameInit PROVE BlocksInv
  OBVIOUS
<1>1. /\ phase = "plan" /\ ~misread /\ repeat_offsets = DefaultReps /\ plan = << >>
      /\ plan_reps = DefaultReps /\ history = DefaultReps /\ emitted = << >>
  BY DEF FrameInit
<1>2. DefaultReps \in Triples
  BY DEF DefaultReps, Triples
<1>3. Along([i \in 0..0 |-> DefaultReps], << >>)
  BY <1>2, AlongNone
<1>4. InOrder(0) = << >>
  BY DEF InOrder
<1>5. \E h : Along(h, plan) /\ h[0] = repeat_offsets /\ h[Len(plan)] = plan_reps
  <2>1. PICK h : h = [i \in 0..0 |-> DefaultReps]
    OBVIOUS
  <2>2. h[0] = DefaultReps /\ Len(<< >>) = 0
    BY <2>1
  <2> QED BY <1>1, <1>3, <2>1, <2>2
<1> QED BY <1>1, <1>2, <1>4, <1>5 DEF BlocksInv

\* A block that is done with leaves the next one in step.
LEMMA BlocksGoOn ==
  ASSUME NEW reps \in Triples, NextBlock(reps), history' = reps, ~misread',
         NEW n \in Nat, emitted' = InOrder(n)
  PROVE  BlocksInv'
<1>1. phase' = "plan" /\ repeat_offsets' = reps /\ plan' = << >> /\ plan_reps' = reps
  BY DEF NextBlock
<1>2. Along([i \in 0..0 |-> reps], << >>)
  BY AlongNone
<1>3. \E h : Along(h, plan') /\ h[0] = repeat_offsets' /\ h[Len(plan')] = plan_reps'
  <2>1. PICK h : h = [i \in 0..0 |-> reps]
    OBVIOUS
  <2>2. h[0] = reps /\ Len(<< >>) = 0
    BY <2>1
  <2> QED BY <1>1, <1>2, <2>1, <2>2
<1> QED BY <1>1, <1>3 DEF BlocksInv

\* The planner adds a match.
LEMMA PlanKeeps ==
  ASSUME BlocksInv, NEW raw \in PlanDistances, NEW ll0 \in BOOLEAN, plan_sequence(raw, ll0)
  PROVE  BlocksInv'
<1>1. raw \in Nat \ {0}
  BY BlockSplitAssumption
<1>2. PICK h : Along(h, plan) /\ h[0] = repeat_offsets /\ h[Len(plan)] = plan_reps
  BY DEF BlocksInv
<1>3. PICK e : e = encode_offset_value_and_update(plan_reps, raw, ll0)
  OBVIOUS
<1>4. /\ plan' = Append(plan, [raw |-> raw, ll_zero |-> ll0, value |-> e.value])
      /\ plan_reps' = e.reps /\ emitted' = << >> /\ phase = "plan"
      /\ UNCHANGED <<phase, repeat_offsets, history, misread>>
  BY <1>3 DEF plan_sequence
<1>5. PICK g : Along(g, plan') /\ g[0] = h[0] /\ g[Len(plan) + 1] = plan_reps'
  <2>1. \E g : /\ Along(g, Append(plan, [raw |-> raw, ll_zero |-> ll0, value |-> e.value]))
               /\ g[0] = h[0] /\ g[Len(plan) + 1] = e.reps
    BY <1>1, <1>2, <1>3, AlongMore
  <2> QED BY <1>4, <2>1
<1>6. Len(plan') = Len(plan) + 1
  BY <1>2, <1>4 DEF Along
<1>7. \E f : Along(f, plan') /\ f[0] = repeat_offsets' /\ f[Len(plan')] = plan_reps'
  BY <1>2, <1>4, <1>5, <1>6
<1>8. << >> = InOrder(0)
  BY DEF InOrder
<1> QED BY <1>4, <1>7, <1>8 DEF BlocksInv

\* A block written whole is read as it was planned, or leaves no trace.
LEMMA WholeKeeps ==
  ASSUME BlocksInv, NEW wins \in BOOLEAN, encode_whole_block(wins)
  PROVE  BlocksInv'
<1>1. PICK h : Along(h, plan) /\ h[0] = repeat_offsets /\ h[Len(plan)] = plan_reps
  BY DEF BlocksInv
<1>2. Decode(history, plan) = [reps |-> plan_reps, offsets |-> Meant(plan)]
  <2>1. history = h[0]
    BY <1>1 DEF BlocksInv, encode_whole_block
  <2> QED BY <1>1, <2>1, DecodesAlong
<1>3. Len(plan) \in Nat /\ emitted' = InOrder(Len(plan))
  BY <1>1 DEF encode_whole_block, InOrder, Along
<1>4. plan_reps \in Triples /\ repeat_offsets \in Triples
  BY <1>1 DEF Along, BlocksInv
<1>5. CASE wins
  <2>1. /\ history' = Decode(history, plan).reps /\ NextBlock(plan_reps)
        /\ misread' = (misread \/ Decode(history, plan).offsets # Meant(plan))
    BY Zenon, <1>5 DEF encode_whole_block
  <2>2. Decode(history, plan).reps = plan_reps /\ Decode(history, plan).offsets = Meant(plan)
    BY <1>2
  <2>3. history' = plan_reps /\ ~misread'
    BY Zenon, <2>1, <2>2 DEF BlocksInv
  <2> QED BY <1>3, <1>4, <2>1, <2>3, BlocksGoOn
<1>6. CASE ~wins
  <2>1. history' = repeat_offsets /\ ~misread' /\ NextBlock(repeat_offsets)
    BY <1>6 DEF encode_whole_block, BlocksInv
  <2> QED BY <1>3, <1>4, <2>1, BlocksGoOn
<1> QED BY <1>5, <1>6

\* Where a cut falls.
LEMMA CutsAre ==
  ASSUME NEW n \in Nat, NEW points \in Partitions(n)
  PROVE  /\ points \in Seq(0..n) /\ Len(points) \in Nat /\ Len(points) > 2
         /\ points[1] = 0 /\ points[Len(points)] = n
         /\ \A i \in 1..Len(points) : points[i] \in 0..n
         /\ \A i \in 1..(Len(points) - 1) : points[i] < points[i + 1]
<1>1. PICK k \in 3..(n + 1) : points \in [1..k -> 0..n]
  BY DEF Partitions
<1>2. points \in Seq(0..n) /\ Len(points) = k
  BY <1>1
<1>3. points[1] = 0 /\ points[Len(points)] = n
  BY DEF Partitions
<1>4. \A i \in 1..(Len(points) - 1) : points[i] < points[i + 1]
  BY DEF Partitions
<1> QED BY <1>1, <1>2, <1>3, <1>4

\* A split begins where the plan does.
LEMMA SplitKeeps ==
  ASSUME BlocksInv, NEW points \in Partitions(Len(plan)), begin_split(points)
  PROVE  BlocksInv'
<1>1. PICK h : Along(h, plan) /\ h[0] = repeat_offsets /\ h[Len(plan)] = plan_reps
  BY DEF BlocksInv
<1>2. /\ phase = "plan" /\ phase' = "split" /\ split_points' = points /\ part' = 1
      /\ decoder_reps' = repeat_offsets /\ ~prev_was_uncompressed' /\ Len(plan) >= 2
      /\ UNCHANGED <<repeat_offsets, plan, plan_reps, history, emitted, misread>>
  BY DEF begin_split
<1>3. Len(plan) \in Nat
  BY <1>1 DEF Along
<1>4. points[1] = 0 /\ Len(points) \in Nat /\ Len(points) > 2
  BY <1>3, CutsAre
<1>5. plan # << >> /\ history = repeat_offsets /\ emitted = << >>
  BY <1>2 DEF BlocksInv
<1>6. emitted = InOrder(0)
  BY <1>5 DEF InOrder
<1>7. \E f : /\ Along(f, plan') /\ f[0] = repeat_offsets' /\ f[Len(plan')] = plan_reps'
             /\ history' = f[split_points'[part']]
  BY <1>1, <1>2, <1>4, <1>5
<1>8. Len(plan') = Len(plan) /\ split_points' \in Partitions(Len(plan'))
  BY <1>2
<1>9. part' \in 1..Len(split_points')
  BY <1>2, <1>4
<1>10. emitted' = InOrder(split_points'[part'])
  BY <1>2, <1>4, <1>6
<1>11. /\ ~misread' /\ repeat_offsets' \in Triples /\ decoder_reps' = history'
       /\ history' \in Triples /\ ~(part' > 1)
  BY <1>2, <1>5 DEF BlocksInv
<1> QED BY <1>2, <1>7, <1>8, <1>9, <1>10, <1>11 DEF BlocksInv

\* One piece, written next, ends where the next cut is.
LEMMA PieceInOrder ==
  ASSUME NEW a \in Nat, NEW b \in Nat, a <= b
  PROVE  InOrder(a) \o [i \in 1..(b - (a + 1) + 1) |-> (a + 1) + i - 1] = InOrder(b)
<1>1. PICK k \in Nat : k = b - (a + 1) + 1 /\ a + k = b
  <2>1. b - a \in Nat
    OBVIOUS
  <2> QED BY <2>1
<1>2. PICK s : s = [i \in 1..k |-> (a + 1) + i - 1]
  OBVIOUS
<1>3. s \in Seq(Int) /\ Len(s) = k /\ \A i \in 1..k : s[i] = a + i
  BY <1>2
<1>4. InOrder(a) \in Seq(Int) /\ Len(InOrder(a)) = a /\ \A i \in 1..a : InOrder(a)[i] = i
  BY DEF InOrder
<1>5. PICK u, t : u = InOrder(a) /\ t = u \o s
  OBVIOUS
<1>6. t \in Seq(Int) /\ Len(t) = b
  <2>1. u \in Seq(Int) /\ s \in Seq(Int) /\ Len(u) = a /\ Len(s) = k
    BY <1>3, <1>4, <1>5
  <2>2. u \o s \in Seq(Int) /\ Len(u \o s) = Len(u) + Len(s)
    BY <2>1, ConcatProperties
  <2> QED BY <1>1, <1>5, <2>1, <2>2
<1>7. ASSUME NEW i \in 1..b PROVE t[i] = i
  <2>1. CASE i <= a
    BY <1>3, <1>4, <1>5, <2>1
  <2>2. CASE i > a
    <3>1. PICK j \in 1..k : j = i - a
      <4>1. i - a \in 1..k
        BY <1>1, <2>2
      <4> QED BY <4>1
    <3>2. t[i] = s[j]
      <4>1. u \in Seq(Int) /\ s \in Seq(Int) /\ Len(u) = a /\ Len(s) = k /\ i \in 1..(a + k)
        BY <1>1, <1>3, <1>4, <1>5
      <4>2. (u \o s)[i] = IF i <= a THEN u[i] ELSE s[i - a]
        BY <4>1, ConcatProperties
      <4> QED BY <1>5, <2>2, <3>1, <4>2
    <3> QED BY <1>3, <3>1, <3>2
  <2> QED BY <2>1, <2>2
<1>8. InOrder(b) \in Seq(Int) /\ Len(InOrder(b)) = b /\ \A i \in 1..b : InOrder(b)[i] = i
  BY DEF InOrder
<1>9. t = InOrder(b)
  BY <1>6, <1>7, <1>8
<1> QED BY <1>1, <1>2, <1>5, <1>9

\* A piece leaves the histories one, and where the plan's is at the next cut unless it
\* is the last and was stored raw.
LEMMA PieceKeeps ==
  ASSUME BlocksInv, Fallback # "any", NEW wins \in BOOLEAN, encode_subblock(wins)
  PROVE  BlocksInv'
<1>1. phase = "split" /\ part < Len(split_points) /\ (~wins => MayFallBack)
  BY DEF encode_subblock
<1>2. PICK h : /\ Along(h, plan) /\ h[0] = repeat_offsets /\ h[Len(plan)] = plan_reps
               /\ history = h[split_points[part]]
  BY <1>1 DEF BlocksInv
<1>3. PICK n \in Nat : n = Len(plan) /\ split_points \in Partitions(n)
  BY <1>1, <1>2 DEF Along, BlocksInv
<1>4. /\ part \in Nat /\ part >= 1 /\ Len(split_points) \in Nat /\ part + 1 \in 1..Len(split_points)
  BY <1>1, <1>3, CutsAre DEF BlocksInv
<1>5. PICK a \in Nat, b \in Nat : a = split_points[part] /\ b = split_points[part + 1]
                                  /\ a < b /\ b <= n
  <2>1. part \in 1..Len(split_points) /\ part \in 1..(Len(split_points) - 1)
    BY <1>1, <1>4
  <2> QED BY SMTT(30), <1>3, <1>4, <2>1, CutsAre
<1>6. PICK taken : taken = SubSeq(plan, a + 1, b)
  OBVIOUS
<1>7. PICK g : Along(g, taken) /\ g[0] = history /\ g[Len(taken)] = h[b]
  <2>1. a <= b /\ b <= Len(plan)
    BY <1>3, <1>5
  <2>2. \E g : Along(g, taken) /\ g[0] = h[a] /\ g[Len(taken)] = h[b]
    <3>1. CutFrom(taken, plan, a, b)
      BY <1>5, <1>6, <2>1 DEF CutFrom
    <3> QED BY <1>2, <3>1, AlongPart
  <2> QED BY <1>2, <1>5, <2>2
<1>8. /\ decoder_reps = history /\ ~prev_was_uncompressed /\ emitted = InOrder(a)
      /\ ~misread /\ repeat_offsets \in Triples
  BY <1>1, <1>5 DEF BlocksInv
<1>9. ResolveAll(decoder_reps, taken) = [reps |-> h[b], ok |-> TRUE]
  BY <1>7, <1>8, ResolvesAlong
<1>10. Decode(history, taken) = [reps |-> h[b], offsets |-> Meant(taken)]
  BY <1>7, DecodesAlong
<1>11. /\ phase' = "split" /\ split_points' = split_points /\ part' = part + 1
       /\ emitted' = emitted \o [i \in 1..(b - (a + 1) + 1) |-> (a + 1) + i - 1]
       /\ prev_was_uncompressed' = ~wins /\ any_compressed' = (any_compressed \/ wins)
       /\ IF wins
          THEN decoder_reps' = h[b] /\ history' = h[b] /\ ~misread'
          ELSE decoder_reps' = decoder_reps /\ history' = history /\ misread' = misread
       /\ UNCHANGED <<repeat_offsets, plan, plan_reps>>
  <2> DEFINE r    == [seqs |-> taken, compressor |-> compressor_reps, decoder |-> decoder_reps]
             next == ResolveAll(decoder_reps, taken)
             d    == Decode(history, taken)
  <2>1. r.seqs = taken /\ r.decoder = decoder_reps /\ r.compressor = compressor_reps
    OBVIOUS
  <2>2. /\ UNCHANGED <<repeat_offsets, plan, plan_reps>>
        /\ next.ok => /\ phase' = phase /\ split_points' = split_points /\ part' = part + 1
                      /\ emitted' = emitted \o [i \in 1..(b - (a + 1) + 1) |-> (a + 1) + i - 1]
                      /\ prev_was_uncompressed' = ~wins
                      /\ any_compressed' = (any_compressed \/ wins)
                      /\ wins => /\ decoder_reps' = next.reps /\ history' = d.reps
                                 /\ misread' = (misread \/ d.offsets # Meant(taken))
                      /\ ~wins => /\ decoder_reps' = decoder_reps
                                  /\ UNCHANGED <<history, misread>>
    BY <1>5, <1>6, <1>8, <2>1 DEF encode_subblock
  <2>3. next.ok /\ next.reps = h[b] /\ d.reps = h[b] /\ d.offsets = Meant(taken)
    BY <1>9, <1>10
  <2> HIDE DEF next, d
  <2> QED BY <1>1, <1>8, <2>2, <2>3
<1>12. emitted' = InOrder(split_points'[part'])
  <2>1. InOrder(a) \o [i \in 1..(b - (a + 1) + 1) |-> (a + 1) + i - 1] = InOrder(b)
    <3>1. a <= b
      BY <1>5
    <3> QED BY Zenon, <1>5, <3>1, PieceInOrder
  <2>2. split_points'[part'] = b
    BY <1>5, <1>11
  <2> QED BY <1>8, <1>11, <2>1, <2>2
<1>13. ~misread' /\ repeat_offsets' \in Triples /\ decoder_reps' = history' /\ history' \in Triples
  <2>1. h[b] \in Triples
    BY <1>2, <1>3, <1>5 DEF Along
  <2>2. history \in Triples
    BY <1>1 DEF BlocksInv
  <2> QED BY <1>8, <1>11, <2>1, <2>2
<1>14. ~wins => any_compressed /\ part' = Len(split_points')
  <2>1. ~wins => any_compressed /\ part = Len(split_points) - 1
    BY <1>1 DEF MayFallBack
  <2> QED BY <1>4, <1>11, <2>1
<1>15. any_compressed' /\ part' \in 1..Len(split_points')
  BY <1>4, <1>11, <1>14
<1>16. part' < Len(split_points') => ~prev_was_uncompressed' /\ history' = h[split_points'[part']]
  <2> SUFFICES ASSUME part' < Len(split_points')
               PROVE  ~prev_was_uncompressed' /\ history' = h[split_points'[part']]
    OBVIOUS
  <2>1. wins
    BY <1>4, <1>11, <1>14
  <2>2. split_points'[part'] = b
    BY <1>5, <1>11
  <2> QED BY <1>11, <2>1, <2>2
<1>17. \E f : /\ Along(f, plan') /\ f[0] = repeat_offsets' /\ f[Len(plan')] = plan_reps'
              /\ part' < Len(split_points') => history' = f[split_points'[part']]
  BY <1>2, <1>11, <1>16
<1>18. split_points' \in Partitions(Len(plan'))
  BY <1>3, <1>11
<1> QED BY <1>11, <1>12, <1>13, <1>15, <1>16, <1>17, <1>18 DEF BlocksInv

\* A block whose pieces are all written is done with.
LEMMA EndKeeps ==
  ASSUME BlocksInv, end_split
  PROVE  BlocksInv'
<1>1. phase = "split" /\ part = Len(split_points) /\ UNCHANGED <<history, misread>>
  BY DEF end_split
<1>2. PICK n \in Nat : n = Len(plan) /\ split_points \in Partitions(n)
  BY <1>1 DEF BlocksInv, Along
<1>3. Len(split_points) \in Nat /\ Len(split_points) > 2 /\ split_points[Len(split_points)] = n
  BY <1>2, CutsAre
<1>4. any_compressed /\ decoder_reps = history /\ history \in Triples /\ emitted = InOrder(n)
  BY <1>1, <1>3 DEF BlocksInv
<1>5. NextBlock(decoder_reps) /\ emitted' = emitted
  BY <1>4 DEF end_split
<1>6. ~misread' /\ history' = decoder_reps /\ decoder_reps \in Triples /\ emitted' = InOrder(n)
  BY <1>1, <1>4, <1>5 DEF BlocksInv
<1> QED BY <1>5, <1>6, BlocksGoOn

\* BlocksInv is kept by every step.
LEMMA BlocksStep == ASSUME Fallback # "any" PROVE BlocksInv /\ [FrameNext]_frameVars => BlocksInv'
<1> SUFFICES ASSUME BlocksInv, [FrameNext]_frameVars PROVE BlocksInv'
  OBVIOUS
<1>1. CASE UNCHANGED frameVars
  BY <1>1 DEF BlocksInv, frameVars
<1> QED BY <1>1, PlanKeeps, WholeKeeps, SplitKeeps, PieceKeeps, EndKeeps DEF FrameNext

\* BlocksInv holds throughout, as long as no piece but the last of a block is stored raw
\* after another compressed (encode_split_subblocks).
LEMMA BlocksInvariance == ASSUME Fallback # "any" PROVE FrameSpec => []BlocksInv
<1> QED BY BlocksBegin, BlocksStep, PTL DEF FrameSpec

\* However blocks are planned and cut, as long as no piece but the last of a block is stored
\* raw: every sequence of every block decodes to the distance the match finder meant.  Where
\* other pieces are stored raw it is not so (the run split_distances).
THEOREM DistancesAreRecovered ==
  ASSUME Fallback # "any"
  PROVE  FrameSpec => []DistancesRecovered
<1>1. BlocksInv => DistancesRecovered
  BY DEF BlocksInv, DistancesRecovered
<1> QED BY <1>1, BlocksInvariance, PTL

\* Under the same hypothesis the encoder never panics, both ends agree between blocks, and
\* every chunk is written once and in order.
THEOREM BlocksAreInStep ==
  ASSUME Fallback # "any"
  PROVE  FrameSpec => []BlocksInStep
<1>1. BlocksInv => BlocksInStep
  <2> SUFFICES ASSUME BlocksInv PROVE BlocksInStep
    OBVIOUS
  <2>1. ASSUME phase = "plan" PROVE \A i \in 1..Len(emitted) : emitted[i] = i
    <3>1. PICK n \in Nat : emitted = InOrder(n)
      BY <2>1 DEF BlocksInv
    <3>2. Len(InOrder(n)) = n /\ \A i \in 1..n : InOrder(n)[i] = i
      BY DEF InOrder
    <3> QED BY <3>1, <3>2
  <2> QED BY <2>1 DEF BlocksInv, BlocksInStep
<1> QED BY <1>1, BlocksInvariance, PTL

-----------------------------------------------------------------------------
\* The entropy tables.

\* The table the decoder repeats: the form it decodes with, or what that form will be
\* made from.
DecoderTable == IF tables.dirty THEN tables.slot ELSE tables.seq

\* A table the encoder may repeat is the decoder's.
EndsAgree ==
  sequence_tables.repeat_mode # "None" =>
    /\ sequence_tables.table \in Addresses \cup {InDictionary}
    /\ heap[sequence_tables.table] = DecoderTable
    /\ DecoderTable # NoTable /\ tables.has

CarriedTypeOK ==
  /\ pool \in [1..2 -> Addresses \cup {Nowhere}]
  /\ heap = [a \in Addresses \cup {InDictionary} |-> heap[a]]
  /\ sequence_tables = [table |-> sequence_tables.table, repeat_mode |-> sequence_tables.repeat_mode]
  /\ sequence_tables.table \in Addresses \cup {InDictionary, Nowhere}
  /\ tables = [slot |-> tables.slot, seq |-> tables.seq, has |-> tables.has, dirty |-> tables.dirty]
  /\ tables.dirty \in BOOLEAN /\ tables.has \in BOOLEAN
  /\ tried \in Nat

CarriedInv ==
  /\ CarriedTypeOK
  /\ EndsAgree
  /\ literals_state = huffman_table
  /\ TablesInStep

-----------------------------------------------------------------------------
\* The pool.

\* A lowest member is one.
LEMMA LowestIsMember ==
  ASSUME NEW S \in SUBSET (1..4), S # {}
  PROVE  Lowest(S) \in S
<1>1. \E i \in S : \A j \in S : i <= j
  <2>1. CASE 1 \in S
    BY <2>1
  <2>2. CASE 1 \notin S /\ 2 \in S
    BY <2>2
  <2>3. CASE 1 \notin S /\ 2 \notin S /\ 3 \in S
    BY <2>3
  <2>4. CASE 1 \notin S /\ 2 \notin S /\ 3 \notin S
    <3>1. \A i \in S : i \in 1..4 /\ i # 1 /\ i # 2 /\ i # 3
      BY <2>4
    <3>2. \A i \in S : i = 4
      BY <3>1
    <3>3. PICK i \in S : TRUE
      OBVIOUS
    <3>4. \A j \in S : i <= j
      BY <3>2
    <3> QED BY <3>4
  <2> QED BY <2>1, <2>2, <2>3, <2>4
<1> QED BY <1>1 DEF Lowest

\* How strong_count counts: nothing for an address nobody holds, and more than one for
\* an address that a slot holds and the encoder carries.
LEMMA StrongCount ==
  ASSUME CarriedTypeOK, NEW a
  PROVE  /\ strong_count(a) = 0 =>
              (\A i \in 1..2 : pool[i] # a) /\ sequence_tables.table # a
         /\ (\A i \in 1..2 : pool[i] # a) /\ sequence_tables.table # a => strong_count(a) = 0
         /\ \A i \in 1..2 : pool[i] = a /\ strong_count(a) = 1 => sequence_tables.table # a
<1> DEFINE held == {i \in 1..2 : pool[i] = a}
<1>1. IsFiniteSet(held) /\ Cardinality(held) \in Nat /\ (Cardinality(held) = 0 <=> held = {})
  <2>1. IsFiniteSet(1..2)
    <3>1. 1 \in Int /\ 2 \in Int
      OBVIOUS
    <3> QED BY ONLY <3>1, FS_Interval
  <2>2. IsFiniteSet(held)
    BY <2>1, FS_Subset
  <2> QED BY <2>2, FS_CardinalityType, FS_EmptySet
<1>2. strong_count(a) = Cardinality(held) + (IF sequence_tables.table = a THEN 1 ELSE 0)
  BY DEF strong_count
<1>3. held = {} <=> \A i \in 1..2 : pool[i] # a
  OBVIOUS
<1> HIDE DEF held
<1> QED BY <1>1, <1>2, <1>3

\* A table is built at an address of the pool that the encoder does not carry; every
\* other keeps its table.
LEMMA BuildSpares ==
  ASSUME CarriedTypeOK, NEW table
  PROVE  /\ build(table).at \in Addresses /\ build(table).at # sequence_tables.table
         /\ build(table).heap = [heap EXCEPT ![build(table).at] = table]
         /\ build(table).pool \in [1..2 -> Addresses \cup {Nowhere}]
<1> DEFINE free   == {i \in 1..2 : pool[i] # Nowhere /\ strong_count(pool[i]) = 1}
           empty  == {i \in 1..2 : pool[i] = Nowhere}
           chosen == IF free # {} THEN Lowest(free) ELSE IF empty # {} THEN Lowest(empty) ELSE 1
           unheld == {b \in Addresses : strong_count(b) = 0}
           a      == IF free # {} THEN pool[chosen] ELSE Lowest(unheld)
<1>1. build(table) = [pool |-> [pool EXCEPT ![chosen] = a], heap |-> [heap EXCEPT ![a] = table],
                      at |-> a]
  BY DEF build
<1>2. chosen \in 1..2 /\ (free # {} => chosen \in free)
  BY LowestIsMember
<1>3. unheld # {} /\ unheld \in SUBSET (1..4)
  <2>1. \E b \in 1..4 : b # pool[1] /\ b # pool[2] /\ b # sequence_tables.table
    BY DEF CarriedTypeOK, Addresses
  <2> QED BY <2>1, StrongCount DEF Addresses
<1>4. Lowest(unheld) \in unheld
  BY <1>3, LowestIsMember
<1>5. a \in Addresses /\ a # sequence_tables.table
  <2>1. CASE free # {}
    BY <2>1, <1>2, StrongCount DEF CarriedTypeOK
  <2>2. CASE free = {}
    BY <2>2, <1>4, StrongCount
  <2> QED BY <2>1, <2>2
<1> HIDE DEF chosen, a
<1> QED BY <1>1, <1>2, <1>5 DEF CarriedTypeOK

-----------------------------------------------------------------------------
\* What a mode's table and its description are.

\* The modes the costs may settle on are those whose table covers the block's codes.
LEMMA ChosenModes ==
  ASSUME NEW counts \in [Codes -> 0..MaxCount], NEW mode \in select_table_choice(counts)
  PROVE  /\ mode \in {"Predefined", "Rle", "Repeat", "FseCompressed"}
         /\ mode = "Predefined" => Seen(counts) \subseteq DefaultCodes
         /\ mode = "Repeat" => /\ sequence_tables.repeat_mode # "None"
                               /\ Seen(counts) \subseteq heap[sequence_tables.table].symbols
BY DEF select_table_choice, default_allowed, repeats

\* The address a block's table lives at after Choice, and that the carried table is
\* still what it was.
LEMMA ChoiceKeeps ==
  ASSUME CarriedInv, NEW counts \in [Codes -> 0..MaxCount], NEW mode \in select_table_choice(counts),
         NEW choice, choice = Choice(mode, counts)
  PROVE  /\ choice.pool \in [1..2 -> Addresses \cup {Nowhere}]
         /\ choice.heap = [b \in Addresses \cup {InDictionary} |-> choice.heap[b]]
         /\ sequence_tables.repeat_mode # "None" =>
              choice.heap[sequence_tables.table] = heap[sequence_tables.table]
         /\ mode = "Repeat" => choice.at = sequence_tables.table
         /\ mode \in {"Rle", "FseCompressed"} =>
              choice.at \in Addresses /\ choice.heap[choice.at] = Table(tried + 1, Seen(counts))
<1>1. CASE mode \in {"Predefined", "Repeat"}
  <2>1. choice.pool = pool /\ choice.heap = heap
    BY <1>1 DEF Choice, Unbuilt
  <2>2. mode = "Repeat" => choice.at = sequence_tables.table
    BY <1>1 DEF Choice, Unbuilt
  <2> QED BY <1>1, <2>1, <2>2 DEF CarriedInv, CarriedTypeOK
<1>2. CASE mode \in {"Rle", "FseCompressed"}
  <2>1. choice = build(Table(tried + 1, Seen(counts)))
    BY <1>2 DEF Choice
  <2>2. /\ choice.at \in Addresses /\ choice.at # sequence_tables.table
        /\ choice.heap = [heap EXCEPT ![choice.at] = Table(tried + 1, Seen(counts))]
        /\ choice.pool \in [1..2 -> Addresses \cup {Nowhere}]
    BY <2>1, BuildSpares DEF CarriedInv
  <2>3. /\ choice.heap = [b \in Addresses \cup {InDictionary} |-> choice.heap[b]]
        /\ choice.heap[choice.at] = Table(tried + 1, Seen(counts))
        /\ \A b \in Addresses \cup {InDictionary} : b # choice.at => choice.heap[b] = heap[b]
    BY <2>2 DEF CarriedInv, CarriedTypeOK
  <2> QED BY <1>2, <2>2, <2>3 DEF CarriedInv, EndsAgree
<1> QED BY <1>1, <1>2, ChosenModes

-----------------------------------------------------------------------------
\* A dictionary's table reaches both ends, and nothing else is there to begin with.
LEMMA CarriedInitInv == CarriedInit => CarriedInv
<1> SUFFICES ASSUME CarriedInit PROVE CarriedInv
  OBVIOUS
<1>1. /\ sequence_tables = [table |-> sequence_tables.table, repeat_mode |-> sequence_tables.repeat_mode]
      /\ sequence_tables.table \in {InDictionary, Nowhere}
      /\ sequence_tables.repeat_mode # "None" =>
           sequence_tables.table = InDictionary /\ start.dictionary # NoTable
  BY DEF CarriedInit, Unset
<1>2. /\ heap = [a \in Addresses \cup {InDictionary} |-> heap[a]]
      /\ heap[InDictionary] = start.dictionary
  BY DEF CarriedInit
<1>3. /\ tables = [slot |-> tables.slot, seq |-> tables.seq, has |-> tables.has, dirty |-> tables.dirty]
      /\ tables.slot = start.dictionary /\ tables.dirty = TRUE
      /\ tables.has = (start.dictionary # NoTable)
  BY DEF CarriedInit
<1>4. pool \in [1..2 -> Addresses \cup {Nowhere}] /\ tried \in Nat
  BY DEF CarriedInit
<1>5. literals_state = huffman_table /\ verdict = "ok"
  BY DEF CarriedInit
<1> QED
  BY <1>1, <1>2, <1>3, <1>4, <1>5 DEF CarriedInv, CarriedTypeOK, EndsAgree, DecoderTable, TablesInStep

\* Both ends' Huffman tables after a literals section, and that it could be read.
LEMMA LiteralsAgree ==
  ASSUME literals_state = huffman_table, NEW seen, NEW section \in Literals(seen)
  PROVE  /\ section.table = HuffmanTable(section)
         /\ section.kind = "Treeless" => huffman_table # NoTable
BY DEF Literals, Coded, HuffmanTable

\* A block with sequences leaves the two ends in step, whether it is written or loses.
LEMMA SequenceBlockStep ==
  ASSUME CarriedInv, CarriedNext, SequenceBlock
  PROVE  CarriedInv'
<1>1. PICK counts \in [Codes -> 0..MaxCount] :
        \E mode \in select_table_choice(counts) : TryBlock(mode, counts, Choice(mode, counts))
  BY DEF SequenceBlock
<1>2. PICK mode \in select_table_choice(counts) : TryBlock(mode, counts, Choice(mode, counts))
  BY <1>1
<1> DEFINE choice == Choice(mode, counts)
           coder  == IF mode = "Predefined" THEN predefined ELSE choice.heap[choice.at]
<1>3. /\ choice.pool \in [1..2 -> Addresses \cup {Nowhere}]
      /\ choice.heap = [b \in Addresses \cup {InDictionary} |-> choice.heap[b]]
      /\ sequence_tables.repeat_mode # "None" =>
           choice.heap[sequence_tables.table] = heap[sequence_tables.table]
      /\ mode = "Repeat" => choice.at = sequence_tables.table
      /\ mode \in {"Rle", "FseCompressed"} =>
           choice.at \in Addresses /\ choice.heap[choice.at] = Table(tried + 1, Seen(counts))
  BY ChoiceKeeps
<1>4. pool' = choice.pool /\ heap' = choice.heap /\ tried' = tried + 1
  BY <1>2 DEF CarriedNext, TryBlock
<1> HIDE DEF choice
<1>5. CASE UNCHANGED <<sequence_tables, literals_state, tables, huffman_table, verdict>>
  BY <1>3, <1>4, <1>5 DEF CarriedInv, CarriedTypeOK, EndsAgree, DecoderTable, TablesInStep
<1>6. CASE BlockWins(mode, counts, choice.at, coder)
  <2>1. PICK seen \in SUBSET Bytes : \E section \in Literals(seen) :
          /\ sequence_tables' = into_part_state(mode, choice.at)
          /\ literals_state' = section.table
          /\ tables' = decode_setup(parse_sequence_section(mode, coder))
          /\ huffman_table' = HuffmanTable(section)
          /\ verdict' = IF Seen(counts) \subseteq coder.symbols
                        THEN Reads(section, mode, coder) ELSE "uncoded"
    BY <1>6 DEF BlockWins
  <2>2. PICK section \in Literals(seen) :
          /\ sequence_tables' = into_part_state(mode, choice.at)
          /\ literals_state' = section.table
          /\ tables' = decode_setup(parse_sequence_section(mode, coder))
          /\ huffman_table' = HuffmanTable(section)
          /\ verdict' = IF Seen(counts) \subseteq coder.symbols
                        THEN Reads(section, mode, coder) ELSE "uncoded"
    BY <2>1
  <2>3. /\ section.table = HuffmanTable(section)
        /\ section.kind = "Treeless" => huffman_table # NoTable
    BY LiteralsAgree DEF CarriedInv
  <2>4. /\ mode \in {"Predefined", "Rle", "Repeat", "FseCompressed"}
        /\ mode = "Predefined" => Seen(counts) \subseteq DefaultCodes
        /\ mode = "Repeat" => /\ sequence_tables.repeat_mode # "None"
                              /\ Seen(counts) \subseteq heap[sequence_tables.table].symbols
    BY ChosenModes
  <2>5. mode = "Repeat" => coder = DecoderTable /\ tables.has
    BY <1>3, <2>4 DEF CarriedInv, EndsAgree
  <2>6. coder # NoTable /\ Seen(counts) \subseteq coder.symbols
    <3>1. \A symbols : Table(tried + 1, symbols) # NoTable
      BY DEF Table, NoTable, CarriedInv, CarriedTypeOK
    <3>2. \A made, symbols : Table(made, symbols).symbols = symbols
      BY DEF Table
    <3>3. CASE mode = "Predefined"
      BY <2>4, <3>3 DEF predefined, Table, NoTable
    <3>4. CASE mode = "Repeat"
      BY <1>3, <2>4, <2>5, <3>4 DEF CarriedInv, EndsAgree
    <3>5. CASE mode \in {"Rle", "FseCompressed"}
      BY <1>3, <3>1, <3>2, <3>5
    <3> QED BY <2>4, <3>3, <3>4, <3>5
  <2>7. /\ tables' = [slot |-> tables'.slot, seq |-> coder, has |-> TRUE, dirty |-> FALSE]
        /\ decode_setup(parse_sequence_section(mode, coder)).seq = coder
    BY <2>2, <2>5 DEF decode_setup, parse_sequence_section, DecoderTable, CarriedInv, CarriedTypeOK
  <2>8. mode \in {"Repeat", "FseCompressed"} => choice.heap[choice.at] = coder
    OBVIOUS
  <2> HIDE DEF coder
  <2>9. verdict' = "ok"
    BY <2>2, <2>3, <2>5, <2>6, <2>7 DEF Reads
  <2>10. /\ sequence_tables' = [table |-> sequence_tables'.table,
                                repeat_mode |-> sequence_tables'.repeat_mode]
         /\ sequence_tables'.table \in Addresses \cup {InDictionary, Nowhere}
         /\ sequence_tables'.repeat_mode # "None" =>
              /\ mode \in {"Repeat", "FseCompressed"} /\ sequence_tables'.table = choice.at
              /\ choice.at \in Addresses \cup {InDictionary}
    BY <1>3, <2>2, <2>4 DEF into_part_state, Unset, CarriedInv, CarriedTypeOK, EndsAgree
  <2>11. CarriedTypeOK'
    <3>1. /\ heap' = [b \in Addresses \cup {InDictionary} |-> heap'[b]]
          /\ pool' \in [1..2 -> Addresses \cup {Nowhere}]
          /\ tried' \in Nat
      BY <1>3, <1>4 DEF CarriedInv, CarriedTypeOK
    <3>2. tables'.dirty = FALSE /\ tables'.has = TRUE /\ tables'.seq = coder
      <4> DEFINE s == tables'.slot
      <4>1. tables' = [slot |-> s, seq |-> coder, has |-> TRUE, dirty |-> FALSE]
        BY <2>7
      <4> HIDE DEF s
      <4> QED BY <4>1
    <3>3. tables' = [slot |-> tables'.slot, seq |-> tables'.seq, has |-> tables'.has,
                     dirty |-> tables'.dirty]
      BY <2>7, <3>2
    <3> QED BY <2>10, <3>1, <3>2, <3>3 DEF CarriedTypeOK
  <2>12. EndsAgree'
    BY <1>4, <2>6, <2>7, <2>8, <2>10 DEF EndsAgree, DecoderTable
  <2> QED BY <2>2, <2>3, <2>9, <2>11, <2>12 DEF CarriedInv, TablesInStep
<1> QED BY <1>2, <1>5, <1>6 DEF choice, coder, TryBlock

\* Every step of the blocks keeps the invariant.
LEMMA CarriedStep == CarriedInv /\ [CarriedNext]_carriedVars => CarriedInv'
<1> SUFFICES ASSUME CarriedInv, [CarriedNext]_carriedVars PROVE CarriedInv'
  OBVIOUS
<1>1. CASE CarriedNext /\ SequenceBlock
  BY <1>1, SequenceBlockStep
<1>2. CASE CarriedNext /\ ZeroSequenceBlock
  <2>0. PICK seen \in SUBSET Bytes : \E section \in Coded(seen) :
          /\ literals_state' = section.table
          /\ huffman_table' = HuffmanTable(section)
          /\ verdict' = Reads(section, "none", NoTable)
    BY <1>2 DEF ZeroSequenceBlock
  <2>1. PICK section \in Coded(seen) :
          /\ literals_state' = section.table
          /\ huffman_table' = HuffmanTable(section)
          /\ verdict' = Reads(section, "none", NoTable)
    BY <2>0
  <2>2. /\ section.table = HuffmanTable(section)
        /\ section.kind = "Treeless" => huffman_table # NoTable
    BY LiteralsAgree DEF Literals, CarriedInv
  <2>3. verdict' = "ok"
    BY <2>1, <2>2 DEF Reads
  <2>4. UNCHANGED <<pool, heap, sequence_tables, tables>> /\ tried' = tried + 1
    BY <1>2 DEF CarriedNext, ZeroSequenceBlock
  <2> QED BY <2>1, <2>2, <2>3, <2>4 DEF CarriedInv, CarriedTypeOK, EndsAgree, DecoderTable, TablesInStep
<1>3. CASE UNCHANGED carriedVars
  BY <1>3 DEF carriedVars, CarriedInv, CarriedTypeOK, EndsAgree, DecoderTable, TablesInStep
<1> QED BY <1>1, <1>2, <1>3 DEF CarriedNext

\* Whatever tables a dictionary brings and whatever blocks follow, in any number: a
\* block is read with the tables it was coded with.
THEOREM TablesAreInStep == CarriedSpec => []TablesInStep
<1>1. CarriedInv => TablesInStep
  BY DEF CarriedInv
<1> QED BY <1>1, CarriedInitInv, CarriedStep, PTL DEF CarriedSpec

-----------------------------------------------------------------------------
\* Induction, over the naturals and over the parts of a finite set.

\* A set that has 0, and each number's successor, has all naturals.
LEMMA NaturalsByStep ==
  ASSUME NEW Good \in SUBSET Nat, 0 \in Good, \A n \in Good : n + 1 \in Good
  PROVE  Good = Nat
<1> SUFFICES ASSUME Nat \ Good # {} PROVE FALSE
  OBVIOUS
<1>1. PICK n \in Nat \ Good : \A m \in Nat \ Good : n <= m
  <2>1. Nat \ Good \in SUBSET Nat
    OBVIOUS
  <2> QED BY <2>1, LeastOf
<1>2. n # 0 /\ n - 1 \in Nat
  BY <1>1
<1>3. n - 1 \in Good
  BY <1>1, <1>2
<1>4. (n - 1) + 1 = n
  OBVIOUS
<1> QED BY <1>1, <1>3, <1>4

\* The member a sum takes first.
First(S) == CHOOSE s \in S : TRUE

\* A set of parts that has the empty one, and each whose rest it has, has them all.
LEMMA PartsByStep ==
  ASSUME NEW D, IsFiniteSet(D), NEW Good \in SUBSET SUBSET D, {} \in Good,
         \A S \in SUBSET D : S # {} /\ S \ {First(S)} \in Good => S \in Good
  PROVE  D \in Good
<1> DEFINE Sizes == {Cardinality(S) : S \in (SUBSET D) \ Good}
<1> SUFFICES ASSUME D \notin Good PROVE FALSE
  OBVIOUS
<1>1. \A S \in SUBSET D : IsFiniteSet(S) /\ Cardinality(S) \in Nat
  BY FS_Subset, FS_CardinalityType
<1>2. PICK S \in (SUBSET D) \ Good : \A T \in (SUBSET D) \ Good : Cardinality(S) <= Cardinality(T)
  <2>1. Sizes \in SUBSET Nat /\ Sizes # {}
    BY <1>1
  <2>2. PICK n \in Sizes : \A m \in Sizes : n <= m
    <3> HIDE DEF Sizes
    <3> QED BY <2>1, LeastOf
  <2> QED BY <2>2
<1>3. S # {}
  BY <1>2
<1>4. First(S) \in S
  BY <1>3 DEF First
<1>5. Cardinality(S \ {First(S)}) = Cardinality(S) - 1
  BY <1>1, <1>2, <1>4, FS_RemoveElement
<1>6. S \ {First(S)} \in SUBSET D /\ ~(Cardinality(S) <= Cardinality(S \ {First(S)}))
  BY <1>1, <1>5
<1>7. S \ {First(S)} \in Good
  BY <1>2, <1>6
<1> QED BY <1>2, <1>3, <1>7

-----------------------------------------------------------------------------
\* Sums.

\* f adds up a list of counts over the parts of D that are in P.
Adds(f, freq, P) ==
  f = [S \in P |-> IF S = {} THEN 0 ELSE freq[First(S)] + f[S \ {First(S)}]]

SmallParts(D, n) == {S \in SUBSET D : Cardinality(S) <= n}

\* There is one, over the parts of any size, hence over all.
LEMMA AddsExists ==
  ASSUME NEW D, IsFiniteSet(D), NEW freq
  PROVE  \E f : Adds(f, freq, SUBSET D)
<1> DEFINE Good == {n \in Nat : \E f : Adds(f, freq, SmallParts(D, n))}
<1>0. \A S \in SUBSET D : IsFiniteSet(S) /\ Cardinality(S) \in Nat /\ (Cardinality(S) = 0 <=> S = {})
  BY FS_Subset, FS_CardinalityType, FS_EmptySet
<1>1. 0 \in Good
  <2>1. Adds([S \in SmallParts(D, 0) |-> 0], freq, SmallParts(D, 0))
    <3>1. \A S \in SmallParts(D, 0) : S = {}
      BY <1>0 DEF SmallParts
    <3> QED BY <3>1 DEF Adds
  <2> QED BY <2>1
<1>2. ASSUME NEW n \in Good PROVE n + 1 \in Good
  <2>1. PICK f : Adds(f, freq, SmallParts(D, n))
    OBVIOUS
  <2>2. PICK g : g = [S \in SmallParts(D, n + 1) |->
                        IF S = {} THEN 0 ELSE freq[First(S)] + f[S \ {First(S)}]]
    OBVIOUS
  <2>3. ASSUME NEW S \in SmallParts(D, n + 1), S # {}
        PROVE  S \ {First(S)} \in SmallParts(D, n)
    <3>1. First(S) \in S /\ S \in SUBSET D /\ Cardinality(S) <= n + 1
      BY <2>3 DEF First, SmallParts
    <3>2. Cardinality(S \ {First(S)}) = Cardinality(S) - 1
      BY <1>0, <3>1, FS_RemoveElement
    <3>3. Cardinality(S) - 1 <= n
      BY <1>0, <3>1
    <3> QED BY <3>1, <3>2, <3>3 DEF SmallParts
  <2>4. \A S \in SmallParts(D, n) : S \in SmallParts(D, n + 1)
    BY <1>0 DEF SmallParts
  <2>5. \A S \in SmallParts(D, n) : g[S] = f[S]
    BY <2>1, <2>2, <2>4 DEF Adds
  <2>6. Adds(g, freq, SmallParts(D, n + 1))
    <3>1. g = [S \in SmallParts(D, n + 1) |->
                 IF S = {} THEN 0 ELSE freq[First(S)] + g[S \ {First(S)}]]
      BY <2>2, <2>3, <2>5
    <3> QED BY <3>1 DEF Adds
  <2> QED BY <2>6
<1>3. Cardinality(D) \in Good
  <2>1. Good \in SUBSET Nat
    OBVIOUS
  <2>2. Good = Nat
    <3> HIDE DEF Good
    <3> QED BY <1>1, <1>2, <2>1, NaturalsByStep
  <2> QED BY <1>0, <2>2
<1>4. SmallParts(D, Cardinality(D)) = SUBSET D
  BY FS_Subset DEF SmallParts
<1> QED BY <1>3, <1>4

\* A total is the last value of one.
LEMMA TotalIs ==
  ASSUME NEW D, IsFiniteSet(D), NEW freq, DOMAIN freq = D
  PROVE  \E f : Adds(f, freq, SUBSET D) /\ Total(freq) = f[D]
<1>1. PICK dom : dom = DOMAIN freq
  OBVIOUS
<1>2. \E f : Adds(f, freq, SUBSET DOMAIN freq)
  BY <1>1, AddsExists
<1>3. Adds(CHOOSE f : Adds(f, freq, SUBSET DOMAIN freq), freq, SUBSET DOMAIN freq)
  BY <1>2
<1>4. Total(freq) = (CHOOSE f : Adds(f, freq, SUBSET DOMAIN freq))[DOMAIN freq]
  BY Zenon DEF Total, Adds, First
<1> QED BY <1>3, <1>4

\* What such a function gives, part by part.
LEMMA AddsIs ==
  ASSUME NEW D, NEW freq, NEW f, Adds(f, freq, SUBSET D)
  PROVE  /\ f[{}] = 0
         /\ \A S \in SUBSET D : S # {} =>
              /\ First(S) \in S /\ First(S) \in D /\ S \ {First(S)} \in SUBSET D
              /\ f[S] = freq[First(S)] + f[S \ {First(S)}]
BY DEF Adds, First

\* A sum of naturals is one.
LEMMA TotalNat ==
  ASSUME NEW D, IsFiniteSet(D), NEW freq \in [D -> Nat]
  PROVE  Total(freq) \in Nat
<1>1. PICK f : Adds(f, freq, SUBSET D) /\ Total(freq) = f[D]
  BY TotalIs
<1> DEFINE Good == {S \in SUBSET D : f[S] \in Nat}
<1>2. /\ f[{}] = 0
      /\ \A S \in SUBSET D : S # {} =>
           /\ First(S) \in S /\ First(S) \in D /\ S \ {First(S)} \in SUBSET D
           /\ f[S] = freq[First(S)] + f[S \ {First(S)}]
  BY <1>1, AddsIs
<1>3. \A S \in SUBSET D : S # {} /\ S \ {First(S)} \in Good => S \in Good
  BY <1>2
<1>4. {} \in Good /\ Good \in SUBSET SUBSET D
  BY <1>2
<1>5. D \in Good
  <2> HIDE DEF Good
  <2> QED BY <1>3, <1>4, PartsByStep
<1> QED BY <1>1, <1>5

\* A sum and several times another.
LEMMA TotalLinear ==
  ASSUME NEW D, IsFiniteSet(D), NEW a \in [D -> Nat], NEW b \in [D -> Nat], NEW k \in Nat,
         NEW c \in [D -> Nat], \A s \in D : c[s] = a[s] + k * b[s]
  PROVE  Total(c) = Total(a) + k * Total(b)
<1>1. PICK f : Adds(f, a, SUBSET D) /\ Total(a) = f[D]
  BY TotalIs
<1>2. PICK g : Adds(g, b, SUBSET D) /\ Total(b) = g[D]
  BY TotalIs
<1>3. PICK h : Adds(h, c, SUBSET D) /\ Total(c) = h[D]
  BY TotalIs
<1> DEFINE Good == {S \in SUBSET D : f[S] \in Nat /\ g[S] \in Nat /\ h[S] = f[S] + k * g[S]}
<1>4. /\ f[{}] = 0
      /\ \A S \in SUBSET D : S # {} =>
           /\ First(S) \in S /\ First(S) \in D /\ S \ {First(S)} \in SUBSET D
           /\ f[S] = a[First(S)] + f[S \ {First(S)}]
  BY <1>1, AddsIs
<1>5. /\ g[{}] = 0
      /\ \A S \in SUBSET D : S # {} =>
           /\ First(S) \in S /\ First(S) \in D /\ S \ {First(S)} \in SUBSET D
           /\ g[S] = b[First(S)] + g[S \ {First(S)}]
  BY <1>2, AddsIs
<1>6. /\ h[{}] = 0
      /\ \A S \in SUBSET D : S # {} =>
           /\ First(S) \in S /\ First(S) \in D /\ S \ {First(S)} \in SUBSET D
           /\ h[S] = c[First(S)] + h[S \ {First(S)}]
  BY <1>3, AddsIs
<1>7. ASSUME NEW S \in SUBSET D, S # {}, S \ {First(S)} \in Good PROVE S \in Good
  <2>1. PICK x \in Nat, y \in Nat : x = a[First(S)] /\ y = b[First(S)]
    BY <1>4, <1>7
  <2>2. PICK u \in Nat, v \in Nat : u = f[S \ {First(S)}] /\ v = g[S \ {First(S)}]
    BY <1>7
  <2>3. f[S] = x + u /\ g[S] = y + v
    BY <1>4, <1>5, <1>7, <2>1, <2>2
  <2>4. h[S] = (x + k * y) + (u + k * v)
    <3>1. c[First(S)] = x + k * y
      BY <1>4, <1>7, <2>1
    <3> QED BY <1>6, <1>7, <2>2, <3>1
  <2>5. (x + k * y) + (u + k * v) = (x + u) + k * (y + v)
    OBVIOUS
  <2> QED BY <2>3, <2>4, <2>5
<1>8. {} \in Good /\ Good \in SUBSET SUBSET D
  BY <1>4, <1>5, <1>6
<1>9. D \in Good
  <2> HIDE DEF Good
  <2> QED BY <1>7, <1>8, PartsByStep
<1> QED BY <1>1, <1>2, <1>3, <1>9

\* A sum of which one count alone is not 0.
LEMMA TotalPoint ==
  ASSUME NEW D, IsFiniteSet(D), NEW d \in D, NEW v \in Nat
  PROVE  Total([s \in D |-> IF s = d THEN v ELSE 0]) = v
<1>1. PICK a : a = [s \in D |-> IF s = d THEN v ELSE 0]
  OBVIOUS
<1>2. PICK f : Adds(f, a, SUBSET D) /\ Total(a) = f[D]
  BY <1>1, TotalIs
<1> DEFINE Good == {S \in SUBSET D : f[S] = IF d \in S THEN v ELSE 0}
<1>3. /\ f[{}] = 0
      /\ \A S \in SUBSET D : S # {} =>
           /\ First(S) \in S /\ First(S) \in D /\ S \ {First(S)} \in SUBSET D
           /\ f[S] = a[First(S)] + f[S \ {First(S)}]
  BY <1>2, AddsIs
<1>4. ASSUME NEW S \in SUBSET D, S # {}, S \ {First(S)} \in Good PROVE S \in Good
  <2>1. CASE First(S) = d
    <3>1. d \in S /\ d \notin S \ {First(S)} /\ f[S \ {First(S)}] = 0
      BY <1>3, <1>4, <2>1
    <3>2. a[First(S)] = v
      BY <1>1, <2>1
    <3>3. f[S] = v + 0
      BY <1>3, <1>4, <3>1, <3>2
    <3> QED BY <3>1, <3>3
  <2>2. CASE First(S) # d
    <3>1. d \in S <=> d \in S \ {First(S)}
      BY <2>2
    <3>2. a[First(S)] = 0
      BY <1>1, <1>3, <1>4, <2>2
    <3>3. f[S] = 0 + f[S \ {First(S)}] /\ f[S \ {First(S)}] = IF d \in S THEN v ELSE 0
      BY <1>3, <1>4, <3>1, <3>2
    <3> QED BY <3>3
  <2> QED BY <2>1, <2>2
<1>5. {} \in Good /\ Good \in SUBSET SUBSET D
  BY <1>3
<1>6. D \in Good
  <2> HIDE DEF Good
  <2> QED BY <1>4, <1>5, PartsByStep
<1> QED BY <1>1, <1>2, <1>6

\* A sum of ones.
LEMMA TotalOnes ==
  ASSUME NEW D, IsFiniteSet(D)
  PROVE  Total([s \in D |-> 1]) = Cardinality(D)
<1>1. PICK a : a = [s \in D |-> 1]
  OBVIOUS
<1>2. PICK f : Adds(f, a, SUBSET D) /\ Total(a) = f[D]
  BY <1>1, TotalIs
<1> DEFINE Good == {S \in SUBSET D : f[S] = Cardinality(S)}
<1>3. /\ f[{}] = 0
      /\ \A S \in SUBSET D : S # {} =>
           /\ First(S) \in S /\ First(S) \in D /\ S \ {First(S)} \in SUBSET D
           /\ f[S] = a[First(S)] + f[S \ {First(S)}]
  BY <1>2, AddsIs
<1>4. ASSUME NEW S \in SUBSET D, S # {}, S \ {First(S)} \in Good PROVE S \in Good
  <2>1. Cardinality(S) \in Nat /\ Cardinality(S \ {First(S)}) = Cardinality(S) - 1
    <3>1. IsFiniteSet(S) /\ First(S) \in S
      BY <1>3, <1>4, FS_Subset
    <3> QED BY <3>1, FS_CardinalityType, FS_RemoveElement
  <2>2. a[First(S)] = 1
    BY <1>1, <1>3, <1>4
  <2> QED BY <1>3, <1>4, <2>1, <2>2
<1>5. {} \in Good /\ Good \in SUBSET SUBSET D
  BY <1>3, FS_EmptySet
<1>6. D \in Good
  <2> HIDE DEF Good
  <2> QED BY <1>4, <1>5, PartsByStep
<1> QED BY <1>1, <1>2, <1>6

\* c is a and k times b.
Combined(D, c, a, k, b) == \A s \in D : c[s] = a[s] + k * b[s]

\* So are their sums.
LEMMA TotalCombined ==
  ASSUME NEW D, IsFiniteSet(D), NEW a \in [D -> Nat], NEW b \in [D -> Nat], NEW k \in Nat,
         NEW c \in [D -> Nat], Combined(D, c, a, k, b)
  PROVE  Total(c) = Total(a) + k * Total(b)
BY TotalLinear DEF Combined

\* A sum of sums.
LEMMA TotalOfTwo ==
  ASSUME NEW D, IsFiniteSet(D), NEW a \in [D -> Nat], NEW b \in [D -> Nat],
         NEW c \in [D -> Nat], \A s \in D : c[s] = a[s] + b[s]
  PROVE  Total(c) = Total(a) + Total(b)
<1>1. \A s \in D : c[s] = a[s] + 1 * b[s]
  OBVIOUS
<1>2. Total(c) = Total(a) + 1 * Total(b) /\ Total(a) \in Nat /\ Total(b) \in Nat
  BY <1>1, TotalLinear, TotalNat
<1> QED BY <1>2

\* Nothing adds up to nothing.
LEMMA TotalOfNothing ==
  ASSUME NEW D, IsFiniteSet(D)
  PROVE  Total([s \in D |-> 0]) = 0
<1>1. PICK z \in [D -> Nat] : z = [s \in D |-> 0]
  OBVIOUS
<1>2. \A s \in D : z[s] = z[s] + 1 * z[s]
  BY <1>1
<1>3. Total(z) \in Nat /\ Total(z) = Total(z) + 1 * Total(z)
  BY <1>1, <1>2, TotalNat, TotalLinear
<1>4. PICK n \in Nat : n = Total(z)
  BY <1>3
<1>5. n = n + 1 * n
  BY <1>3, <1>4
<1>6. n = 0
  BY <1>5
<1> QED BY <1>1, <1>4, <1>6

\* The larger the counts the larger their sum.
LEMMA TotalMonotone ==
  ASSUME NEW D, IsFiniteSet(D), NEW a \in [D -> Nat], NEW c \in [D -> Nat],
         \A s \in D : a[s] <= c[s]
  PROVE  Total(a) <= Total(c)
<1>1. PICK b : b = [s \in D |-> c[s] - a[s]]
  OBVIOUS
<1>2. b \in [D -> Nat] /\ \A s \in D : c[s] = a[s] + 1 * b[s]
  BY <1>1
<1>3. Total(a) \in Nat /\ Total(b) \in Nat /\ Total(c) = Total(a) + 1 * Total(b)
  BY <1>2, TotalNat, TotalLinear
<1> QED BY <1>3

\* No count exceeds its sum.
LEMMA PartOfTotal ==
  ASSUME NEW D, IsFiniteSet(D), NEW a \in [D -> Nat], NEW d \in D
  PROVE  a[d] <= Total(a)
<1>1. PICK v \in Nat : v = a[d]
  OBVIOUS
<1>2. PICK b : b = [s \in D |-> IF s = d THEN v ELSE 0]
  OBVIOUS
<1>3. b \in [D -> Nat] /\ \A s \in D : b[s] <= a[s]
  BY <1>1, <1>2
<1>4. Total(b) = v
  BY <1>2, TotalPoint
<1>5. Total(b) <= Total(a)
  BY <1>3, TotalMonotone
<1> QED BY <1>1, <1>4, <1>5

\* Where there is something to add up, a count is not 0.
LEMMA TotalOfSomething ==
  ASSUME NEW D, IsFiniteSet(D), NEW a \in [D -> Nat], Total(a) # 0
  PROVE  \E d \in D : a[d] # 0
<1>1. SUFFICES ASSUME \A d \in D : a[d] = 0 PROVE FALSE
  OBVIOUS
<1>2. a = [s \in D |-> 0]
  BY <1>1
<1> QED BY <1>2, TotalOfNothing

\* Every count at most k.
LEMMA TotalAtMost ==
  ASSUME NEW D, IsFiniteSet(D), NEW a \in [D -> Nat], NEW k \in Nat, \A d \in D : a[d] <= k
  PROVE  Total(a) <= Cardinality(D) * k
<1>1. PICK z \in [D -> Nat] : z = [s \in D |-> 0]
  OBVIOUS
<1>2. PICK e \in [D -> Nat] : e = [s \in D |-> 1]
  OBVIOUS
<1>3. PICK c \in [D -> Nat] : c = [s \in D |-> k]
  OBVIOUS
<1>4. Total(z) = 0 /\ Total(e) = Cardinality(D) /\ Cardinality(D) \in Nat
  BY <1>1, <1>2, TotalOfNothing, TotalOnes, FS_CardinalityType
<1>5. Total(c) = Total(z) + k * Total(e)
  <2>1. \A s \in D : c[s] = z[s] + k * e[s]
    BY <1>1, <1>2, <1>3
  <2>2. z \in [D -> Nat] /\ e \in [D -> Nat] /\ c \in [D -> Nat]
    OBVIOUS
  <2>3. Combined(D, c, z, k, e)
    BY <2>1 DEF Combined
  <2> QED BY <2>2, <2>3, TotalCombined
<1>6. Total(a) <= Total(c)
  BY <1>3, TotalMonotone
<1>7. PICK n \in Nat : n = Cardinality(D)
  BY <1>4
<1>8. 0 + k * n = n * k
  OBVIOUS
<1> QED BY <1>4, <1>5, <1>6, <1>7, <1>8

\* One more of one symbol.
LEMMA TotalOfOneMore ==
  ASSUME NEW D, IsFiniteSet(D), NEW a \in [D -> Nat], NEW d \in D
  PROVE  Total([a EXCEPT ![d] = @ + 1]) = Total(a) + 1
<1>1. PICK b : b = [s \in D |-> IF s = d THEN 1 ELSE 0]
  OBVIOUS
<1>2. PICK c : c = [a EXCEPT ![d] = @ + 1]
  OBVIOUS
<1>3. b \in [D -> Nat] /\ c \in [D -> Nat] /\ \A s \in D : c[s] = a[s] + 1 * b[s]
  BY <1>1, <1>2
<1>4. Total(b) = 1
  BY <1>1, TotalPoint
<1>5. Total(a) \in Nat /\ Total(c) = Total(a) + 1 * Total(b)
  BY <1>3, TotalNat, TotalLinear
<1> QED BY <1>2, <1>4, <1>5

-----------------------------------------------------------------------------
\* Bits.

\* b gives the bits below the n-th.
Bits(b, n) == b = [i \in 0..n |-> IF i = 0 THEN 1 ELSE 2 * b[i - 1]]

\* What such a function gives, bit by bit.
LEMMA BitsIs ==
  ASSUME NEW b, NEW n \in Nat, Bits(b, n)
  PROVE  \A i \in 0..n : b[i] = IF i = 0 THEN 1 ELSE 2 * b[i - 1]
BY DEF Bits

\* Bit is what its recursion says: there is a function that satisfies it.
LEMMA BitExists ==
  \E b : b = [n \in Nat |-> IF n = 0 THEN 1 ELSE 2 * b[n - 1]]
<1> DEFINE Good == {n \in Nat : \E b : Bits(b, n)}
<1>1. 0 \in Good
  <2>1. Bits([i \in 0..0 |-> 1], 0)
    BY DEF Bits
  <2> QED BY <2>1
<1>2. ASSUME NEW n \in Good PROVE n + 1 \in Good
  <2>1. PICK b : Bits(b, n)
    OBVIOUS
  <2>2. PICK c : c = [i \in 0..(n + 1) |-> IF i = 0 THEN 1 ELSE 2 * b[i - 1]]
    OBVIOUS
  <2>3. \A i \in 0..n : c[i] = b[i] /\ i \in 0..(n + 1)
    BY <2>1, <2>2 DEF Bits
  <2>4. ASSUME NEW i \in 0..(n + 1) PROVE c[i] = IF i = 0 THEN 1 ELSE 2 * c[i - 1]
    <3>1. c[i] = IF i = 0 THEN 1 ELSE 2 * b[i - 1]
      BY <2>2
    <3>2. i # 0 => i - 1 \in 0..n
      OBVIOUS
    <3> QED BY <2>3, <3>1, <3>2
  <2>5. c = [i \in 0..(n + 1) |-> c[i]]
    BY <2>2
  <2>6. Bits(c, n + 1)
    BY <2>4, <2>5 DEF Bits
  <2> QED BY <2>6
<1>3. Good = Nat
  <2>1. Good \in SUBSET Nat
    OBVIOUS
  <2> HIDE DEF Good
  <2> QED BY <1>1, <1>2, <2>1, NaturalsByStep
<1>4. PICK w : w = [n \in Nat |-> CHOOSE b : Bits(b, n)]
  OBVIOUS
<1>5. \A n \in Nat : Bits(w[n], n)
  BY <1>3, <1>4
<1>6. ASSUME NEW n \in Nat PROVE w[n + 1][n] = w[n][n]
  <2> DEFINE Same == {i \in Nat : i <= n => w[n + 1][i] = w[n][i]}
  <2>1. \A i \in 0..n : /\ w[n][i] = IF i = 0 THEN 1 ELSE 2 * w[n][i - 1]
                        /\ w[n + 1][i] = IF i = 0 THEN 1 ELSE 2 * w[n + 1][i - 1]
    <3>1. \A i \in 0..n : w[n][i] = IF i = 0 THEN 1 ELSE 2 * w[n][i - 1]
      BY <1>5, BitsIs
    <3>2. \A i \in 0..(n + 1) : w[n + 1][i] = IF i = 0 THEN 1 ELSE 2 * w[n + 1][i - 1]
      <4>1. n + 1 \in Nat /\ Bits(w[n + 1], n + 1)
        BY <1>5
      <4> QED BY <4>1, BitsIs
    <3> QED BY <3>1, <3>2
  <2>2. 0 \in Same
    BY <2>1
  <2>3. ASSUME NEW i \in Same PROVE i + 1 \in Same
    BY <2>1
  <2>4. Same = Nat
    <3>1. Same \in SUBSET Nat
      OBVIOUS
    <3> HIDE DEF Same
    <3> QED BY <2>2, <2>3, <3>1, NaturalsByStep
  <2> QED BY <2>4
<1>7. PICK f : f = [n \in Nat |-> w[n][n]]
  OBVIOUS
<1>8. ASSUME NEW n \in Nat PROVE f[n] = IF n = 0 THEN 1 ELSE 2 * f[n - 1]
  <2>1. w[n][n] = IF n = 0 THEN 1 ELSE 2 * w[n][n - 1]
    <3>1. n \in 0..n /\ Bits(w[n], n)
      BY <1>5
    <3> QED BY <3>1, BitsIs
  <2>2. CASE n = 0
    BY <1>7, <2>1, <2>2
  <2>3. CASE n # 0
    <3>1. PICK m \in Nat : n = m + 1
      <4>1. n - 1 \in Nat /\ n = (n - 1) + 1
        BY <2>3
      <4> QED BY <4>1
    <3>2. w[n][n] = 2 * w[m + 1][m] /\ n - 1 = m
      BY <2>1, <2>3, <3>1
    <3> QED BY <1>6, <1>7, <2>3, <3>1, <3>2
  <2> QED BY <2>2, <2>3
<1>9. f = [n \in Nat |-> IF n = 0 THEN 1 ELSE 2 * f[n - 1]]
  BY <1>7, <1>8
<1> QED BY <1>9

\* Each bit is twice the one below.
LEMMA BitIs ==
  /\ Bit[0] = 1
  /\ \A n \in Nat : Bit[n] \in Nat \ {0} /\ Bit[n + 1] = 2 * Bit[n]
<1>1. Bit = [n \in Nat |-> IF n = 0 THEN 1 ELSE 2 * Bit[n - 1]]
  BY BitExists DEF Bit
<1>2. Bit[0] = 1
  BY <1>1
<1>3. \A n \in Nat : Bit[n + 1] = 2 * Bit[n]
  BY <1>1
<1> DEFINE Good == {n \in Nat : Bit[n] \in Nat \ {0}}
<1>4. 0 \in Good /\ \A n \in Good : n + 1 \in Good
  BY <1>2, <1>3
<1>5. Good = Nat
  <2>1. Good \in SUBSET Nat
    OBVIOUS
  <2> HIDE DEF Good
  <2> QED BY <1>4, <2>1, NaturalsByStep
<1> QED BY <1>2, <1>3, <1>5

\* The higher the larger.
LEMMA BitMonotone ==
  ASSUME NEW m \in Nat, NEW n \in Nat, m <= n
  PROVE  Bit[m] <= Bit[n]
<1> DEFINE Good == {k \in Nat : Bit[m] <= Bit[m + k]}
<1>1. 0 \in Good
  BY BitIs
<1>2. ASSUME NEW k \in Good PROVE k + 1 \in Good
  <2>1. PICK j \in Nat : j = m + k /\ m + (k + 1) = j + 1
    OBVIOUS
  <2>2. Bit[j + 1] = 2 * Bit[j] /\ Bit[j] \in Nat /\ Bit[m] \in Nat
    BY BitIs
  <2> QED BY <2>1, <2>2
<1>3. Good = Nat
  <2>1. Good \in SUBSET Nat
    OBVIOUS
  <2> HIDE DEF Good
  <2> QED BY <1>1, <1>2, <2>1, NaturalsByStep
<1>4. PICK k \in Nat : m + k = n
  <2>1. n - m \in Nat /\ m + (n - m) = n
    OBVIOUS
  <2> QED BY <2>1
<1> QED BY <1>3, <1>4

\* The word and the unit are numbers.
LEMMA UnitIs == OPT_PRICE_UNIT \in Nat \ {0} /\ WIDTH \in Nat /\ Bit[WIDTH] \in Nat \ {0}
BY PriceAssumption, BitIs DEF OPT_PRICE_UNIT

\* More of a positive number is more.
LEMMA TimesMonotone ==
  ASSUME NEW a \in Nat, NEW b \in Nat, NEW k \in Nat, a <= b
  PROVE  a * k <= b * k
<1>1. PICK d \in Nat : b = a + d
  <2>1. b - a \in Nat /\ b = a + (b - a)
    OBVIOUS
  <2> QED BY <2>1
<1>2. b * k = a * k + d * k /\ d * k \in Nat /\ a * k \in Nat
  BY <1>1
<1> QED BY <1>2

\* The highest bit of a count that the word holds.
LEMMA HighbitIs ==
  ASSUME NEW n \in Nat \ {0}, n < Bit[WIDTH + 1]
  PROVE  highbit(n) \in 0..WIDTH /\ Bit[highbit(n)] <= n /\ n < Bit[highbit(n) + 1]
<1> DEFINE Above == {k \in Nat : n < Bit[k]}
<1>1. PICK k \in Above : \A m \in Above : k <= m
  <2>1. WIDTH + 1 \in Above /\ Above \in SUBSET Nat
    BY UnitIs
  <2> HIDE DEF Above
  <2> QED BY <2>1, LeastOf
<1>2. k # 0 /\ k <= WIDTH + 1
  BY <1>1, BitIs, UnitIs
<1>3. PICK j \in Nat : k = j + 1
  <2>1. k - 1 \in Nat /\ k = (k - 1) + 1
    BY <1>2
  <2> QED BY <2>1
<1>4. j \in 0..WIDTH /\ Bit[j] <= n /\ n < Bit[j + 1]
  <2>1. j \notin Above /\ Bit[j] \in Nat
    BY <1>1, <1>3, BitIs
  <2> QED BY <1>1, <1>2, <1>3, <2>1, UnitIs
<1> QED BY <1>4 DEF highbit

\* A count that fits is one the word holds, one more too.
LEMMA FitsHolds ==
  ASSUME NEW n \in Nat, Fits(n)
  PROVE  n + 1 < Bit[WIDTH + 1] /\ n + 1 < Bit[WIDTH] /\ n < Bit[WIDTH + 1]
<1>1. PICK u \in Nat \ {0} : u = OPT_PRICE_UNIT
  BY UnitIs
<1>2. PICK b \in Nat : b = Bit[WIDTH] /\ Bit[WIDTH + 1] = 2 * b
  BY UnitIs, BitIs
<1>3. (n + 1) * u < b
  BY <1>1, <1>2 DEF Fits
<1>4. (n + 1) * 1 <= (n + 1) * u
  <2>1. 1 * (n + 1) <= u * (n + 1)
    BY TimesMonotone
  <2> QED BY <2>1
<1> QED BY <1>2, <1>3, <1>4

\* What fits with more of it fits.
LEMMA FitsLess ==
  ASSUME NEW m \in Nat, NEW n \in Nat, m <= n, Fits(n)
  PROVE  Fits(m)
<1>1. PICK u \in Nat \ {0} : u = OPT_PRICE_UNIT
  BY UnitIs
<1>2. (m + 1) * u <= (n + 1) * u
  BY TimesMonotone
<1>3. PICK b \in Nat : b = Bit[WIDTH]
  BY UnitIs
<1>4. PICK p \in Nat, q \in Nat : p = (m + 1) * u /\ q = (n + 1) * u
  OBVIOUS
<1>5. q < b
  BY <1>1, <1>3, <1>4 DEF Fits
<1>6. p < b
  BY <1>2, <1>4, <1>5
<1> QED BY <1>1, <1>3, <1>4, <1>6 DEF Fits

\* The weight of a count that fits: its highest bit in units and, at the top level, what
\* the count is of that bit, in units too.
LEMMA WeightIs ==
  ASSUME NEW n \in Nat, Fits(n), price_frame \in PriceFrames
  PROVE  \E h \in 0..WIDTH, f \in Nat :
           /\ h = highbit(n + 1) /\ Bit[h] <= n + 1 /\ n + 1 < Bit[h + 1]
           /\ weight(n) = h * OPT_PRICE_UNIT + f
           /\ f = IF price_frame.ultra THEN ((n + 1) * OPT_PRICE_UNIT) \div Bit[h] ELSE 0
<1>1. PICK h \in 0..WIDTH : h = highbit(n + 1) /\ Bit[h] <= n + 1 /\ n + 1 < Bit[h + 1]
  BY FitsHolds, HighbitIs
<1>2. PICK u \in Nat \ {0}, b \in Nat \ {0}, w \in Nat \ {0} :
        u = OPT_PRICE_UNIT /\ b = Bit[h] /\ w = Bit[WIDTH]
  <2>1. h \in Nat
    BY UnitIs
  <2>2. Bit[h] \in Nat \ {0} /\ OPT_PRICE_UNIT \in Nat \ {0} /\ Bit[WIDTH] \in Nat \ {0}
    BY <2>1, UnitIs, BitIs
  <2> QED BY <2>2
<1>3. PICK x \in Nat : x = (n + 1) * u
  OBVIOUS
<1>4. x % w = x
  <2>1. x < w
    BY <1>2, <1>3 DEF Fits
  <2> QED BY <1>2, <1>3, <2>1
<1>5. PICK f : f = IF price_frame.ultra THEN x \div b ELSE 0
  OBVIOUS
<1>6. f \in Nat
  BY <1>2, <1>3, <1>5
<1>7. weight(n) = h * u + f
  BY <1>1, <1>2, <1>3, <1>4, <1>5 DEF weight
<1>8. f = IF price_frame.ultra THEN ((n + 1) * OPT_PRICE_UNIT) \div Bit[h] ELSE 0
  BY <1>2, <1>3, <1>5
<1> QED BY <1>1, <1>2, <1>6, <1>7, <1>8

\* A quotient's bounds.
LEMMA QuotientIs ==
  ASSUME NEW x \in Nat, NEW p \in Nat \ {0}
  PROVE  x \div p \in Nat /\ (x \div p) * p <= x /\ x < (x \div p) * p + p
OBVIOUS

\* A larger dividend has no smaller quotient.
LEMMA QuotientMonotone ==
  ASSUME NEW x \in Nat, NEW y \in Nat, NEW p \in Nat \ {0}, x <= y
  PROVE  x \div p <= y \div p
<1>1. PICK q \in Nat, r \in Nat : q = x \div p /\ r = y \div p
  BY QuotientIs
<1>2. q * p <= x /\ y < r * p + p
  BY <1>1, QuotientIs
<1>3. ASSUME r + 1 <= q PROVE FALSE
  <2>1. (r + 1) * p <= q * p
    BY <1>3, TimesMonotone
  <2>2. (r + 1) * p = r * p + p
    OBVIOUS
  <2>3. PICK i \in Nat, j \in Nat : i = q * p /\ j = r * p + p
    OBVIOUS
  <2> QED BY <1>2, <2>1, <2>2, <2>3
<1> QED BY <1>1, <1>3

\* The more frequent a symbol the heavier, and the less its price.
LEMMA WeightMonotone ==
  ASSUME NEW m \in Nat, NEW n \in Nat, m <= n, Fits(n), price_frame \in PriceFrames
  PROVE  weight(m) <= weight(n) /\ weight(m) \in Nat /\ weight(n) \in Nat
<1>0. Fits(m)
  BY FitsLess
<1>1. PICK h \in 0..WIDTH, f \in Nat :
        /\ h = highbit(m + 1) /\ Bit[h] <= m + 1 /\ m + 1 < Bit[h + 1]
        /\ weight(m) = h * OPT_PRICE_UNIT + f
        /\ f = IF price_frame.ultra THEN ((m + 1) * OPT_PRICE_UNIT) \div Bit[h] ELSE 0
  BY <1>0, WeightIs
<1>2. PICK k \in 0..WIDTH, g \in Nat :
        /\ k = highbit(n + 1) /\ Bit[k] <= n + 1 /\ n + 1 < Bit[k + 1]
        /\ weight(n) = k * OPT_PRICE_UNIT + g
        /\ g = IF price_frame.ultra THEN ((n + 1) * OPT_PRICE_UNIT) \div Bit[k] ELSE 0
  BY WeightIs
<1>3. PICK u \in Nat \ {0}, p \in Nat \ {0}, q \in Nat \ {0} :
        u = OPT_PRICE_UNIT /\ p = Bit[h] /\ q = Bit[k]
  <2>1. h \in Nat /\ k \in Nat
    BY UnitIs
  <2>2. Bit[h] \in Nat \ {0} /\ OPT_PRICE_UNIT \in Nat \ {0} /\ Bit[k] \in Nat \ {0}
    BY <2>1, UnitIs, BitIs
  <2> QED BY <2>2
<1>4. h \in Nat /\ k \in Nat /\ Bit[h + 1] = 2 * p /\ Bit[k + 1] = 2 * q
  BY <1>3, UnitIs, BitIs
<1>5. h <= k
  <2>1. ASSUME k + 1 <= h PROVE FALSE
    <3>1. Bit[k + 1] <= Bit[h]
      BY <1>4, <2>1, BitMonotone
    <3> QED BY <1>1, <1>2, <1>3, <1>4, <3>1
  <2> QED BY <1>4, <2>1
<1>6. PICK x \in Nat, y \in Nat : x = (m + 1) * u /\ y = (n + 1) * u
  OBVIOUS
<1>7. x <= y
  BY <1>6, TimesMonotone
<1>8. CASE h = k
  <2>1. f <= g
    <3>1. CASE price_frame.ultra
      <4>1. f = x \div p /\ g = y \div p
        BY <1>1, <1>2, <1>3, <1>6, <1>8, <3>1
      <4> QED BY <1>6, <1>7, <4>1, QuotientMonotone
    <3>2. CASE ~price_frame.ultra
      BY <1>1, <1>2, <3>2
    <3> QED BY <3>1, <3>2
  <2>2. PICK a \in Nat : a = h * u
    BY <1>4
  <2>3. weight(m) = a + f /\ weight(n) = a + g
    BY <1>1, <1>2, <1>3, <1>8, <2>2
  <2> QED BY <2>1, <2>3
<1>9. CASE h + 1 <= k
  <2>1. PICK a \in Nat, b \in Nat : a = h * u /\ b = k * u
    BY <1>4
  <2>2. weight(m) = a + f /\ weight(n) = b + g
    BY <1>1, <1>2, <1>3, <2>1
  <2>3. a + u <= b
    <3>1. (h + 1) * u <= k * u
      BY <1>4, <1>9, TimesMonotone
    <3>2. (h + 1) * u = h * u + u
      BY <1>4
    <3> QED BY <2>1, <3>1, <3>2
  <2>4. CASE price_frame.ultra
    <3>1. f = x \div p /\ g = y \div q
      BY <1>1, <1>2, <1>3, <1>6, <2>4
    \* The larger bit outweighs the fraction of the smaller: m + 1 < 2 * p,
    <3>2. f < 2 * u
      <4>1. f * p <= x
        BY <3>1, QuotientIs
      <4>2. x < (2 * u) * p
        <5>1. m + 1 + 1 <= 2 * p
          BY <1>1, <1>4
        <5>2. (m + 1 + 1) * u <= (2 * p) * u
          BY <5>1, TimesMonotone
        <5>3. (m + 1 + 1) * u = x + u /\ (2 * p) * u = (2 * u) * p
          BY <1>6
        <5> QED BY <5>2, <5>3
      <4>3. ASSUME 2 * u <= f PROVE FALSE
        <5>1. (2 * u) * p <= f * p
          BY <4>3, TimesMonotone
        <5>2. PICK i \in Nat, j \in Nat : i = (2 * u) * p /\ j = f * p
          OBVIOUS
        <5> QED BY <4>1, <4>2, <5>1, <5>2
      <4> QED BY <4>3
    \* and q <= n + 1.
    <3>3. u <= g
      <4>1. y < g * q + q
        BY <3>1, QuotientIs
      <4>2. u * q <= y
        <5>1. q * u <= (n + 1) * u
          BY <1>2, <1>3, TimesMonotone
        <5>2. q * u = u * q
          OBVIOUS
        <5> QED BY <1>6, <5>1, <5>2
      <4>3. ASSUME g + 1 <= u PROVE FALSE
        <5>1. (g + 1) * q <= u * q
          BY <4>3, TimesMonotone
        <5>2. (g + 1) * q = g * q + q
          OBVIOUS
        <5>3. PICK i \in Nat, j \in Nat : i = u * q /\ j = g * q + q
          OBVIOUS
        <5> QED BY <4>1, <4>2, <5>1, <5>2, <5>3
      <4> QED BY <4>3
    <3> QED BY <2>2, <2>3, <3>2, <3>3
  <2>5. CASE ~price_frame.ultra
    <3>1. f = 0 /\ g = 0
      BY <1>1, <1>2, <2>5
    <3> QED BY <2>1, <2>2, <2>3, <3>1
  <2> QED BY <2>4, <2>5
<1> QED BY <1>4, <1>5, <1>8, <1>9

\* What occurs at all weighs a unit.
LEMMA WeightOfSome ==
  ASSUME NEW n \in Nat \ {0}, Fits(n), price_frame \in PriceFrames
  PROVE  OPT_PRICE_UNIT <= weight(n)
<1>1. PICK h \in 0..WIDTH, f \in Nat :
        /\ h = highbit(n + 1) /\ Bit[h] <= n + 1 /\ n + 1 < Bit[h + 1]
        /\ weight(n) = h * OPT_PRICE_UNIT + f
  BY WeightIs
<1>2. h # 0
  <2>1. ASSUME h = 0 PROVE FALSE
    <3>1. Bit[0 + 1] = 2 * 1
      BY BitIs
    <3> QED BY <1>1, <2>1, <3>1
  <2> QED BY <2>1
<1>3. PICK u \in Nat : u = OPT_PRICE_UNIT
  BY UnitIs
<1>4. 1 * u <= h * u
  BY <1>1, <1>2, TimesMonotone, UnitIs
<1>5. PICK a \in Nat : a = h * u
  BY <1>1, <1>2, UnitIs
<1> QED BY <1>1, <1>3, <1>4, <1>5

-----------------------------------------------------------------------------
\* What a model starts from.

\* Scaling brings a sum down to its target, give or take one a symbol, and keeps what
\* there is at one.
LEMMA ScaleIs ==
  ASSUME NEW D, IsFiniteSet(D), NEW freq \in [D -> Nat], NEW log \in Nat \ {0}, Fits(Total(freq))
  PROVE  /\ scale_stats(freq, log) \in [D -> Nat]
         /\ Total(scale_stats(freq, log)) <= Cardinality(D) + Bit[log + 1]
         /\ Total(freq) # 0 => Total(scale_stats(freq, log)) # 0
<1>1. PICK T \in Nat, t \in Nat \ {0}, n \in Nat : T = Total(freq) /\ t = Bit[log] /\ n = Cardinality(D)
  <2>1. Total(freq) \in Nat /\ Bit[log] \in Nat \ {0} /\ Cardinality(D) \in Nat
    BY TotalNat, BitIs, FS_CardinalityType
  <2> QED BY <2>1
<1>2. Bit[log + 1] = 2 * t
  BY <1>1, BitIs
<1>3. PICK F \in Nat : F = T \div t /\ F * t <= T /\ T < F * t + t
  BY QuotientIs
<1>4. CASE F <= 1
  <2>1. scale_stats(freq, log) = freq
    BY <1>1, <1>3, <1>4 DEF scale_stats
  <2>2. F * t <= 1 * t
    BY <1>4, TimesMonotone
  <2>3. PICK x \in Nat : x = F * t
    OBVIOUS
  <2>4. T <= n + 2 * t
    BY <1>3, <2>2, <2>3
  <2> QED BY <1>1, <1>2, <2>1, <2>4
<1>5. CASE F > 1
  <2>1. F <= T
    <3>1. 1 * F <= t * F
      BY TimesMonotone
    <3>2. PICK x \in Nat : x = F * t
      OBVIOUS
    <3> QED BY <1>3, <3>1, <3>2
  <2>2. F \in Nat \ {0} /\ F < Bit[WIDTH + 1]
    <3>1. Fits(F)
      BY <1>1, <2>1, FitsLess
    <3> QED BY <1>5, <3>1, FitsHolds
  <2>3. PICK h \in Nat : h = highbit(F) /\ Bit[h] <= F /\ F < Bit[h + 1]
    <3>1. highbit(F) \in 0..WIDTH /\ Bit[highbit(F)] <= F /\ F < Bit[highbit(F) + 1]
      BY <2>2, HighbitIs
    <3>2. highbit(F) \in Nat
      BY <3>1, UnitIs
    <3> QED BY <3>1, <3>2
  <2>4. PICK P \in Nat \ {0} : P = Bit[h] /\ F < 2 * P
    BY <2>3, BitIs
  <2>5. PICK a : a = [s \in D |-> freq[s] \div P]
    OBVIOUS
  <2>6. PICK b : b = [s \in D |-> P * a[s]]
    OBVIOUS
  <2>7. PICK c : c = [s \in D |-> 1 + a[s]]
    OBVIOUS
  <2>8. \A s \in D : freq[s] \in Nat /\ a[s] \in Nat /\ a[s] * P <= freq[s]
    <3>1. ASSUME NEW s \in D PROVE freq[s] \in Nat /\ a[s] \in Nat /\ a[s] * P <= freq[s]
      <4>1. freq[s] \in Nat /\ a[s] = freq[s] \div P
        BY <2>5
      <4> QED BY <4>1, QuotientIs
    <3> QED BY <3>1
  <2>9. a \in [D -> Nat] /\ c \in [D -> Nat]
    BY <2>5, <2>7, <2>8
  <2>10. b \in [D -> Nat] /\ \A s \in D : b[s] <= freq[s]
    <3>1. ASSUME NEW s \in D PROVE b[s] \in Nat /\ b[s] <= freq[s]
      <4>1. PICK x \in Nat : x = a[s]
        BY <2>8
      <4>2. b[s] = P * x /\ x * P <= freq[s] /\ P * x = x * P
        BY <2>6, <2>8, <4>1
      <4> QED BY <4>2
    <3> QED BY <2>6, <3>1
  <2>11. scale_stats(freq, log) = c
    BY <1>1, <1>3, <1>5, <2>3, <2>4, <2>5, <2>7 DEF scale_stats
  <2>12. PICK A \in Nat : A = Total(a)
    BY <2>9, TotalNat
  <2>13. Total(c) = n + A
    <3>1. PICK e \in [D -> Nat] : e = [s \in D |-> 1]
      OBVIOUS
    <3>2. Total(e) = n
      BY <1>1, <3>1, TotalOnes
    <3>3. \A s \in D : c[s] = e[s] + a[s]
      BY <2>7, <2>8, <3>1
    <3>4. Total(c) = Total(e) + Total(a)
      <4>1. IsFiniteSet(D)
        BY <1>1
      <4> HIDE DEF Total
      <4> QED BY <2>9, <3>3, <4>1, TotalOfTwo
    <3> QED BY <2>12, <3>2, <3>4
  <2>14. P * A <= T
    <3>1. PICK z \in [D -> Nat] : z = [s \in D |-> 0]
      OBVIOUS
    <3>2. Total(z) = 0
      BY <3>1, TotalOfNothing
    <3>3. \A s \in D : b[s] = z[s] + P * a[s]
      BY <2>6, <2>8, <3>1
    <3>4. Total(b) = Total(z) + P * Total(a)
      <4>1. z \in [D -> Nat] /\ a \in [D -> Nat] /\ b \in [D -> Nat]
        BY <2>9, <2>10, <3>1
      <4>2. Combined(D, b, z, P, a)
        BY <3>3 DEF Combined
      <4> QED BY <4>1, <4>2, TotalCombined
    <3>5. Total(b) = 0 + P * A
      BY <2>12, <3>2, <3>4
    <3>6. Total(b) <= T
      BY <1>1, <2>10, TotalMonotone
    <3> QED BY <3>5, <3>6
  <2>15. A < 2 * t
    <3>1. ASSUME 2 * t <= A PROVE FALSE
      <4>1. (2 * t) * P <= A * P
        BY <3>1, TimesMonotone
      <4>2. (F + 1) * t <= (2 * P) * t
        BY <2>4, TimesMonotone
      <4>3. (F + 1) * t = F * t + t /\ (2 * P) * t = (2 * t) * P /\ A * P = P * A
        OBVIOUS
      <4>4. PICK x \in Nat, y \in Nat, z \in Nat : x = F * t + t /\ y = (2 * t) * P /\ z = P * A
        OBVIOUS
      <4> QED BY <1>3, <2>14, <4>1, <4>2, <4>3, <4>4
    <3> QED BY <3>1
  <2>16. Total(c) <= n + 2 * t
    BY <2>13, <2>15
  <2>17. T # 0 => Total(c) # 0
    <3>1. ASSUME T # 0 PROVE n # 0
      <4>1. PICK d \in D : freq[d] # 0
        BY <1>1, <3>1, TotalOfSomething
      <4> QED BY <1>1, <4>1, FS_EmptySet
    <3> QED BY <2>13, <3>1
  <2> QED BY <1>1, <1>2, <2>9, <2>11, <2>16, <2>17
<1> QED BY <1>4, <1>5

\* A seed gives each symbol at least one, and at most half of its target.
LEMMA SeedIs ==
  ASSUME NEW D, IsFiniteSet(D), NEW bits \in [D -> Nat], NEW log \in Nat \ {0}
  PROVE  /\ optimal_price_seed(bits, log - 1) \in [D -> Nat]
         /\ Total(optimal_price_seed(bits, log - 1)) <= Cardinality(D) * Bit[log - 1]
         /\ D # {} => Total(optimal_price_seed(bits, log - 1)) # 0
<1>1. PICK scale \in Nat : scale = log - 1
  BY SMT
<1>2. PICK a : a = optimal_price_seed(bits, scale)
  OBVIOUS
<1>3. Bit[scale] \in Nat /\ 1 <= Bit[scale]
  BY BitIs
<1>4. ASSUME NEW s \in D PROVE a[s] \in Nat /\ 1 <= a[s] /\ a[s] <= Bit[scale]
  <2>1. a[s] = IF bits[s] > 0 THEN Bit[IF bits[s] > scale THEN 0 ELSE scale - bits[s]] ELSE 1
    BY <1>2 DEF optimal_price_seed
  <2>2. CASE bits[s] > 0
    <3>1. PICK k \in Nat : k = (IF bits[s] > scale THEN 0 ELSE scale - bits[s]) /\ k <= scale
      OBVIOUS
    <3>2. a[s] = Bit[k]
      BY <2>1, <2>2, <3>1
    <3> QED BY <3>1, <3>2, BitIs, BitMonotone
  <2>3. CASE ~(bits[s] > 0)
    BY <1>3, <2>1, <2>3
  <2> QED BY <2>2, <2>3
<1>5. a \in [D -> Nat]
  <2>1. a = [s \in D |-> a[s]]
    BY <1>2 DEF optimal_price_seed
  <2> QED BY <1>4, <2>1
<1>6. Total(a) <= Cardinality(D) * Bit[scale]
  BY <1>3, <1>4, <1>5, TotalAtMost
<1>7. ASSUME D # {} PROVE Total(a) # 0
  <2>1. PICK d \in D : 1 <= a[d]
    BY <1>4, <1>7
  <2>2. a[d] <= Total(a) /\ Total(a) \in Nat /\ a[d] \in Nat
    BY <1>5, PartOfTotal, TotalNat
  <2> QED BY <2>1, <2>2
<1> QED BY <1>1, <1>2, <1>5, <1>6, <1>7

\* A block's own bytes count for at most what they are and one more each, and for something.
LEMMA CountIs ==
  ASSUME price_frame \in PriceFrames, NEW block \in PricedBlocks, NEW type
  PROVE  /\ CountBytes(block, type) \in [PricedBytes -> Nat]
         /\ Total(CountBytes(block, type)) <= Cardinality(PricedBytes) + Total(block)
         /\ price_frame.compressed /\ Total(block) # 0 => Total(CountBytes(block, type)) # 0
<1>1. IsFiniteSet(PricedBytes) /\ block \in [PricedBytes -> Nat]
  BY PriceAssumption
<1>2. PICK c : c = CountBytes(block, type)
  OBVIOUS
<1>3. PICK e \in [PricedBytes -> Nat] : e = [b \in PricedBytes |-> 1]
  OBVIOUS
<1>4. PICK d \in [PricedBytes -> Nat] : d = [b \in PricedBytes |-> e[b] + block[b]]
  <2>1. \A b \in PricedBytes : e[b] + block[b] \in Nat
    BY <1>1, <1>3
  <2> QED BY <2>1
<1>5. ASSUME NEW b \in PricedBytes
      PROVE  /\ c[b] \in Nat /\ c[b] <= d[b]
             /\ price_frame.compressed /\ block[b] # 0 => c[b] # 0
  <2>1. PICK n \in Nat : n = block[b]
    BY <1>1
  <2>2. n \div 256 \in Nat /\ n \div 256 <= n
    OBVIOUS
  <2>3. d[b] = 1 + n
    BY <1>3, <1>4, <2>1
  <2>4. c[b] = IF n # 0 /\ price_frame.compressed THEN 1 + (n \div 256) ELSE 0
    BY <1>2, <2>1 DEF CountBytes
  <2> QED BY <2>1, <2>2, <2>3, <2>4
<1>6. c \in [PricedBytes -> Nat]
  <2>1. c = [b \in PricedBytes |-> c[b]]
    BY <1>2 DEF CountBytes
  <2> QED BY <1>5, <2>1
<1>7. Total(d) = Cardinality(PricedBytes) + Total(block)
  <2>1. \A b \in PricedBytes : d[b] = e[b] + 1 * block[b]
    BY <1>1, <1>3, <1>4
  <2>2. Total(d) = Total(e) + 1 * Total(block)
    BY <1>1, <2>1, TotalLinear
  <2>3. Total(e) = Cardinality(PricedBytes) /\ Total(block) \in Nat
    BY <1>1, <1>3, TotalOnes, TotalNat
  <2> QED BY <2>2, <2>3
<1>8. Total(c) <= Total(d)
  BY <1>1, <1>5, <1>6, TotalMonotone
<1>9. ASSUME price_frame.compressed, Total(block) # 0 PROVE Total(c) # 0
  <2>1. PICK b \in PricedBytes : block[b] # 0
    BY <1>1, <1>9, TotalOfSomething
  <2>2. c[b] # 0 /\ c[b] \in Nat
    BY <1>5, <1>9, <2>1
  <2>3. c[b] <= Total(c) /\ Total(c) \in Nat
    BY <1>1, <1>6, PartOfTotal, TotalNat
  <2> QED BY <2>2, <2>3
<1> QED BY <1>2, <1>6, <1>7, <1>8, <1>9

-----------------------------------------------------------------------------
\* The invariant.

Model(type, lit_freq, lit_sum, code_freq, code_sum, lit_base, code_base, by_code) ==
  [type |-> type, lit_freq |-> lit_freq, lit_sum |-> lit_sum, code_freq |-> code_freq,
   code_sum |-> code_sum, lit_base |-> lit_base, code_base |-> code_base, by_code |-> by_code]

\* A model's counts, sums, bases and cached prices go together.
Sound(m) ==
  /\ m = Model(m.type, m.lit_freq, m.lit_sum, m.code_freq, m.code_sum,
               m.lit_base, m.code_base, m.by_code)
  /\ m.lit_freq \in [PricedBytes -> Nat] /\ m.lit_sum = Total(m.lit_freq)
  /\ m.code_freq \in [PricedCodes -> Nat] /\ m.code_sum = Total(m.code_freq)
  /\ m.code_base = weight(m.code_sum)
  /\ price_frame.compressed => m.lit_sum # 0 /\ m.lit_base = weight(m.lit_sum)
  /\ m.type # "Predefined" =>
       m.by_code = [c \in PricedCodes |-> weight(m.code_sum) - weight(m.code_freq[c])]

\* The rest of the block, all of it literals, keeps the sums within the word.
Room(m, rest) ==
  /\ Fits(m.lit_sum + OPT_LITERAL_FREQ_ADD * Total(rest))
  /\ Fits(m.code_sum + Total(rest))

\* What is handed on may be scaled, and has counted the literals if they are coded.
Kept(stats) ==
  /\ stats.lit_freq \in [PricedBytes -> Nat] /\ stats.code_freq \in [PricedCodes -> Nat]
  /\ Fits(Total(stats.lit_freq)) /\ Fits(Total(stats.code_freq))
  /\ price_frame.compressed => Total(stats.lit_freq) # 0

PriceInv ==
  /\ price_frame \in PriceFrames /\ left \in [PricedBytes -> Nat]
  /\ pass \in {"count", "again", "plan"}
  /\ pass # "plan" => counted \in PricedBlocks
  /\ opt_price_state # NoStats => Kept(opt_price_state)
  /\ price_model # NoModel => Sound(price_model) /\ Room(price_model, left)

\* Setting the bases makes a model of counts and sums sound.
LEMMA BasesMakeSound ==
  ASSUME NEW m, price_frame \in PriceFrames,
         m = Model(m.type, m.lit_freq, m.lit_sum, m.code_freq, m.code_sum,
                   m.lit_base, m.code_base, m.by_code),
         m.lit_freq \in [PricedBytes -> Nat], m.lit_sum = Total(m.lit_freq),
         m.code_freq \in [PricedCodes -> Nat], m.code_sum = Total(m.code_freq),
         price_frame.compressed => m.lit_sum # 0
  PROVE  /\ Sound(set_base_prices(m))
         /\ set_base_prices(m).lit_sum = m.lit_sum /\ set_base_prices(m).code_sum = m.code_sum
<1>1. PICK n : n = set_base_prices(m)
  OBVIOUS
<1>2. PICK prices : prices = [c \in PricedCodes |-> weight(m.code_sum) - weight(m.code_freq[c])]
  OBVIOUS
<1>3. n = Model(m.type, m.lit_freq, m.lit_sum, m.code_freq, m.code_sum,
                IF price_frame.compressed THEN weight(m.lit_sum) ELSE m.lit_base,
                weight(m.code_sum),
                IF m.type = "Predefined" THEN m.by_code ELSE prices)
  BY <1>1, <1>2 DEF set_base_prices, Model
<1>4. /\ n.type = m.type /\ n.lit_freq = m.lit_freq /\ n.lit_sum = m.lit_sum
      /\ n.code_freq = m.code_freq /\ n.code_sum = m.code_sum
      /\ n.lit_base = IF price_frame.compressed THEN weight(m.lit_sum) ELSE m.lit_base
      /\ n.code_base = weight(m.code_sum)
      /\ n.by_code = IF m.type = "Predefined" THEN m.by_code ELSE prices
      /\ n = Model(n.type, n.lit_freq, n.lit_sum, n.code_freq, n.code_sum,
                   n.lit_base, n.code_base, n.by_code)
  BY <1>3 DEF Model
<1>5. Sound(n)
  BY <1>2, <1>4 DEF Sound
<1> QED BY <1>1, <1>4, <1>5

\* So does making one from counts that add up.
LEMMA MadeIsSound ==
  ASSUME price_frame \in PriceFrames, NEW type, NEW lits \in [PricedBytes -> Nat],
         NEW codes \in [PricedCodes -> Nat], price_frame.compressed => Total(lits) # 0,
         NEW made, made = Made(type, [lit_freq |-> lits, lit_sum |-> Total(lits),
                                      code_freq |-> codes, code_sum |-> Total(codes)])
  PROVE  Sound(made) /\ made.lit_sum = Total(lits) /\ made.code_sum = Total(codes)
<1>1. PICK m : m = Model(type, lits, Total(lits), codes, Total(codes), 0, 0, Unpriced)
  OBVIOUS
<1>2. /\ m = Model(m.type, m.lit_freq, m.lit_sum, m.code_freq, m.code_sum,
                   m.lit_base, m.code_base, m.by_code)
      /\ m.lit_freq = lits /\ m.lit_sum = Total(lits)
      /\ m.code_freq = codes /\ m.code_sum = Total(codes)
  BY <1>1 DEF Model
<1>3. made = set_base_prices(m)
  BY <1>1 DEF Made, Model
<1> QED BY <1>2, <1>3, BasesMakeSound

\* Whatever a block starts from, its model is sound and has room for the block.
LEMMA BeginIsSound ==
  ASSUME PriceInv, NEW block \in PricedBlocks, Total(block) >= PARSED_MIN, NEW made,
         made = IF opt_price_state # NoStats THEN FromState(opt_price_state)
                ELSE IF price_frame.seed # NoStats THEN FromSeed(price_frame.seed)
                ELSE FromBlock(block)
  PROVE  Sound(made) /\ Room(made, block)
<1>1. /\ IsFiniteSet(PricedBytes) /\ IsFiniteSet(PricedCodes) /\ block \in [PricedBytes -> Nat]
      /\ BaseFrequencies \in [PricedCodes -> Nat] /\ price_frame \in PriceFrames
      /\ LITERAL_TARGET_LOG \in Nat \ {0} /\ CODE_TARGET_LOG \in Nat \ {0}
      /\ OPT_LITERAL_FREQ_ADD \in Nat /\ PARSED_MIN \in Nat \ {0}
  BY PriceAssumption DEF PriceInv
<1>2. PICK size \in Nat, add \in Nat : size = Total(block) /\ add = OPT_LITERAL_FREQ_ADD * size
  <2>1. Total(block) \in Nat
    BY <1>1, TotalNat
  <2>2. PICK size \in Nat : size = Total(block)
    BY <2>1
  <2>3. OPT_LITERAL_FREQ_ADD * size \in Nat
    BY <1>1
  <2> QED BY <2>2, <2>3
<1>3. size # 0
  BY <1>1, <1>2
<1>4. ASSUME NEW lits \in [PricedBytes -> Nat], NEW codes \in [PricedCodes -> Nat], NEW type,
             NEW i \in Starts(PricedBytes, LITERAL_TARGET_LOG, Cardinality(PricedBytes) + Total(block)),
             NEW j \in Starts(PricedCodes, CODE_TARGET_LOG, Total(BaseFrequencies)),
             i \in Nat, j \in Nat, Total(lits) <= i, Total(codes) <= j,
             price_frame.compressed => Total(lits) # 0,
             made = Made(type, [lit_freq |-> lits, lit_sum |-> Total(lits),
                                code_freq |-> codes, code_sum |-> Total(codes)])
      PROVE  Sound(made) /\ Room(made, block)
  <2>1. Sound(made) /\ made.lit_sum = Total(lits) /\ made.code_sum = Total(codes)
    BY <1>1, <1>4, MadeIsSound
  <2>2. Fits(i + add) /\ Fits(j + size)
    BY <1>2, <1>4, WidthAssumption
  <2>3. PICK l \in Nat, c \in Nat : l = Total(lits) /\ c = Total(codes)
    <3>1. Total(lits) \in Nat /\ Total(codes) \in Nat
      BY <1>1, TotalNat
    <3> QED BY <3>1
  <2>4. l + add <= i + add /\ c + size <= j + size
    BY <1>4, <2>3
  <2>5. Fits(l + add) /\ Fits(c + size)
    BY <1>4, <2>2, <2>4, FitsLess
  <2> QED BY <1>2, <2>1, <2>3, <2>5 DEF Room
<1>5. PICK n \in Nat, m \in Nat : n = Cardinality(PricedBytes) /\ m = Cardinality(PricedCodes)
  BY <1>1, FS_CardinalityType
<1>6. CASE opt_price_state # NoStats
  <2>1. PICK lits, codes : /\ lits = scale_stats(opt_price_state.lit_freq, LITERAL_TARGET_LOG)
                           /\ codes = scale_stats(opt_price_state.code_freq, CODE_TARGET_LOG)
    OBVIOUS
  <2>2. Kept(opt_price_state)
    BY <1>6 DEF PriceInv
  <2>3. PICK i \in Nat, j \in Nat : /\ i = n + Bit[LITERAL_TARGET_LOG + 1]
                                    /\ j = m + Bit[CODE_TARGET_LOG + 1]
    <3>1. Bit[LITERAL_TARGET_LOG + 1] \in Nat /\ Bit[CODE_TARGET_LOG + 1] \in Nat
      BY <1>1, BitIs
    <3> QED BY <3>1
  <2>4. /\ lits \in [PricedBytes -> Nat] /\ Total(lits) <= i
        /\ price_frame.compressed => Total(lits) # 0
    BY <1>1, <1>5, <2>1, <2>2, <2>3, ScaleIs DEF Kept
  <2>5. codes \in [PricedCodes -> Nat] /\ Total(codes) <= j
    BY <1>1, <1>5, <2>1, <2>2, <2>3, ScaleIs DEF Kept
  <2>6. made = Made("Dynamic", [lit_freq |-> lits, lit_sum |-> Total(lits),
                                code_freq |-> codes, code_sum |-> Total(codes)])
    BY <1>6, <2>1 DEF FromState
  <2>7. /\ i \in Starts(PricedBytes, LITERAL_TARGET_LOG, Cardinality(PricedBytes) + Total(block))
        /\ j \in Starts(PricedCodes, CODE_TARGET_LOG, Total(BaseFrequencies))
    BY <1>5, <2>3 DEF Starts
  <2> QED BY <1>4, <2>3, <2>4, <2>5, <2>6, <2>7
<1>7. CASE opt_price_state = NoStats /\ price_frame.seed # NoStats
  <2>1. PICK codes : codes = optimal_price_seed(price_frame.seed.codes, CODE_TARGET_LOG - 1)
    OBVIOUS
  <2>2. PICK lits : lits = IF price_frame.compressed
                           THEN optimal_price_seed(price_frame.seed.huffman, LITERAL_TARGET_LOG - 1)
                           ELSE NoLiterals
    OBVIOUS
  <2>3. /\ price_frame.seed.huffman \in [PricedBytes -> Nat]
        /\ price_frame.seed.codes \in [PricedCodes -> Nat]
    BY <1>1, <1>7, PriceAssumption
  <2>4. PICK i \in Nat, j \in Nat : /\ i = Cardinality(PricedBytes) * Bit[LITERAL_TARGET_LOG - 1]
                                    /\ j = Cardinality(PricedCodes) * Bit[CODE_TARGET_LOG - 1]
    <3>1. LITERAL_TARGET_LOG - 1 \in Nat /\ CODE_TARGET_LOG - 1 \in Nat
      BY <1>1
    <3>2. PICK x \in Nat, y \in Nat : /\ x = Bit[LITERAL_TARGET_LOG - 1]
                                      /\ y = Bit[CODE_TARGET_LOG - 1]
      BY <3>1, BitIs
    <3>3. n * x \in Nat /\ m * y \in Nat
      OBVIOUS
    <3> QED BY <1>5, <3>2, <3>3
  <2>5. PricedBytes # {}
    <3>1. \E b \in PricedBytes : block[b] # 0
      BY <1>1, <1>2, <1>3, TotalOfSomething
    <3> QED BY <3>1
  <2>6. /\ lits \in [PricedBytes -> Nat] /\ Total(lits) <= i
        /\ price_frame.compressed => Total(lits) # 0
    <3>1. CASE price_frame.compressed
      BY <1>1, <2>2, <2>3, <2>4, <2>5, <3>1, SeedIs
    <3>2. CASE ~price_frame.compressed
      <4>1. lits = [b \in PricedBytes |-> 0]
        BY <2>2, <3>2 DEF NoLiterals
      <4>2. Total(lits) = 0 /\ lits \in [PricedBytes -> Nat]
        BY <1>1, <4>1, TotalOfNothing
      <4> QED BY <2>4, <3>2, <4>2
    <3> QED BY <3>1, <3>2
  <2>7. codes \in [PricedCodes -> Nat] /\ Total(codes) <= j
    BY <1>1, <2>1, <2>3, <2>4, SeedIs
  <2>8. made = Made("Dynamic", [lit_freq |-> lits, lit_sum |-> Total(lits),
                                code_freq |-> codes, code_sum |-> Total(codes)])
    BY <1>7, <2>1, <2>2 DEF FromSeed
  <2>9. /\ i \in Starts(PricedBytes, LITERAL_TARGET_LOG, Cardinality(PricedBytes) + Total(block))
        /\ j \in Starts(PricedCodes, CODE_TARGET_LOG, Total(BaseFrequencies))
    BY <2>4 DEF Starts
  <2> QED BY <1>4, <2>4, <2>6, <2>7, <2>8, <2>9
<1>8. CASE opt_price_state = NoStats /\ price_frame.seed = NoStats
  <2>1. PICK type : type = IF Total(block) <= OPT_PREDEFINED_THRESHOLD THEN "Predefined" ELSE "Dynamic"
    OBVIOUS
  <2>2. PICK lits : lits = CountBytes(block, type)
    OBVIOUS
  <2>3. PICK i \in Nat, j \in Nat : i = n + size /\ j = Total(BaseFrequencies)
    <3>1. Total(BaseFrequencies) \in Nat
      BY <1>1, TotalNat
    <3> QED BY <3>1
  <2>4. /\ lits \in [PricedBytes -> Nat] /\ Total(lits) <= i
        /\ price_frame.compressed => Total(lits) # 0
    BY <1>1, <1>2, <1>3, <1>5, <2>2, <2>3, CountIs
  <2>5. made = Made(type, [lit_freq |-> lits, lit_sum |-> Total(lits),
                           code_freq |-> BaseFrequencies, code_sum |-> Total(BaseFrequencies)])
    BY <1>8, <2>1, <2>2 DEF FromBlock
  <2>6. /\ i \in Starts(PricedBytes, LITERAL_TARGET_LOG, Cardinality(PricedBytes) + Total(block))
        /\ j \in Starts(PricedCodes, CODE_TARGET_LOG, Total(BaseFrequencies))
    BY <1>2, <1>5, <2>3 DEF Starts
  <2>7. Total(BaseFrequencies) <= j
    BY <2>3
  <2> QED BY <1>1, <1>4, <2>3, <2>4, <2>5, <2>6, <2>7
<1> QED BY <1>6, <1>7, <1>8

\* A step within a frame does not change what a model means.
LEMMA SoundStays ==
  ASSUME price_frame' = price_frame, Sound(price_model'), Room(price_model', left')
  PROVE  (Sound(price_model) /\ Room(price_model, left))'
<1>1. \A n : weight(n)' = weight(n)
  BY DEF weight
<1> QED BY <1>1 DEF Sound, Room

\* A model with other counts.
Updated(m, f, s, g, t) ==
  [m EXCEPT !.lit_freq = f, !.lit_sum = s, !.code_freq = g, !.code_sum = t]

\* Its other fields are what they were.
LEMMA ModelUpdated ==
  ASSUME NEW type, NEW lf, NEW ls, NEW cf, NEW cs, NEW lb, NEW cb, NEW bc,
         NEW f, NEW s, NEW g, NEW t, NEW m, m = Model(type, lf, ls, cf, cs, lb, cb, bc)
  PROVE  Updated(m, f, s, g, t) = Model(type, f, s, g, t, lb, cb, bc)
<1>1. PICK a : a = [m EXCEPT !.lit_freq = f]
  OBVIOUS
<1>2. a = Model(type, f, ls, cf, cs, lb, cb, bc)
  BY <1>1 DEF Model
<1>3. PICK b : b = [a EXCEPT !.lit_sum = s]
  OBVIOUS
<1>4. b = Model(type, f, s, cf, cs, lb, cb, bc)
  BY <1>2, <1>3 DEF Model
<1>5. PICK c : c = [b EXCEPT !.code_freq = g]
  OBVIOUS
<1>6. c = Model(type, f, s, g, cs, lb, cb, bc)
  BY <1>4, <1>5 DEF Model
<1>7. [c EXCEPT !.code_sum = t] = Model(type, f, s, g, t, lb, cb, bc)
  BY <1>6 DEF Model
<1>8. Updated(m, f, s, g, t) = [c EXCEPT !.code_sum = t]
  BY <1>1, <1>3, <1>5 DEF Updated
<1> QED BY <1>7, <1>8

\* A sequence's literals and its code, counted: sound still, and with room for the rest.
LEMMA EmitIsSound ==
  ASSUME PriceInv, NEW m, Sound(m), Room(m, left),
         NEW literals \in [PricedBytes -> LiteralRuns], NEW matched \in PricedBytes,
         NEW code \in PricedCodes, \A b \in PricedBytes : literals[b] <= left[b],
         left[matched] - literals[matched] >= PARSED_MIN,
         NEW rest, rest = [b \in PricedBytes |->
                             left[b] - literals[b] - (IF b = matched THEN PARSED_MIN ELSE 0)]
  PROVE  /\ rest \in [PricedBytes -> Nat]
         /\ Sound(update_stats(m, literals, code)) /\ Room(update_stats(m, literals, code), rest)
<1>1. /\ IsFiniteSet(PricedBytes) /\ IsFiniteSet(PricedCodes)
      /\ literals \in [PricedBytes -> Nat] /\ left \in [PricedBytes -> Nat]
      /\ price_frame \in PriceFrames
  BY PriceAssumption DEF PriceInv
<1>2. PICK min \in Nat \ {0}, k \in Nat : min = PARSED_MIN /\ k = OPT_LITERAL_FREQ_ADD
  BY PriceAssumption
<1>3. PICK point : point = [b \in PricedBytes |-> IF b = matched THEN min ELSE 0]
  OBVIOUS
<1>4. /\ rest \in [PricedBytes -> Nat] /\ point \in [PricedBytes -> Nat]
      /\ \A b \in PricedBytes : left[b] = (rest[b] + literals[b]) + point[b]
  <2>1. ASSUME NEW b \in PricedBytes
        PROVE  /\ rest[b] \in Nat /\ point[b] \in Nat
               /\ left[b] = (rest[b] + literals[b]) + point[b]
    <3>1. PICK x \in Nat, y \in Nat : x = left[b] /\ y = literals[b] /\ y <= x
      BY <1>1
    <3>2. CASE b = matched
      <4>1. x - y >= min
        BY <1>2, <3>1, <3>2
      <4>2. rest[b] = x - y - min /\ point[b] = min
        BY <1>2, <1>3, <3>1, <3>2
      <4> QED BY <3>1, <4>1, <4>2
    <3>3. CASE b # matched
      <4>1. rest[b] = x - y - 0 /\ point[b] = 0
        BY <1>3, <3>1, <3>3
      <4> QED BY <3>1, <4>1
    <3> QED BY <3>2, <3>3
  <2>2. rest = [b \in PricedBytes |-> rest[b]] /\ point = [b \in PricedBytes |-> point[b]]
    BY <1>3
  <2> QED BY <2>1, <2>2
<1>5. PICK R \in Nat, L \in Nat, W \in Nat : R = Total(rest) /\ L = Total(literals) /\ W = Total(left)
  <2>1. Total(rest) \in Nat /\ Total(literals) \in Nat /\ Total(left) \in Nat
    BY <1>1, <1>4, TotalNat
  <2> QED BY <2>1
<1>6. W = R + L + min
  <2>1. PICK both : both = [b \in PricedBytes |-> rest[b] + literals[b]]
    OBVIOUS
  <2>2. both \in [PricedBytes -> Nat] /\ \A b \in PricedBytes : both[b] = rest[b] + 1 * literals[b]
    <3>1. ASSUME NEW b \in PricedBytes PROVE both[b] \in Nat /\ both[b] = rest[b] + 1 * literals[b]
      <4>1. rest[b] \in Nat /\ literals[b] \in Nat /\ both[b] = rest[b] + literals[b]
        BY <1>1, <1>4, <2>1
      <4> QED BY <4>1
    <3> QED BY <2>1, <3>1
  <2>3. Total(both) = Total(rest) + 1 * Total(literals)
    <3>1. /\ rest \in [PricedBytes -> Nat] /\ literals \in [PricedBytes -> Nat]
          /\ both \in [PricedBytes -> Nat] /\ IsFiniteSet(PricedBytes)
      BY <1>1, <1>4, <2>2
    <3>2. \A b \in PricedBytes : both[b] = rest[b] + literals[b]
      BY <2>1
    <3> QED BY <1>5, <3>1, <3>2, TotalOfTwo
  <2>4. \A b \in PricedBytes : left[b] = both[b] + 1 * point[b]
    <3>1. ASSUME NEW b \in PricedBytes PROVE left[b] = both[b] + 1 * point[b]
      <4>1. left[b] = both[b] + point[b] /\ point[b] \in Nat
        BY <1>4, <2>1
      <4> QED BY <4>1
    <3> QED BY <3>1
  <2>5. Total(left) = Total(both) + 1 * Total(point)
    <3>1. /\ left \in [PricedBytes -> Nat] /\ point \in [PricedBytes -> Nat]
          /\ both \in [PricedBytes -> Nat] /\ IsFiniteSet(PricedBytes)
      BY <1>1, <1>4, <2>2
    <3>2. \A b \in PricedBytes : left[b] = both[b] + point[b]
      BY <1>4, <2>1
    <3>3. Total(left) = Total(both) + Total(point)
      BY <3>1, <3>2, TotalOfTwo
    <3>4. Total(both) \in Nat /\ Total(point) \in Nat
      BY <3>1, TotalNat
    <3> QED BY <3>3, <3>4
  <2>6. Total(point) = min
    BY <1>1, <1>3, TotalPoint
  <2> QED BY <1>5, <2>3, <2>5, <2>6
<1>7. PICK lits : lits = IF price_frame.compressed
                         THEN [b \in PricedBytes |-> m.lit_freq[b] + k * literals[b]]
                         ELSE m.lit_freq
  OBVIOUS
<1>8. PICK codes : codes = [m.code_freq EXCEPT ![code] = @ + 1]
  OBVIOUS
<1>9. PICK l \in Nat, c \in Nat : /\ l = Total(m.lit_freq) /\ l = m.lit_sum
                                  /\ c = Total(m.code_freq) /\ c = m.code_sum
  <2>1. Total(m.lit_freq) \in Nat /\ Total(m.code_freq) \in Nat
    BY <1>1, TotalNat DEF Sound
  <2> QED BY <2>1 DEF Sound
<1>10. /\ lits \in [PricedBytes -> Nat]
       /\ \E n \in Nat : Total(lits) = n /\ l <= n /\ n <= l + k * L
  <2>1. k * L \in Nat /\ m.lit_freq \in [PricedBytes -> Nat]
    BY DEF Sound
  <2>2. CASE ~price_frame.compressed
    <3>1. lits = m.lit_freq
      BY <1>7, <2>2
    <3>2. l <= l /\ l <= l + k * L
      BY <2>1
    <3> QED BY <1>9, <2>1, <3>1, <3>2
  <2>3. CASE price_frame.compressed
    <3>1. PICK f \in [PricedBytes -> Nat] : f = m.lit_freq
      BY <2>1
    <3>2. ASSUME NEW b \in PricedBytes PROVE lits[b] \in Nat /\ lits[b] = f[b] + k * literals[b]
      <4>1. PICK x \in Nat, y \in Nat : x = f[b] /\ y = literals[b]
        BY <1>1, <3>1
      <4>2. lits[b] = x + k * y
        BY <1>7, <2>3, <3>1, <4>1
      <4> QED BY <4>1, <4>2
    <3>3. lits \in [PricedBytes -> Nat]
      <4>1. lits = [b \in PricedBytes |-> lits[b]]
        BY <1>7, <2>3
      <4> QED BY <3>2, <4>1
    <3>4. Total(lits) = Total(f) + k * Total(literals)
      <4>1. /\ f \in [PricedBytes -> Nat] /\ literals \in [PricedBytes -> Nat]
            /\ lits \in [PricedBytes -> Nat] /\ IsFiniteSet(PricedBytes)
        BY <1>1, <3>1, <3>3
      <4>2. Combined(PricedBytes, lits, f, k, literals)
        BY <3>2 DEF Combined
      <4> QED BY <4>1, <4>2, TotalCombined
    <3>5. Total(lits) = l + k * L
      BY <1>5, <1>9, <3>1, <3>4
    <3>6. PICK x \in Nat : x = k * L
      BY <2>1
    <3> QED BY <3>3, <3>5, <3>6
  <2> QED BY <2>2, <2>3
<1>11. codes \in [PricedCodes -> Nat] /\ Total(codes) = c + 1
  <2>1. m.code_freq \in [PricedCodes -> Nat]
    BY DEF Sound
  <2>2. codes \in [PricedCodes -> Nat]
    BY <1>8, <2>1
  <2>3. Total(codes) = Total(m.code_freq) + 1
    BY <1>1, <1>8, <2>1, TotalOfOneMore
  <2> QED BY <1>9, <2>2, <2>3
<1>12. PICK n \in Nat : Total(lits) = n /\ l <= n /\ n <= l + k * L
  BY <1>10
<1>13. PICK raw : raw = Model(m.type, lits, n, codes, c + 1, m.lit_base, m.code_base, m.by_code)
  OBVIOUS
<1>14. update_stats(m, literals, code) = set_base_prices(raw)
  <2>1. raw = Updated(m, lits, m.lit_sum + Total(lits) - Total(m.lit_freq),
                      codes, m.code_sum + 1)
    <3>1. l + n - l = n
      OBVIOUS
    <3>2. m.lit_sum + Total(lits) - Total(m.lit_freq) = n /\ m.code_sum + 1 = c + 1
      BY <1>9, <1>12, <3>1
    <3>3. m = Model(m.type, m.lit_freq, m.lit_sum, m.code_freq, m.code_sum,
                    m.lit_base, m.code_base, m.by_code)
      BY DEF Sound
    <3>4. ASSUME NEW s, NEW t
          PROVE  Updated(m, lits, s, codes, t)
                   = Model(m.type, lits, s, codes, t, m.lit_base, m.code_base, m.by_code)
      <4>1. PICK type, lf, ls, cf, cs, lb, cb, bc :
              /\ type = m.type /\ lf = m.lit_freq /\ ls = m.lit_sum /\ cf = m.code_freq
              /\ cs = m.code_sum /\ lb = m.lit_base /\ cb = m.code_base /\ bc = m.by_code
        OBVIOUS
      <4>2. m = Model(type, lf, ls, cf, cs, lb, cb, bc)
        BY <3>3, <4>1
      <4>3. Updated(m, lits, s, codes, t) = Model(type, lits, s, codes, t, lb, cb, bc)
        BY <4>2, ModelUpdated
      <4> QED BY <4>1, <4>3
    <3> QED BY <1>13, <3>2, <3>4
  <2> QED BY <1>2, <1>7, <1>8, <2>1 DEF update_stats, Updated
<1>15. /\ raw = Model(raw.type, raw.lit_freq, raw.lit_sum, raw.code_freq, raw.code_sum,
                      raw.lit_base, raw.code_base, raw.by_code)
       /\ raw.lit_freq = lits /\ raw.lit_sum = n /\ raw.code_freq = codes /\ raw.code_sum = c + 1
  BY <1>13 DEF Model
<1>16. price_frame.compressed => n # 0
  BY <1>9, <1>12 DEF Sound
<1>17. /\ Sound(set_base_prices(raw)) /\ set_base_prices(raw).lit_sum = n
       /\ set_base_prices(raw).code_sum = c + 1
  BY <1>1, <1>10, <1>11, <1>12, <1>15, <1>16, BasesMakeSound
<1>18. Fits(n + k * R) /\ Fits((c + 1) + R)
  <2>1. Fits(l + k * W) /\ Fits(c + W)
    BY <1>2, <1>5, <1>9 DEF Room
  <2>2. n + k * R \in Nat /\ l + k * W \in Nat /\ n + k * R <= l + k * W
    <3>1. (R + L) * k <= W * k
      BY <1>6, TimesMonotone
    <3>2. (R + L) * k = k * R + k * L /\ W * k = k * W
      OBVIOUS
    <3>3. PICK x \in Nat, y \in Nat, z \in Nat : x = k * R /\ y = k * L /\ z = k * W
      OBVIOUS
    <3> QED BY <1>12, <3>1, <3>2, <3>3
  <2>3. (c + 1) + R <= c + W
    BY <1>6
  <2> QED BY <2>1, <2>2, <2>3, FitsLess
<1> QED BY <1>2, <1>4, <1>5, <1>14, <1>17, <1>18 DEF Room

\* A frame starts without statistics.
LEMMA PriceInitial == PriceInit => PriceInv
<1> SUFFICES ASSUME PriceInit PROVE PriceInv
  OBVIOUS
<1>1. left \in [PricedBytes -> Nat]
  BY DEF PriceInit, NoLiterals
<1> QED BY <1>1 DEF PriceInit, PriceInv

\* Each step of a block's life keeps its model sound and within the word.
LEMMA PriceStep == PriceInv /\ [PriceNext]_priceVars => PriceInv'
<1> SUFFICES ASSUME PriceInv, [PriceNext]_priceVars PROVE PriceInv'
  OBVIOUS
<1>1. CASE BeginParse
  <2>1. PICK block \in IF pass = "again" THEN {counted} ELSE PricedBlocks :
          /\ Total(block) >= PARSED_MIN
          /\ IF /\ price_frame.twice /\ priced = 0 /\ pass # "again"
                /\ Total(block) > OPT_PREDEFINED_THRESHOLD
             THEN pass' = "count" /\ counted' = block
             ELSE pass' = "plan" /\ counted' = NoLiterals
          /\ left' = block
          /\ price_model' = IF opt_price_state # NoStats THEN FromState(opt_price_state)
                            ELSE IF price_frame.seed # NoStats THEN FromSeed(price_frame.seed)
                            ELSE FromBlock(block)
    BY <1>1 DEF BeginParse
  <2>2. block \in PricedBlocks /\ block \in [PricedBytes -> Nat]
    BY <2>1, PriceAssumption DEF PriceInv
  <2>3. opt_price_state' = NoStats /\ price_frame' = price_frame
    BY <1>1 DEF BeginParse
  <2>4. Sound(price_model') /\ Room(price_model', left')
    BY <2>1, <2>2, BeginIsSound
  <2>5. (Sound(price_model) /\ Room(price_model, left))'
    BY <2>3, <2>4, SoundStays
  <2>6. pass' \in {"count", "again", "plan"} /\ (pass' # "plan" => counted' \in PricedBlocks)
    BY <2>1, <2>2
  <2> QED BY <2>1, <2>2, <2>3, <2>5, <2>6 DEF PriceInv
<1>2. CASE EmitPriced
  <2>1. PICK literals \in [PricedBytes -> LiteralRuns], matched \in PricedBytes, code \in PricedCodes :
          /\ \A b \in PricedBytes : literals[b] <= left[b]
          /\ left[matched] - literals[matched] >= PARSED_MIN
          /\ left' = [b \in PricedBytes |->
                        left[b] - literals[b] - (IF b = matched THEN PARSED_MIN ELSE 0)]
          /\ price_model' = update_stats(price_model, literals, code)
    BY <1>2 DEF EmitPriced
  <2>2. UNCHANGED <<price_frame, opt_price_state, pass, counted>> /\ price_model # NoModel
    BY <1>2 DEF EmitPriced
  <2>3. Sound(price_model) /\ Room(price_model, left)
    BY <2>2 DEF PriceInv
  <2>4. left' \in [PricedBytes -> Nat] /\ Sound(price_model') /\ Room(price_model', left')
    BY <2>1, <2>3, EmitIsSound
  <2>5. (Sound(price_model) /\ Room(price_model, left))'
    BY <2>2, <2>4, SoundStays
  <2>6. Kept(opt_price_state) => Kept(opt_price_state)'
    BY <2>2 DEF Kept
  <2> QED BY <2>2, <2>4, <2>5, <2>6 DEF PriceInv
<1>3. CASE EndParse
  <2>1. /\ price_model # NoModel /\ price_model' = NoModel /\ left' = NoLiterals
        /\ opt_price_state' = [lit_freq |-> price_model.lit_freq, code_freq |-> price_model.code_freq]
        /\ UNCHANGED <<price_frame, counted>>
        /\ pass' = IF pass = "count" THEN "again" ELSE pass
    BY <1>3 DEF EndParse
  <2>2. Sound(price_model) /\ Room(price_model, left)
    BY <2>1 DEF PriceInv
  <2>3. opt_price_state'.lit_freq = price_model.lit_freq
        /\ opt_price_state'.code_freq = price_model.code_freq
    BY <2>1
  <2>4. Fits(Total(price_model.lit_freq)) /\ Fits(Total(price_model.code_freq))
    <3>1. PICK l \in Nat, c \in Nat, W \in Nat, k \in Nat :
            /\ l = Total(price_model.lit_freq) /\ c = Total(price_model.code_freq)
            /\ W = Total(left) /\ k = OPT_LITERAL_FREQ_ADD
      <4>1. /\ Total(price_model.lit_freq) \in Nat /\ Total(price_model.code_freq) \in Nat
            /\ Total(left) \in Nat /\ OPT_LITERAL_FREQ_ADD \in Nat
        BY <2>2, PriceAssumption, TotalNat DEF Sound, PriceInv
      <4> QED BY <4>1
    <3>2. Fits(l + k * W) /\ Fits(c + W)
      BY <2>2, <3>1 DEF Sound, Room
    <3>3. PICK x \in Nat : x = k * W
      OBVIOUS
    <3>4. l <= l + x /\ c <= c + W
      OBVIOUS
    <3> QED BY <3>1, <3>2, <3>3, <3>4, FitsLess
  <2>5. Kept(opt_price_state)'
    BY <2>1, <2>2, <2>3, <2>4 DEF Kept, Sound, Fits
  <2>6. left' \in [PricedBytes -> Nat]
    BY <2>1 DEF NoLiterals
  <2> QED BY <2>1, <2>5, <2>6 DEF PriceInv
<1>4. CASE ClearFrame
  <2>1. /\ price_frame' \in PriceFrames /\ opt_price_state' = NoStats /\ price_model = NoModel
        /\ UNCHANGED <<price_model, left, pass, counted>>
    BY <1>4 DEF ClearFrame
  <2> QED BY <2>1 DEF PriceInv
<1>5. CASE UNCHANGED priceVars
  <2>1. UNCHANGED <<price_frame, opt_price_state, price_model, left, pass, counted>>
    BY <1>5 DEF priceVars
  <2>2. Sound(price_model) /\ Room(price_model, left) => (Sound(price_model) /\ Room(price_model, left))'
    <3>1. Sound(price_model') = Sound(price_model) /\ Room(price_model', left') = Room(price_model, left)
      BY <2>1
    <3> QED BY <2>1, <3>1, SoundStays
  <2>3. Kept(opt_price_state) => Kept(opt_price_state)'
    BY <2>1 DEF Kept
  <2> QED BY <2>1, <2>2, <2>3 DEF PriceInv
<1> QED BY <1>1, <1>2, <1>3, <1>4, <1>5 DEF PriceNext

\* The prices of the optimal parser never wrap (OptimalPriceModel's assertions), however
\* the counts came about and however many blocks a frame has.
THEOREM PricesAreSound == PriceSpec => []PricesNeverWrap
<1>1. PriceInv => PricesNeverWrap
  <2> SUFFICES ASSUME PriceInv, price_model # NoModel, price_model.type = "Dynamic"
               PROVE  /\ price_model.code_sum = Total(price_model.code_freq)
                      /\ price_model.code_base = weight(price_model.code_sum)
                      /\ \A c \in PricedCodes :
                           /\ weight(price_model.code_freq[c]) <= price_model.code_base
                           /\ price_model.by_code[c]
                                = price_model.code_base - weight(price_model.code_freq[c])
                      /\ price_frame.compressed =>
                           /\ price_model.lit_sum = Total(price_model.lit_freq)
                           /\ price_model.lit_base = weight(price_model.lit_sum)
                           /\ price_model.lit_base >= OPT_PRICE_UNIT
                           /\ \A b \in PricedBytes :
                                weight(price_model.lit_freq[b]) <= price_model.lit_base
    BY DEF PricesNeverWrap
  <2>1. /\ Sound(price_model) /\ Room(price_model, left)
        /\ price_frame \in PriceFrames /\ left \in [PricedBytes -> Nat]
        /\ IsFiniteSet(PricedBytes) /\ IsFiniteSet(PricedCodes)
    BY PriceAssumption DEF PriceInv
  <2>2. PICK lits \in [PricedBytes -> Nat], codes \in [PricedCodes -> Nat] :
          lits = price_model.lit_freq /\ codes = price_model.code_freq
    BY <2>1 DEF Sound
  <2>3. PICK l \in Nat, c \in Nat, W \in Nat, k \in Nat :
          l = Total(lits) /\ c = Total(codes) /\ W = Total(left) /\ k = OPT_LITERAL_FREQ_ADD
    <3>1. Total(lits) \in Nat /\ Total(codes) \in Nat /\ Total(left) \in Nat
          /\ OPT_LITERAL_FREQ_ADD \in Nat
      BY <2>1, PriceAssumption, TotalNat
    <3> QED BY <3>1
  <2>4. l = price_model.lit_sum /\ c = price_model.code_sum
    BY <2>1, <2>2, <2>3 DEF Sound
  <2>5. Fits(l) /\ Fits(c)
    <3>1. Fits(l + k * W) /\ Fits(c + W)
      BY <2>1, <2>3, <2>4 DEF Room
    <3>2. PICK x \in Nat : x = k * W
      OBVIOUS
    <3>3. l <= l + x /\ c <= c + W
      OBVIOUS
    <3> QED BY <3>1, <3>2, <3>3, FitsLess
  <2>6. ASSUME NEW s \in PricedCodes PROVE weight(codes[s]) <= weight(c)
    <3>1. codes[s] <= c /\ codes[s] \in Nat
      BY <2>1, <2>3, PartOfTotal
    <3> QED BY <2>1, <2>5, <3>1, WeightMonotone
  <2>7. ASSUME NEW b \in PricedBytes PROVE weight(lits[b]) <= weight(l)
    <3>1. lits[b] <= l /\ lits[b] \in Nat
      BY <2>1, <2>3, PartOfTotal
    <3> QED BY <2>1, <2>5, <3>1, WeightMonotone
  <2>8. price_frame.compressed => weight(l) >= OPT_PRICE_UNIT
    <3>1. ASSUME price_frame.compressed PROVE OPT_PRICE_UNIT <= weight(l)
      <4>1. l # 0
        BY <2>1, <2>4, <3>1 DEF Sound
      <4> QED BY <2>1, <2>5, <4>1, WeightOfSome
    <3>2. weight(l) \in Nat /\ OPT_PRICE_UNIT \in Nat
      BY <2>1, <2>5, WeightMonotone, UnitIs
    <3> QED BY <3>1, <3>2
  <2>9. price_model.type # "Predefined"
    OBVIOUS
  <2> QED BY <2>1, <2>2, <2>3, <2>4, <2>6, <2>7, <2>8, <2>9 DEF Sound
<1> QED BY <1>1, PriceInitial, PriceStep, PTL DEF PriceSpec
=============================================================================
