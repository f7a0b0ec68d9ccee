----------------------------- MODULE ParserProofs -----------------------------
(***************************************************************************)
(* What every match parser stores, the decoder reads as it was meant:      *)
(* ParserBase's EverySequenceDecodes and OffsetsFollowTheDecoder, and      *)
(* FastParsers's RepeatReadsInBounds, for every source, block length,      *)
(* window, dictionary and choice of the parsers' constants.  First the     *)
(* invariant, then the steps between blocks and segments and those of the  *)
(* fast, double-fast, lazy and row parsers, then the optimal parser's,     *)
(* whose path is the heart of it: a candidate's value is classified        *)
(* against the offsets of the node it starts at, and by the time it is     *)
(* emitted the parser's offsets must again be that node's.                 *)
(***************************************************************************)
EXTENDS OptimalParser, WellFoundedInduction, TLAPS

-----------------------------------------------------------------------------
\* Numbers.

\* A set of naturals that has an element has a least one.
LEMMA LeastOf ==
  ASSUME NEW S \in SUBSET Nat, S # {}
  PROVE  \E n \in S : \A m \in S : n <= m
<1>1. PICK n \in S : \A m \in S : ~(<<m, n>> \in OpToRel(<, Nat))
  BY Zenon, NatLessThanWellFounded, WFMin
<1>2. \A m \in S : ~(m < n)
  BY <1>1 DEF OpToRel
<1> QED BY <1>2

\* ... and, when it is bounded, a greatest one.
LEMMA GreatestOf ==
  ASSUME NEW N \in Nat, NEW S \in SUBSET (0..N), S # {}
  PROVE  \E n \in S : \A m \in S : m <= n
<1> DEFINE T == {N - m : m \in S}
<1>0. PICK x : x \in S
  OBVIOUS
<1>1. T \in SUBSET Nat /\ T # {}
  <2>1. N - x \in T
    BY <1>0
  <2>2. \A t \in T : t \in Nat
    OBVIOUS
  <2> QED BY <2>1, <2>2
<1>2. PICK t \in T : \A u \in T : t <= u
  BY <1>1, LeastOf
<1>3. PICK n \in S : t = N - n
  BY <1>2
<1>4. ASSUME NEW m \in S PROVE m <= n
  BY <1>2, <1>3
<1> QED BY <1>4

-----------------------------------------------------------------------------
\* Positions: where things are in the frame, the block and the segment.

FrameInv ==
  /\ source \in Sources /\ setup \in Setups /\ P < Total
  /\ block.lo \in Int /\ block.hi \in Int
  /\ P <= block.lo /\ block.lo <= block.hi /\ block.hi <= Total
  /\ block.hi - block.lo <= H

SegmentInv ==
  /\ seg.lo \in Int /\ seg.hi \in Int /\ anchor \in Int
  /\ block.lo <= seg.lo /\ seg.lo <= anchor /\ anchor <= seg.hi /\ seg.hi <= block.hi

\* What the assumptions say of this frame.
LEMMA FrameTypes ==
  ASSUME FrameInv
  PROVE  /\ P \in Nat /\ H \in Nat /\ H > 0 /\ Total \in Nat
         /\ MIN_MATCH \in Nat /\ MIN_MATCH > 0 /\ LONG_MATCH \in Nat /\ LONG_MATCH > 0
         /\ LDM_MATCH \in Nat /\ LDM_MATCH > 0 /\ TAIL \in Nat /\ PREFIX_LOW_LIMIT \in Nat
BY ParserAssumption DEF FrameInv, P, H, Total, Positive

-----------------------------------------------------------------------------
\* Bytes.

SameBytes(v, d, n) == \A k \in 0..(n - 1) : Byte(v + k) = Byte(v + k - d)

\* Count stops at the first byte that differs.
LEMMA CountFacts ==
  ASSUME SegmentInv, NEW m \in Int, NEW v \in Int, v <= seg.hi
  PROVE  /\ Count(m, v) \in Int /\ 0 <= Count(m, v) /\ Count(m, v) <= seg.hi - v
         /\ SameBytes(v, v - m, Count(m, v))
<1> DEFINE differ == {k \in 0..(seg.hi - v - 1) : Byte(m + k) # Byte(v + k)}
<1>1. CASE differ = {}
  <2>1. Count(m, v) = seg.hi - v
    BY <1>1 DEF Count
  <2>2. \A k \in 0..(seg.hi - v - 1) : Byte(v + k) = Byte(m + k)
    BY <1>1
  <2>3. \A k \in 0..(seg.hi - v - 1) : v + k - (v - m) = m + k
    BY DEF SegmentInv
  <2> QED BY <2>1, <2>2, <2>3 DEF SameBytes, SegmentInv
<1>2. CASE differ # {}
  <2>0. differ \in SUBSET Nat
    BY DEF SegmentInv
  <2>1. \E k \in differ : \A j \in differ : k <= j
    BY <1>2, <2>0, LeastOf
  <2>2. Count(m, v) = CHOOSE k \in differ : \A j \in differ : k <= j
    BY <1>2 DEF Count
  <2>3. Count(m, v) \in differ /\ \A j \in differ : Count(m, v) <= j
    BY <2>1, <2>2
  <2> DEFINE n == Count(m, v)
  <2>4. n \in Int /\ 0 <= n /\ n <= seg.hi - v
    BY <2>3 DEF SegmentInv
  <2> HIDE DEF n
  <2>5. ASSUME NEW k \in 0..(n - 1) PROVE Byte(v + k) = Byte(v + k - (v - m))
    <3>1. k \in 0..(seg.hi - v - 1) /\ ~(n <= k)
      BY <2>4 DEF SegmentInv
    <3>2. k \notin differ
      BY <2>3, <3>1 DEF n
    <3>3. v + k - (v - m) = m + k
      OBVIOUS
    <3> QED BY <3>1, <3>2, <3>3
  <2>6. SameBytes(v, v - m, n)
    BY <2>5 DEF SameBytes
  <2> QED BY <2>4, <2>6 DEF n
<1> QED BY <1>1, <1>2

\* Past the end of the segment there is nothing to count.
LEMMA CountPastEnd ==
  ASSUME SegmentInv, NEW m \in Int, NEW v \in Int, v > seg.hi
  PROVE  Count(m, v) \in Int /\ Count(m, v) < 0
<1>1. 0..(seg.hi - v - 1) = {}
  BY DEF SegmentInv
<1>2. Count(m, v) = seg.hi - v
  BY <1>1 DEF Count
<1> QED BY <1>2 DEF SegmentInv

\* A match extended backwards still agrees, starts at the anchor or behind it, and
\* not below the floor.
LEMMA BackFacts ==
  ASSUME SegmentInv, NEW v \in Int, NEW d \in Int, NEW floor \in Int, anchor <= v
  PROVE  /\ Back(v, d, floor) \in Int /\ 0 <= Back(v, d, floor) /\ Back(v, d, floor) <= v - anchor
         /\ Back(v, d, floor) > 0 => v - Back(v, d, floor) - d >= floor
         /\ \A j \in 1..Back(v, d, floor) : Byte(v - j) = Byte(v - j - d)
<1> DEFINE fits(k) == \A j \in 1..k : v - j - d >= floor /\ Byte(v - j) = Byte(v - j - d)
           S == {k \in 0..(v - anchor) : fits(k)}
<1>1. 0 \in S /\ v - anchor \in Nat
  BY DEF SegmentInv
<1>2. PICK k \in S : \A j \in S : j <= k
  BY <1>1, GreatestOf
<1>3. \E x \in 0..(v - anchor) : fits(x) /\ \A j \in 0..(v - anchor) : fits(j) => j <= x
  BY <1>2
<1>4. Back(v, d, floor) =
        CHOOSE x \in 0..(v - anchor) : fits(x) /\ \A j \in 0..(v - anchor) : fits(j) => j <= x
  BY DEF Back
<1>5. Back(v, d, floor) \in 0..(v - anchor) /\ fits(Back(v, d, floor))
  BY <1>3, <1>4
<1> QED BY <1>1, <1>5

\* The whole of a match that was extended backwards.
LEMMA ExtendedMatch ==
  ASSUME NEW v \in Int, NEW d \in Int, NEW n \in Int, NEW k \in Nat, SameBytes(v, d, n),
         \A j \in 1..k : Byte(v - j) = Byte(v - j - d)
  PROVE  SameBytes(v - k, d, n + k)
<1> SUFFICES ASSUME NEW i \in 0..(n + k - 1) PROVE Byte(v - k + i) = Byte(v - k + i - d)
  BY DEF SameBytes
<1>1. CASE i < k
  <2>1. k - i \in 1..k /\ v - (k - i) = v - k + i /\ v - (k - i) - d = v - k + i - d
    BY <1>1
  <2> QED BY <2>1
<1>2. CASE i >= k
  <2>1. i - k \in 0..(n - 1) /\ v + (i - k) = v - k + i /\ v + (i - k) - d = v - k + i - d
    BY <1>2
  <2> QED BY <2>1 DEF SameBytes
<1> QED BY <1>1, <1>2

-----------------------------------------------------------------------------
\* Distances: which ones the decoder takes, and that every floor stays above them.

\* The window alone limits a distance, and no dictionary is in reach.
Windowed == P = 0 \/ retired

legal_floor == IF Windowed THEN P ELSE prefix_low

Legal(v, d) == d \in Positive /\ v - d >= legal_floor /\ (Windowed => d <= H)

\* A legal distance is one the decoder takes.
LEMMA LegalDecodes ==
  ASSUME FrameInv, NEW v \in Int, NEW d, P <= v, v <= block.hi, Legal(v, d)
  PROVE  decoder_takes(v, d)
<1>1. d \in Int /\ d > 0 /\ v - d >= legal_floor /\ (Windowed => d <= H)
  BY DEF Legal, Positive
<1>2. CASE Windowed
  BY <1>1, <1>2, FrameTypes DEF decoder_takes, match_source, legal_floor, FrameInv, None
<1>3. CASE ~Windowed
  BY <1>1, <1>3, FrameTypes
     DEF decoder_takes, match_source, legal_floor, FrameInv, None, Windowed, retired, prefix_low, Lower
<1> QED BY <1>2, <1>3

\* No floor lies below what is legal.
LEMMA FloorTypes ==
  ASSUME FrameInv
  PROVE  /\ rep_window_low \in Int /\ P <= rep_window_low /\ rep_window_low <= block.lo
         /\ prefix_low \in Int /\ 0 <= prefix_low /\ prefix_low <= P
         /\ legal_floor \in Int /\ 0 <= legal_floor /\ legal_floor <= P
         /\ \A v \in Int : match_floor(v) \in Int /\ match_floor(v) >= legal_floor
<1>1. /\ rep_window_low \in Int /\ P <= rep_window_low /\ rep_window_low <= block.lo
      /\ prefix_low \in Int /\ 0 <= prefix_low /\ prefix_low <= P
  BY FrameTypes DEF FrameInv, rep_window_low, prefix_low, Higher, Lower
<1>2. legal_floor \in Int /\ 0 <= legal_floor /\ legal_floor <= P
  BY <1>1, FrameTypes DEF legal_floor
<1>3. ASSUME NEW v \in Int PROVE match_floor(v) \in Int /\ match_floor(v) >= legal_floor
  BY <1>1, FrameTypes DEF legal_floor, match_floor, Higher, Windowed
<1> QED BY <1>1, <1>2, <1>3

\* A match above the floor of its own position is legal.
LEMMA MatchFloorLegal ==
  ASSUME FrameInv, NEW v \in Int, NEW d \in Positive, v - d >= match_floor(v)
  PROVE  Legal(v, d)
<1>1. v - d >= legal_floor
  BY FloorTypes DEF Positive
<1>2. ASSUME Windowed PROVE d <= H
  <2>1. match_floor(v) = Higher(rep_window_low, v - H)
    BY <1>2 DEF match_floor, Windowed
  <2>2. match_floor(v) >= v - H
    BY <2>1, FloorTypes, FrameTypes DEF Higher
  <2> QED BY <2>2, FloorTypes, FrameTypes DEF Positive
<1> QED BY <1>1, <1>2 DEF Legal

\* So is one above the floor of the fast pair.
LEMMA WindowLowLegal ==
  ASSUME FrameInv, SegmentInv
  PROVE  /\ window_low \in Int /\ window_low >= legal_floor
         /\ \A v \in Int, d \in Positive :
              v <= seg.hi /\ v - d >= window_low => Legal(v, d)
<1>1. CASE P > 0 /\ retired
  <2>1. window_low = Lower(block.hi - H, block.lo) /\ legal_floor = P /\ block.hi - P > H
    BY <1>1 DEF window_low, source_low, legal_floor, Windowed, retired
  <2>2. window_low \in Int /\ window_low >= P
    BY <2>1, FrameTypes DEF FrameInv, Lower
  <2>3. window_low >= block.hi - H
    BY <2>1, FrameTypes DEF FrameInv, Lower
  <2>4. ASSUME NEW v \in Int, NEW d \in Positive, v <= seg.hi, v - d >= window_low
        PROVE  Legal(v, d)
    BY <2>1, <2>2, <2>3, <2>4, FrameTypes DEF Legal, Positive, SegmentInv, FrameInv
  <2> QED BY <2>1, <2>2, <2>4, FrameTypes
<1>2. CASE P > 0 /\ ~retired
  <2>1. window_low = prefix_low /\ legal_floor = prefix_low /\ ~Windowed
    BY <1>2 DEF window_low, legal_floor, Windowed
  <2> QED BY <2>1, FloorTypes DEF Legal, Positive
<1>3. CASE P = 0
  <2>1. window_low = Lower(Higher(seg.hi - H, 0), seg.lo) /\ legal_floor = 0
    BY <1>3, FrameTypes DEF window_low, legal_floor, Windowed
  <2>2. window_low \in Int /\ window_low >= 0 /\ window_low >= seg.hi - H
    BY <1>3, <2>1, FrameTypes DEF FrameInv, SegmentInv, Higher, Lower
  <2>3. ASSUME NEW v \in Int, NEW d \in Positive, v <= seg.hi, v - d >= window_low
        PROVE  Legal(v, d)
    BY <2>1, <2>2, <2>3, FrameTypes DEF Legal, Positive, SegmentInv, FrameInv
  <2> QED BY <2>1, <2>2, <2>3
<1> QED BY <1>1, <1>2, <1>3, FrameTypes

-----------------------------------------------------------------------------
\* Repeat offsets.

Triple == Nat \X Nat \X Nat
Held   == Positive \X Positive \X Positive

\* The offsets a parser holds are the decoder's or put aside, and come back in place.
Agreed(offsets, real, aside) ==
  /\ \A i \in 1..2 : offsets[i] \in {0, real[i]}
  /\ \A i \in 1..2 : restore(offsets, aside)[i] = real[i]

\* Whether this parser keeps the third offset too.
Third == ~(setup.parser \in {"fast", "double_fast"} /\ pair)

ThirdAgrees(offsets, real) == Third => offsets[3] \in {0, real[3]}

\* Stored from here, s means the distance d to the decoder, and leaves parser and
\* decoder agreed.
Meant(s, ll_zero, d) ==
  LET r == execute_offset(hist, ll_zero, s.value)
  IN  /\ r.offset = d /\ d \in Positive
      /\ r.reps \in Held /\ s.reps \in Triple
      /\ \A i \in 1..2 : s.reps[i] \in {d, reps[1], reps[2]} /\ r.reps[i] \in {d, hist[1], hist[2]}
      /\ \A aside \in Nat \X Nat : Agreed(reps, hist, aside) => Agreed(s.reps, r.reps, aside)
      /\ ThirdAgrees(reps, hist) => ThirdAgrees(s.reps, r.reps)

\* Both ends hold three offsets, and the parser's are the decoder's or put aside.
RepsInv ==
  /\ reps \in Triple /\ hist \in Held
  /\ \A i \in 1..2 : reps[i] \in {0, hist[i]}

\* A new distance in front of the two the parser held.
LEMMA NewInFront ==
  ASSUME RepsInv, NEW d \in Positive, NEW x \in Nat, NEW y \in Nat,
         NEW aside \in Nat \X Nat, Agreed(reps, hist, aside)
  PROVE  Agreed(<<d, reps[1], x>>, <<d, hist[1], y>>, aside)
BY DEF RepsInv, Triple, Held, Agreed, restore, Positive

\* The second offset, taken as a match, changes places with the first.
LEMMA Swapped ==
  ASSUME RepsInv, reps[2] # 0, NEW x \in Nat, NEW y \in Nat,
         NEW aside \in Nat \X Nat, Agreed(reps, hist, aside)
  PROVE  Agreed(<<reps[2], reps[1], x>>, <<hist[2], hist[1], y>>, aside)
BY DEF RepsInv, Triple, Held, Agreed, restore, Positive

\* The third offset plays no part for the first two.
LEMMA SameFront ==
  ASSUME NEW r \in Triple, NEW q \in Triple, r[1] = q[1], r[2] = q[2],
         NEW t, NEW u, t[1] = u[1], t[2] = u[2], NEW aside \in Nat \X Nat, Agreed(r, t, aside)
  PROVE  Agreed(q, u, aside)
BY DEF Triple, Agreed, restore

\* store_explicit_sequence_fast_no_trace.
LEMMA PairExplicitMeant ==
  ASSUME RepsInv, NEW ll_zero, NEW d \in Positive, setup.parser \in {"fast", "double_fast"}, pair
  PROVE  Meant(pair_explicit(d), ll_zero, d)
<1>1. execute_offset(hist, ll_zero, d + 3) = [offset |-> d, reps |-> <<d, hist[1], hist[2]>>]
  BY DEF execute_offset, Positive
<1>2. <<d, hist[1], hist[2]>> \in Held /\ <<d, reps[1], reps[3]>> \in Triple
  BY DEF RepsInv, Held, Triple, Positive
<1>3. \A aside \in Nat \X Nat : Agreed(reps, hist, aside) =>
        Agreed(<<d, reps[1], reps[3]>>, <<d, hist[1], hist[2]>>, aside)
  BY NewInFront DEF RepsInv, Held, Triple, Positive
<1> QED BY <1>1, <1>2, <1>3 DEF Meant, pair_explicit, ThirdAgrees, Third

\* store_lazy_regular_sequence_with_source.
LEMMA ExplicitMeant ==
  ASSUME RepsInv, NEW ll_zero, NEW d \in Positive
  PROVE  Meant(explicit(d), ll_zero, d)
<1>1. execute_offset(hist, ll_zero, d + 3) = [offset |-> d, reps |-> <<d, hist[1], hist[2]>>]
  BY DEF execute_offset, Positive
<1>2. <<d, hist[1], hist[2]>> \in Held /\ <<d, reps[1], reps[2]>> \in Triple
  BY DEF RepsInv, Held, Triple, Positive
<1>3. \A aside \in Nat \X Nat : Agreed(reps, hist, aside) =>
        Agreed(<<d, reps[1], reps[2]>>, <<d, hist[1], hist[2]>>, aside)
  BY NewInFront DEF RepsInv, Held, Triple, Positive
<1>4. reps[2] \in {0, hist[2]}
  BY DEF RepsInv
<1> QED BY <1>1, <1>2, <1>3, <1>4 DEF Meant, explicit, ThirdAgrees

\* A value that names a distance among the parser's own offsets names it among the
\* decoder's, since an offset put aside is 0 and names nothing.
LEMMA ResolvedMeant ==
  ASSUME RepsInv, Third, ThirdAgrees(reps, hist), NEW ll_zero \in BOOLEAN, NEW value \in Nat,
         NEW d \in Positive, resolve_values(reps, ll_zero, value).offset = d
  PROVE  Meant([value |-> value, reps |-> resolve_values(reps, ll_zero, value).reps], ll_zero, d)
<1> DEFINE rep_index == IF ll_zero THEN value + 1 ELSE value
           Outcome(q, t) ==
             /\ resolve_values(reps, ll_zero, value).reps = q
             /\ execute_offset(hist, ll_zero, value) = [offset |-> d, reps |-> t]
<1>0. PICK a \in Nat, b \in Nat, c \in Nat : reps = <<a, b, c>>
  BY DEF RepsInv, Triple
<1>1. PICK x \in Positive, y \in Positive, z \in Positive : hist = <<x, y, z>>
  BY DEF RepsInv, Held
<1>2. a \in {0, x} /\ b \in {0, y} /\ c \in {0, z}
  BY <1>0, <1>1 DEF RepsInv, ThirdAgrees
<1>3. value # 0 /\ d # 0 /\ d \in Nat /\ x > 0 /\ y > 0 /\ z > 0
  BY DEF resolve_values, BadOffset, Positive
<1>4. CASE value > 3
  <2>1. Outcome(<<d, a, b>>, <<d, x, y>>)
    BY <1>0, <1>1, <1>4 DEF resolve_values, execute_offset
  <2>2. \A aside \in Nat \X Nat : Agreed(reps, hist, aside) => Agreed(<<d, a, b>>, <<d, x, y>>, aside)
    BY <1>0, <1>1, NewInFront DEF Positive
  <2> QED BY <1>0, <1>1, <1>2, <2>1, <2>2 DEF Meant, ThirdAgrees, Triple, Held, Positive
<1>5. CASE value <= 3 /\ rep_index = 1
  <2>1. Outcome(<<a, b, c>>, <<x, y, z>>) /\ d = a
    BY <1>0, <1>1, <1>2, <1>3, <1>5 DEF resolve_values, execute_offset, Promote, BadOffset
  <2> QED BY <1>0, <1>1, <1>2, <2>1 DEF Meant, ThirdAgrees, Triple, Held, Positive
<1>6. CASE value <= 3 /\ rep_index = 2
  <2>1. Outcome(<<b, a, c>>, <<y, x, z>>) /\ d = b /\ b # 0
    BY <1>0, <1>1, <1>2, <1>3, <1>6
       DEF resolve_values, execute_offset, resolve_rep_offset_decode, Promote, BadOffset
  <2>2. \A aside \in Nat \X Nat : Agreed(reps, hist, aside) => Agreed(<<b, a, c>>, <<y, x, z>>, aside)
    BY <1>0, <1>1, <2>1, Swapped DEF Positive
  <2> QED BY <1>0, <1>1, <1>2, <2>1, <2>2 DEF Meant, ThirdAgrees, Triple, Held, Positive
<1>7. CASE value <= 3 /\ rep_index = 3
  <2>1. Outcome(<<c, a, b>>, <<z, x, y>>) /\ d = c /\ c = z
    BY <1>0, <1>1, <1>2, <1>3, <1>7
       DEF resolve_values, execute_offset, resolve_rep_offset_decode, Promote, BadOffset
  <2>2. \A aside \in Nat \X Nat : Agreed(reps, hist, aside) => Agreed(<<c, a, b>>, <<z, x, y>>, aside)
    BY <1>0, <1>1, <2>1, NewInFront DEF Positive
  <2> QED BY <1>0, <1>1, <1>2, <2>1, <2>2 DEF Meant, ThirdAgrees, Triple, Held, Positive
<1>8. CASE value <= 3 /\ rep_index = 4
  <2>1. Outcome(<<a - 1, a, b>>, <<x - 1, x, y>>) /\ d = a - 1 /\ a = x
    BY <1>0, <1>1, <1>2, <1>3, <1>8
       DEF resolve_values, execute_offset, resolve_rep_offset_decode, Promote, BadOffset
  <2>2. \A aside \in Nat \X Nat : Agreed(reps, hist, aside) => Agreed(<<d, a, b>>, <<d, x, y>>, aside)
    BY <1>0, <1>1, NewInFront DEF Positive
  <2> QED BY <1>0, <1>1, <1>2, <2>1, <2>2 DEF Meant, ThirdAgrees, Triple, Held, Positive
<1> QED BY <1>3, <1>4, <1>5, <1>6, <1>7, <1>8

\* What the classifier returns for a distance resolves to that distance, and to the
\* same offsets.
LEMMA ClassifierResolves ==
  ASSUME NEW r \in Triple, NEW ll_zero \in BOOLEAN, NEW d \in Positive
  PROVE  LET e == encode_offset_value_and_update(r, d, ll_zero)
         IN  /\ e.value \in Nat
             /\ resolve_values(r, ll_zero, e.value) = [offset |-> d, reps |-> e.reps]
<1>0. PICK a \in Nat, b \in Nat, c \in Nat : r = <<a, b, c>>
  BY DEF Triple
<1> QED BY <1>0 DEF encode_offset_value_and_update, resolve_values, Promote, Positive, BadOffset

\* store_lazy_sequence_with_source, store_lazy_sequence_local_reps.
LEMMA ClassifiedMeant ==
  ASSUME RepsInv, Third, ThirdAgrees(reps, hist), NEW start, NEW d \in Positive
  PROVE  Meant(classified(start, d), start = anchor, d)
<1> DEFINE e == encode_offset_value_and_update(reps, d, start = anchor)
<1>1. e.value \in Nat /\ resolve_values(reps, start = anchor, e.value) = [offset |-> d, reps |-> e.reps]
  BY ClassifierResolves DEF RepsInv
<1>2. e = [value |-> e.value, reps |-> e.reps]
  BY DEF encode_offset_value_and_update
<1> HIDE DEF e
<1>3. Meant([value |-> e.value, reps |-> e.reps], start = anchor, d)
  <2>1. PICK v \in Nat : v = e.value
    BY <1>1
  <2>2. resolve_values(reps, start = anchor, v).offset = d /\ resolve_values(reps, start = anchor, v).reps = e.reps
    BY <1>1, <2>1
  <2>3. Meant([value |-> v, reps |-> resolve_values(reps, start = anchor, v).reps], start = anchor, d)
    BY <2>2, ResolvedMeant
  <2> QED BY <2>1, <2>2, <2>3
<1> QED BY <1>2, <1>3 DEF classified, e

\* store_rep_sequence_fast_no_trace, behind literals.
LEMMA PairRepeatMeant ==
  ASSUME RepsInv, NEW start \in Int, anchor \in Int, start > anchor, reps[1] # 0
  PROVE  Meant(pair_repeat(start, reps[1]), start = anchor, reps[1])
<1>1. pair_repeat(start, reps[1]) = [value |-> 1, reps |-> reps]
  BY DEF pair_repeat
<1>2. execute_offset(hist, start = anchor, 1) = [offset |-> hist[1], reps |-> hist]
  BY DEF execute_offset
<1>3. reps[1] = hist[1] /\ reps[1] \in Positive
  BY DEF RepsInv, Triple, Held, Positive
<1> QED BY <1>1, <1>2, <1>3 DEF Meant, RepsInv

\* chain_rep2_fast_no_trace.
LEMMA ChainedPairMeant ==
  ASSUME RepsInv, reps[2] # 0, setup.parser \in {"fast", "double_fast"}, pair
  PROVE  Meant(chained_pair, TRUE, reps[2])
<1>1. execute_offset(hist, TRUE, 1) = [offset |-> hist[2], reps |-> <<hist[2], hist[1], hist[3]>>]
  BY DEF execute_offset, resolve_rep_offset_decode
<1>2. reps[2] = hist[2] /\ reps[2] \in Positive
  BY DEF RepsInv, Triple, Held, Positive
<1>3. <<hist[2], hist[1], hist[3]>> \in Held /\ <<reps[2], reps[1], reps[3]>> \in Triple
  BY DEF RepsInv, Held, Triple
<1>4. \A aside \in Nat \X Nat : Agreed(reps, hist, aside) =>
        Agreed(<<reps[2], reps[1], reps[3]>>, <<hist[2], hist[1], hist[3]>>, aside)
  BY Swapped DEF RepsInv, Held, Triple, Positive
<1>5. \A i \in 1..2 : /\ <<reps[2], reps[1], reps[3]>>[i] \in {reps[2], reps[1], reps[2]}
                       /\ <<hist[2], hist[1], hist[3]>>[i] \in {reps[2], hist[1], hist[2]}
  OBVIOUS
<1>6. chained_pair = [value |-> 1, reps |-> <<reps[2], reps[1], reps[3]>>]
  BY DEF chained_pair
<1>7. ~Third
  BY DEF Third
<1> DEFINE s == [value |-> 1, reps |-> <<reps[2], reps[1], reps[3]>>]
           r == execute_offset(hist, TRUE, s.value)
<1>8. /\ s.reps = <<reps[2], reps[1], reps[3]>> /\ r.offset = hist[2]
      /\ r.reps = <<hist[2], hist[1], hist[3]>>
  BY DEF execute_offset, resolve_rep_offset_decode
<1> HIDE DEF s, r
<1>9. Meant(s, TRUE, reps[2])
  BY <1>2, <1>3, <1>4, <1>5, <1>7, <1>8 DEF Meant, ThirdAgrees, r
<1> QED BY <1>6, <1>9 DEF s

\* store_lazy_sequence_with_offset_value_and_source, for a repeat behind literals and
\* for the second repeat straight behind a match.
LEMMA ByValueMeant ==
  ASSUME RepsInv, Third, ThirdAgrees(reps, hist), NEW start
  PROVE  /\ start # anchor /\ reps[1] # 0 => Meant(by_value(start, 1), start = anchor, reps[1])
         /\ start = anchor /\ reps[2] # 0 => Meant(by_value(start, 1), start = anchor, reps[2])
<1>1. ASSUME start # anchor, reps[1] # 0 PROVE Meant(by_value(start, 1), start = anchor, reps[1])
  <2>1. resolve_values(reps, FALSE, 1).offset = reps[1] /\ reps[1] \in Positive
    BY <1>1 DEF resolve_values, RepsInv, Triple, Positive
  <2> QED BY <1>1, <2>1, ResolvedMeant DEF by_value
<1>2. ASSUME start = anchor, reps[2] # 0 PROVE Meant(by_value(start, 1), start = anchor, reps[2])
  <2>1. resolve_values(reps, TRUE, 1).offset = reps[2] /\ reps[2] \in Positive
    BY <1>2 DEF resolve_values, RepsInv, Triple, Positive
  <2> QED BY <1>2, <2>1, ResolvedMeant DEF by_value
<1> QED BY <1>1, <1>2

-----------------------------------------------------------------------------
\* The inductive invariant.

InWindow(r) == \A i \in 1..2 : r[i] <= H

FrontsEqual(r, t) == \A i \in 1..2 : r[i] = t[i]

OffsetTypes ==
  /\ reps \in Triple /\ hist \in Held /\ carried \in Triple /\ undo \in Held
  /\ saved.inner \in Nat \X Nat /\ saved.outer \in Nat \X Nat
  /\ saved = [inner |-> saved.inner, outer |-> saved.outer]
  /\ P = 0 => InWindow(hist)

\* What the block would fall back to is what was carried into it.
UndoInv ==
  /\ FrontsEqual(carried, undo) /\ ThirdAgrees(carried, undo)
  /\ P = 0 => InWindow(undo)

\* The long-distance match ahead is one the decoder takes, also when it is cut.
LdmInv ==
  ldm # Nothing =>
    /\ ldm.start \in Int /\ ldm.length \in Positive
    /\ seg.lo <= ldm.start /\ ldm.start + ldm.length <= block.hi
    /\ Legal(ldm.start, ldm.offset) /\ SameBytes(ldm.start, ldm.offset, ldm.length)
    /\ seg.hi = IF setup.parser = "optimal" THEN block.hi ELSE ldm.start

\* Inside a segment: what the parser put aside, on entry to the block's segment or to
\* its own function but never on both, comes back as the decoder's.
ParseInv ==
  /\ SegmentInv /\ RepsInv /\ ThirdAgrees(reps, hist)
  /\ \/ saved.inner = NothingAside /\ Agreed(reps, hist, saved.outer)
     \/ saved.outer = NothingAside /\ Agreed(reps, hist, saved.inner)
  /\ Windowed => InWindow(reps)

\* Common to all phases of a segment.
BaseInv == FrameInv /\ OffsetTypes /\ UndoInv /\ LdmInv /\ EverySequenceDecodes

-----------------------------------------------------------------------------
\* Within a segment, the frame, the floors and the bytes stay as they are.

\* The frame, what follows from it, and the floors.
LEMMA SegmentStays ==
  ASSUME UNCHANGED Segment
  PROVE  /\ UNCHANGED <<source, setup, block, undo, carried, seg, ldm>>
         /\ P' = P /\ H' = H /\ Total' = Total
         /\ (Windowed' <=> Windowed) /\ (retired' <=> retired) /\ (pair' <=> pair) /\ (Third' <=> Third)
         /\ legal_floor' = legal_floor /\ window_low' = window_low
         /\ rep_window_low' = rep_window_low /\ search_limit' = search_limit
<1>1. UNCHANGED <<source, setup, block, undo, carried, seg, ldm>>
  BY DEF Segment, Frame
<1>2. P' = P /\ H' = H /\ Total' = Total
  BY <1>1 DEF P, H, Total
<1>3. retired' <=> retired
  BY <1>1, <1>2 DEF retired
<1>4. (Windowed' <=> Windowed) /\ (pair' <=> pair)
  BY <1>1, <1>2, <1>3 DEF Windowed, pair, Fast
<1>5. Third' <=> Third
  BY <1>1, <1>4 DEF Third
<1>6. prefix_low' = prefix_low /\ source_low' = source_low
  BY <1>1, <1>2, <1>3 DEF prefix_low, source_low
<1>7. legal_floor' = legal_floor
  BY <1>2, <1>4, <1>6 DEF legal_floor
<1>8. window_low' = window_low /\ rep_window_low' = rep_window_low /\ search_limit' = search_limit
  BY <1>1, <1>2, <1>3, <1>6 DEF window_low, rep_window_low, search_limit
<1> QED BY <1>1, <1>2, <1>3, <1>4, <1>5, <1>7, <1>8

\* Legal distances and equal bytes.
LEMMA BytesStay ==
  ASSUME UNCHANGED Segment
  PROVE  /\ \A v, d : Legal(v, d)' <=> Legal(v, d)
         /\ \A v, d : decoder_takes(v, d)' <=> decoder_takes(v, d)
         /\ \A v, d, n : SameBytes(v, d, n)' <=> SameBytes(v, d, n)
<1>1. ASSUME NEW v, NEW d PROVE Legal(v, d)' <=> Legal(v, d)
  BY SegmentStays DEF Legal
<1>2. ASSUME NEW v, NEW d PROVE decoder_takes(v, d)' <=> decoder_takes(v, d)
  BY SegmentStays DEF decoder_takes
<1>3. ASSUME NEW v PROVE Byte(v)' = Byte(v)
  BY SegmentStays DEF Byte
<1>4. ASSUME NEW v, NEW d, NEW n PROVE SameBytes(v, d, n)' <=> SameBytes(v, d, n)
  BY <1>3 DEF SameBytes
<1> QED BY <1>1, <1>2, <1>4

\* The positions.
LEMMA FrameStays ==
  ASSUME FrameInv, UNCHANGED Segment
  PROVE  FrameInv'
BY SegmentStays DEF FrameInv

\* What the block would fall back to.
LEMMA UndoStays ==
  ASSUME UndoInv, UNCHANGED Segment
  PROVE  UndoInv'
BY SegmentStays DEF UndoInv, FrontsEqual, InWindow, ThirdAgrees

\* The long-distance match ahead.
LEMMA LdmStays ==
  ASSUME LdmInv, UNCHANGED Segment
  PROVE  LdmInv'
<1>1. UNCHANGED <<seg, block, ldm, setup>>
  BY SegmentStays
<1>2. /\ (Legal(ldm.start, ldm.offset)' <=> Legal(ldm.start, ldm.offset))
      /\ (SameBytes(ldm.start, ldm.offset, ldm.length)' <=> SameBytes(ldm.start, ldm.offset, ldm.length))
  <2>1. (Legal(ldm.start, ldm.offset)' <=> Legal(ldm.start, ldm.offset))
    BY <1>1, SegmentStays DEF Legal
  <2>2. (SameBytes(ldm.start, ldm.offset, ldm.length)' <=> SameBytes(ldm.start, ldm.offset, ldm.length))
    BY <1>1, SegmentStays DEF SameBytes, Byte
  <2> QED BY <2>1, <2>2
<1> QED BY <1>1, <1>2 DEF LdmInv, Nothing

\* The last sequence still decodes while nothing is stored.
LEMMA SequenceStays ==
  ASSUME EverySequenceDecodes, UNCHANGED Segment, last' = last
  PROVE  EverySequenceDecodes'
<1>1. UNCHANGED <<block, last>>
  BY SegmentStays
<1>2. decoder_takes(last.start, last.offset)' <=> decoder_takes(last.start, last.offset)
  BY <1>1, SegmentStays DEF decoder_takes
<1>3. (\A k \in 0..(last.length - 1) : Byte(last.start + k) = Byte(last.start + k - last.offset))'
      <=> (\A k \in 0..(last.length - 1) : Byte(last.start + k) = Byte(last.start + k - last.offset))
  BY <1>1, SegmentStays DEF Byte
<1> QED BY <1>1, <1>2, <1>3 DEF EverySequenceDecodes, Nothing, BadOffset

\* The cursors move and nothing else does.
LEMMA SearchKeeps ==
  ASSUME BaseInv, ParseInv, UNCHANGED <<Segment, Storage, Offsets>>
  PROVE  BaseInv' /\ ParseInv'
<1>1. UNCHANGED <<anchor, hist, last, reps, saved>> /\ UNCHANGED Segment
  BY DEF Storage, Offsets
<1>2. OffsetTypes'
  BY <1>1, SegmentStays DEF BaseInv, OffsetTypes, InWindow
<1>3. SegmentInv' /\ RepsInv' /\ ThirdAgrees(reps, hist)'
  BY <1>1, SegmentStays DEF ParseInv, SegmentInv, RepsInv, ThirdAgrees
<1>4. (Windowed => InWindow(reps))'
  BY <1>1, SegmentStays DEF ParseInv, InWindow
<1>5. /\ (saved.inner = NothingAside /\ Agreed(reps, hist, saved.outer))' <=>
           (saved.inner = NothingAside /\ Agreed(reps, hist, saved.outer))
      /\ (saved.outer = NothingAside /\ Agreed(reps, hist, saved.inner))' <=>
           (saved.outer = NothingAside /\ Agreed(reps, hist, saved.inner))
  BY <1>1 DEF Agreed, NothingAside
<1> QED BY <1>1, <1>2, <1>3, <1>4, <1>5, FrameStays, UndoStays, LdmStays, SequenceStays DEF BaseInv, ParseInv

-----------------------------------------------------------------------------
\* Storing a sequence.

\* The repeats a parser of two offsets may read lie behind x in the source.
Close(x) == \A i \in 1..2 : reps[i] # 0 => reps[i] + P <= x

ClosedUp == Close(anchor)

\* A legal match, stored as a value that means its distance, leaves the sequence one
\* the decoder reads, the two sides in step, and no offset that reaches out of the source.
LEMMA StoreKeeps ==
  ASSUME BaseInv, ParseInv, NEW s, NEW start \in Int, NEW length \in Int, NEW d,
         Store(s, start, length), UNCHANGED <<Segment, saved>>,
         Meant(s, start = anchor, d), Legal(start, d), SameBytes(start, d, length),
         length > 0, anchor <= start, start + length <= seg.hi
  PROVE  /\ BaseInv' /\ ParseInv' /\ anchor' = start + length
         /\ \A x \in Int : pair /\ Close(x) /\ x <= start + length => ClosedUp'
<1> DEFINE r == execute_offset(hist, start = anchor, s.value)
<1>1. /\ last' = [start |-> start, length |-> length, offset |-> r.offset]
      /\ hist' = r.reps /\ anchor' = start + length /\ reps' = s.reps
  BY DEF Store
<1>2. /\ r.offset = d /\ d \in Positive /\ r.reps \in Held /\ s.reps \in Triple
      /\ \A i \in 1..2 : s.reps[i] \in {d, reps[1], reps[2]} /\ r.reps[i] \in {d, hist[1], hist[2]}
      /\ \A aside \in Nat \X Nat : Agreed(reps, hist, aside) => Agreed(s.reps, r.reps, aside)
      /\ ThirdAgrees(reps, hist) => ThirdAgrees(s.reps, r.reps)
  BY DEF Meant
<1> HIDE DEF r
<1>3. /\ P \in Nat /\ H \in Nat
      /\ P <= block.lo /\ block.lo <= seg.lo /\ seg.lo <= anchor /\ seg.hi <= block.hi
      /\ seg.lo \in Int /\ seg.hi \in Int /\ anchor \in Int /\ block.lo \in Int /\ block.hi \in Int
  BY FrameTypes DEF BaseInv, FrameInv, ParseInv, SegmentInv
<1>4. UNCHANGED Segment /\ saved' = saved
  OBVIOUS
<1>5. d \in Nat /\ d > 0 /\ start - d >= legal_floor /\ (Windowed => d <= H)
  BY <1>2 DEF Legal, Positive
<1>6. EverySequenceDecodes'
  <2>1. decoder_takes(start, d)
    BY <1>3, LegalDecodes DEF BaseInv
  <2>2. decoder_takes(last.start, last.offset)'
    BY <1>1, <1>2, <1>4, <2>1, SegmentStays DEF decoder_takes
  <2>3. last' = [start |-> start, length |-> length, offset |-> d]
    BY <1>1, <1>2
  <2>4. (\A k \in 0..(last.length - 1) : Byte(last.start + k) = Byte(last.start + k - last.offset))'
    <3>1. \A k \in 0..(length - 1) : Byte(start + k)' = Byte(start + k - d)'
      BY <1>4, SegmentStays DEF SameBytes, Byte
    <3> QED BY <2>3, <3>1 DEF Byte
  <2>5. (last.offset # BadOffset)' /\ (last.length > 0)' /\ (last.start + last.length <= block.hi)'
    BY <1>3, <1>4, <1>5, <2>3, SegmentStays DEF BadOffset
  <2> QED BY <2>2, <2>4, <2>5 DEF EverySequenceDecodes
<1>7. /\ Windowed => \A i \in 1..2 : s.reps[i] <= H
      /\ P = 0 => \A i \in 1..2 : r.reps[i] <= H
  <2>1. P = 0 => Windowed
    BY DEF Windowed
  <2>2. Windowed => d <= H /\ reps[1] <= H /\ reps[2] <= H
    BY <1>5 DEF ParseInv, InWindow
  <2>3. P = 0 => d <= H /\ hist[1] <= H /\ hist[2] <= H
    BY <2>1, <2>2 DEF BaseInv, OffsetTypes, InWindow
  <2> QED BY <1>2, <2>2, <2>3
<1>8. OffsetTypes'
  <2>1. /\ (reps \in Triple)' /\ (hist \in Held)' /\ (carried \in Triple)' /\ (undo \in Held)'
        /\ (saved.inner \in Nat \X Nat)' /\ (saved.outer \in Nat \X Nat)'
        /\ (saved = [inner |-> saved.inner, outer |-> saved.outer])'
    BY <1>1, <1>2, <1>4, SegmentStays DEF BaseInv, OffsetTypes
  <2>2. (P = 0 => InWindow(hist))'
    <3>1. P' = P /\ H' = H
      BY <1>4, SegmentStays
    <3>2. P = 0 => \A i \in 1..2 : hist'[i] <= H
      BY <1>1, <1>7
    <3> QED BY <3>1, <3>2 DEF InWindow
  <2> QED BY <2>1, <2>2 DEF OffsetTypes
<1>9. SegmentInv'
  BY <1>1, <1>3, <1>4, SegmentStays DEF ParseInv, SegmentInv
<1>10. RepsInv'
  <2>1. \E aside \in Nat \X Nat : Agreed(reps, hist, aside)
    BY DEF BaseInv, OffsetTypes, ParseInv
  <2>2. \A i \in 1..2 : s.reps[i] \in {0, r.reps[i]}
    BY <1>2, <2>1 DEF Agreed
  <2> QED BY <1>1, <1>2, <2>2 DEF RepsInv
<1>11. ThirdAgrees(reps, hist)'
  BY <1>1, <1>2, <1>4, SegmentStays DEF ParseInv, ThirdAgrees
<1>12. (Windowed => InWindow(reps))'
  <2>1. (Windowed' <=> Windowed) /\ H' = H
    BY <1>4, SegmentStays
  <2>2. Windowed => \A i \in 1..2 : reps'[i] <= H
    BY <1>1, <1>7
  <2> QED BY <2>1, <2>2 DEF InWindow
<1>13. \/ saved'.inner = NothingAside /\ Agreed(reps', hist', saved'.outer)
       \/ saved'.outer = NothingAside /\ Agreed(reps', hist', saved'.inner)
  <2>1. saved.inner \in Nat \X Nat /\ saved.outer \in Nat \X Nat
    BY DEF BaseInv, OffsetTypes
  <2> QED BY <1>1, <1>2, <1>4, <2>1 DEF ParseInv
<1>14. ParseInv'
  BY <1>9, <1>10, <1>11, <1>12, <1>13 DEF ParseInv, Agreed, NothingAside
<1>15. ASSUME NEW x \in Int, pair, Close(x), x <= start + length PROVE ClosedUp'
  <2>1. legal_floor = P
    BY <1>15 DEF pair, legal_floor, Windowed
  <2>2. d + P <= start + length
    BY <1>3, <1>5, <2>1
  <2>3. \A i \in 1..2 : s.reps[i] # 0 => s.reps[i] + P <= start + length
    BY <1>2, <1>3, <1>15, <2>2 DEF Close, ParseInv, RepsInv, Triple
  <2> QED BY <1>1, <1>4, <2>3, SegmentStays DEF ClosedUp, Close
<1> QED BY <1>1, <1>4, <1>6, <1>8, <1>14, <1>15, FrameStays, UndoStays, LdmStays DEF BaseInv

-----------------------------------------------------------------------------
\* The cursors, phase by phase.

Placed(c, where) ==
  /\ where = "start" => c \in [ip0 : Int] /\ anchor <= c.ip0 /\ (pair => Close(c.ip0))
  /\ where \in {"first", "second"} =>
       /\ Fast
       /\ c \in [ip0 : Int, ip1 : Int, ip2 : Int, ip3 : Int, step : Nat, next_step : Int]
       /\ anchor <= c.ip0 /\ c.ip0 <= c.ip1 /\ c.ip1 <= c.ip2 /\ 2 <= c.step
       /\ pair => Close(c.ip0)
  /\ where = "first" => c.ip0 + 2 <= c.ip2 /\ c.ip2 <= c.ip3 /\ c.ip3 <= c.ip2 + c.step
  /\ where = "second" => c.ip2 <= c.ip1 + c.step
  /\ where = "look" =>
       /\ Fast => ~pair
       /\ c \in [ip0 : Int, ip1 : Int, step : Nat, next_step : Int]
       /\ anchor <= c.ip0 /\ c.ip0 <= c.ip1
       /\ pair => Close(c.ip0)
  /\ where = "chain" /\ pair => ClosedUp

\* Those of a fast parser.
FastCursors == Placed(cur, pc)

\* Legal, equal to the bytes it repeats, and within the segment.
Sound(v, d, n) == Legal(v, d) /\ SameBytes(v, d, n) /\ n \in Int /\ n > 0 /\ v + n <= seg.hi

\* The match a lazy parser holds while it looks further.
Best_ == [kind : {"repeat", "regular"}, start : Int, offset : Positive, length : Int]

Holds(pos, best) ==
  /\ best \in Best_ /\ pos <= best.start /\ Sound(best.start, best.offset, best.length)
  /\ best.kind = "repeat" => best.offset = reps[1] /\ pos < best.start

LazyPlaced(c, where) ==
  /\ where \in {"pos", "rep2"} => c \in [pos : Int]
  /\ where = "pos" => anchor <= c.pos
  /\ where \in {"depth1", "depth2", "store"} =>
       /\ c \in [pos : Int, best : Best_, probe : Int]
       /\ anchor <= c.pos /\ c.pos <= c.probe /\ Holds(c.pos, c.best)

LazyCursors == LazyPlaced(cur, pc)

\* From these offsets, behind literals or none, value names a distance at which n
\* bytes from v on are repeated.
Named(offsets, ll_zero, value, v, n) == Sound(v, resolve_values(offsets, ll_zero, value).offset, n)

Node == [reached : BOOLEAN, off : Nat, mlen : Nat, litlen : Nat, reps : Triple]

\* The match that leads to node q starts at a node before `limit`, and is one there.
IsMatch(ip, nodes, q, limit) ==
  LET at == Start(nodes[q], q)
  IN  /\ nodes[q].mlen > 0 /\ nodes[q].litlen \in {0, 1} /\ at \in 0..(limit - 1)
      /\ Named(nodes[at].reps, nodes[at].litlen = 0, nodes[q].off, ip + at, nodes[q].mlen)

RepsBehind(nodes, q) ==
  LET at == Start(nodes[q], q)
  IN  resolve_values(nodes[at].reps, nodes[at].litlen = 0, nodes[q].off).reps

\* A node whose offsets are final: the first, one behind a literal, or the end of a
\* match.
IsSettled(ip, nodes, q) ==
  /\ nodes[q].reached
  /\ \/ q = 0 /\ nodes[q].mlen = 0
     \/ /\ q > 0 /\ nodes[q].mlen = 0
        /\ nodes[q].litlen = nodes[q - 1].litlen + 1 /\ nodes[q].reps = nodes[q - 1].reps
     \/ q > 0 /\ IsMatch(ip, nodes, q, q) /\ nodes[q].reps = RepsBehind(nodes, q)

\* A node still open: nothing leads to it yet, or a match from a settled node.
IsOpen(ip, nodes, q, at) ==
  nodes[q].reached =>
    /\ IsMatch(ip, nodes, q, at)
    /\ nodes[q].litlen = 1 => nodes[q].reps = RepsBehind(nodes, q)

FirstNode(ip, nodes) == nodes[0].litlen = ip - anchor /\ nodes[0].reps = reps

Reach(ip) == IF OPT_NUM < seg.hi - ip THEN OPT_NUM ELSE seg.hi - ip

\* Settled before `settled`, open from there to last_pos.
PathNodes(ip, nodes, settled, last_pos) ==
  /\ nodes \in [0..OPT_NUM -> Node] /\ FirstNode(ip, nodes)
  /\ settled \in 1..(last_pos + 1) /\ last_pos \in 1..Reach(ip)
  /\ \A q \in 0..(settled - 1) : IsSettled(ip, nodes, q)
  /\ \A q \in settled..last_pos : IsOpen(ip, nodes, q, settled)

Step == [literals : Nat, value : Nat, length : Nat]

Place == [pos : Int, reps : Triple]

\* One sequence of a path, from a position and offsets to the next ones.
Follows(step, from, to) ==
  /\ Named(from.reps, step.literals = 0, step.value, from.pos + step.literals, step.length)
  /\ to.pos = from.pos + step.literals + step.length
  /\ to.reps = resolve_values(from.reps, step.literals = 0, step.value).reps

\* The sequences of a path lead from here, one after another, to there.
Leads(path, from, to) ==
  \E trail \in Seq(Place) :
    /\ Len(trail) = Len(path) + 1 /\ trail[1] = from /\ trail[Len(path) + 1] = to
    /\ \A k \in 1..Len(path) : Follows(path[k], trail[k], trail[k + 1])

Here == [pos |-> anchor, reps |-> reps]

OptimalPhases == {"optimal", "path", "emit"}

OptimalPlaced(c, where) ==
  /\ where \in OptimalPhases => Optimal /\ saved.inner = NothingAside
  /\ where = "optimal" => c \in [ip : Int] /\ anchor <= c.ip
  /\ where = "path" =>
       /\ c \in [ip : Int, nodes : [0..OPT_NUM -> Node], at : Int, last_pos : Int]
       /\ anchor <= c.ip /\ c.ip < seg.hi
       /\ c.at <= c.last_pos /\ PathNodes(c.ip, c.nodes, c.at, c.last_pos)
  /\ where = "emit" =>
       /\ c \in [ip : Int, path : Seq(Step)] /\ (c.path = <<>> => anchor <= c.ip)
       /\ \E to \in Place : Leads(c.path, Here, to)

OptimalCursors == OptimalPlaced(cur, pc)

SearchPhases == {"start", "first", "second", "look", "chain", "pos", "depth1", "depth2", "store",
                 "rep2", "optimal", "path", "emit"}
SegmentPhases == SearchPhases \cup {"enter", "leave"}
BlockPhases == SegmentPhases \cup {"segment", "close"}

-----------------------------------------------------------------------------
\* The inductive invariant.

NothingSaved == saved = [inner |-> NothingAside, outer |-> NothingAside]

EnterInv ==
  /\ ParseInv /\ anchor = seg.lo
  /\ saved.inner = NothingAside /\ Agreed(reps, hist, saved.outer)
  /\ ~retired => saved.outer = NothingAside
  /\ retired => \A i \in 1..2 : reps[i] <= seg.lo - Higher(P, match_floor(seg.lo))

LeaveInv ==
  SegmentInv /\ RepsInv /\ ThirdAgrees(reps, hist) /\ Agreed(reps, hist, saved.outer)

BlockStartInv ==
  /\ anchor \in Int /\ block.lo <= anchor /\ anchor <= block.hi
  /\ FrontsEqual(reps, hist) /\ ThirdAgrees(reps, hist) /\ NothingSaved

ParserInv ==
  /\ FrameInv /\ OffsetTypes /\ EverySequenceDecodes
  /\ pc \in BlockPhases \cup {"idle"}
  /\ pc \in BlockPhases => UndoInv
  /\ pc \in SegmentPhases => LdmInv
  /\ pc = "idle" => /\ FrontsEqual(carried, hist) /\ ThirdAgrees(carried, hist)
                    /\ NothingSaved /\ last = Nothing
  /\ pc = "segment" => BlockStartInv
  /\ pc = "enter" => EnterInv
  /\ pc \in SearchPhases => ParseInv
  /\ pc = "leave" => LeaveInv
  /\ pc = "close" => FrontsEqual(reps, hist) /\ ThirdAgrees(reps, hist) /\ NothingSaved
  /\ FastCursors /\ LazyCursors /\ OptimalCursors

\* It implies the three properties.
LEMMA ParserInvImplies ==
  ASSUME ParserInv
  PROVE  EverySequenceDecodes /\ OffsetsFollowTheDecoder /\ RepeatReadsInBounds
<1>1. OffsetsFollowTheDecoder
  <2>1. CASE pc = "idle"
    BY <2>1 DEF ParserInv, OffsetsFollowTheDecoder, FrontsEqual
  <2>2. CASE pc = "close"
    BY <2>2 DEF ParserInv, OffsetsFollowTheDecoder, FrontsEqual
  <2>3. CASE pc = "segment"
    BY <2>3 DEF ParserInv, OffsetsFollowTheDecoder, FrontsEqual, BlockStartInv
  <2>4. CASE pc \in SegmentPhases
    BY <2>4 DEF ParserInv, OffsetsFollowTheDecoder, SegmentPhases, SearchPhases, EnterInv, ParseInv, LeaveInv, RepsInv
  <2> QED BY <2>1, <2>2, <2>3, <2>4 DEF ParserInv, BlockPhases
<1>2. RepeatReadsInBounds
  <2> SUFFICES ASSUME pair, pc \in {"first", "look"}, reps[1] # 0
               PROVE  IF Fast THEN cur.ip2 - reps[1] - 1 >= P ELSE cur.ip0 + 1 - reps[1] >= P
    BY DEF RepeatReadsInBounds
  <2>1. P \in Nat /\ reps[1] \in Nat
    BY FrameTypes DEF ParserInv, OffsetTypes, Triple
  <2>2. CASE pc = "first"
    <3>1. /\ Fast /\ cur.ip0 \in Int /\ cur.ip2 \in Int /\ cur.ip0 + 2 <= cur.ip2
          /\ reps[1] + P <= cur.ip0
      BY <2>2 DEF ParserInv, FastCursors, Placed, Close
    <3> QED BY <2>1, <3>1
  <2>3. CASE pc = "look"
    <3>1. ~Fast /\ cur.ip0 \in Int /\ reps[1] + P <= cur.ip0
      BY <2>3 DEF ParserInv, FastCursors, Placed, Close
    <3> QED BY <2>1, <3>1
  <2> QED BY <2>2, <2>3
<1> QED BY <1>1, <1>2 DEF ParserInv

-----------------------------------------------------------------------------
\* Blocks and segments.

\* A frame starts with the invariant: both sides hold the same offsets.
LEMMA ParserInitInv == ParserInit => ParserInv
<1> SUFFICES ASSUME ParserInit PROVE ParserInv
  OBVIOUS
<1>0. pc = "idle" /\ last = Nothing
  BY DEF ParserInit
<1>1. FrameInv
  BY ParserAssumption DEF ParserInit, FrameInv, P, H, Total, Positive
<1>2. setup.reps \in Held /\ (P = 0 => InWindow(setup.reps))
  BY ParserAssumption DEF ParserInit, P, H, Held, InWindow
<1>3. OffsetTypes
  BY <1>2 DEF ParserInit, OffsetTypes, NothingAside, Held, Triple, Positive
<1>4. EverySequenceDecodes
  BY <1>0 DEF EverySequenceDecodes
<1>5. FrontsEqual(carried, hist) /\ ThirdAgrees(carried, hist) /\ NothingSaved
  BY DEF ParserInit, FrontsEqual, ThirdAgrees, NothingSaved
<1>6. FastCursors /\ LazyCursors /\ OptimalCursors
  BY <1>0 DEF FastCursors, Placed, LazyCursors, LazyPlaced, OptimalCursors, OptimalPlaced, OptimalPhases
<1> QED
  BY <1>0, <1>1, <1>3, <1>4, <1>5, <1>6 DEF ParserInv, BlockPhases, SegmentPhases, SearchPhases

\* Once retired, a prefix stays retired: a parser of three offsets was one before.
LEMMA NextBlockStep ==
  ASSUME ParserInv, NextBlock
  PROVE  ParserInv'
<1>1. PICK n \in BlockLengths : n <= H /\ block' = [lo |-> block.hi, hi |-> Lower(block.hi + n, Total)]
  BY DEF NextBlock
<1>2. /\ pc = "idle" /\ block.hi < Total /\ anchor' = block.hi /\ undo' = hist /\ reps' = carried
      /\ pc' = "segment" /\ UNCHANGED <<source, setup, carried, seg, ldm, cur, saved, hist, last>>
  BY DEF NextBlock
<1>3. n \in Nat /\ n > 0
  BY ParserAssumption DEF Positive
<1>4. P' = P /\ H' = H /\ Total' = Total
  BY <1>2 DEF P, H, Total
<1>5. FrameInv /\ OffsetTypes /\ last = Nothing
      /\ FrontsEqual(carried, hist) /\ ThirdAgrees(carried, hist) /\ NothingSaved
  BY <1>2 DEF ParserInv
<1>6. /\ block'.lo = block.hi /\ block'.hi = Lower(block.hi + n, Total)
      /\ block'.hi \in Int /\ block.hi <= block'.hi /\ block'.hi <= Total /\ block'.hi <= block.hi + n
  BY <1>1, <1>2, <1>3, <1>5, FrameTypes DEF FrameInv, Lower
<1>7. FrameInv'
  BY <1>1, <1>2, <1>3, <1>4, <1>5, <1>6, FrameTypes DEF FrameInv
<1>8. Third' => Third
  <2>1. retired => retired'
    BY <1>4, <1>5, <1>6, FrameTypes DEF retired, FrameInv
  <2>2. pair => pair'
    BY <1>2, <1>4, <2>1 DEF pair, Fast
  <2> QED BY <1>2, <2>2 DEF Third
<1>9. OffsetTypes'
  BY <1>2, <1>4, <1>5 DEF OffsetTypes, InWindow
<1>10. EverySequenceDecodes'
  BY <1>2, <1>5 DEF EverySequenceDecodes, Nothing
<1>11. UndoInv'
  <2>1. FrontsEqual(carried, undo)'
    BY <1>2, <1>5 DEF FrontsEqual
  <2>2. ThirdAgrees(carried, undo)'
    BY <1>2, <1>5, <1>8 DEF ThirdAgrees
  <2>3. (P = 0 => InWindow(undo))'
    BY <1>2, <1>4, <1>5 DEF OffsetTypes, InWindow
  <2> QED BY <2>1, <2>2, <2>3 DEF UndoInv
<1>12. BlockStartInv'
  <2>1. FrontsEqual(reps, hist)' /\ ThirdAgrees(reps, hist)' /\ NothingSaved'
    BY <1>2, <1>5, <1>8 DEF FrontsEqual, ThirdAgrees, NothingSaved, NothingAside
  <2>2. (anchor \in Int /\ block.lo <= anchor /\ anchor <= block.hi)'
    BY <1>2, <1>5, <1>6 DEF FrameInv
  <2> QED BY <2>1, <2>2 DEF BlockStartInv
<1>13. FastCursors' /\ LazyCursors' /\ OptimalCursors'
  BY <1>2 DEF FastCursors, Placed, LazyCursors, LazyPlaced, OptimalCursors, OptimalPlaced, OptimalPhases
<1> QED
  BY <1>2, <1>7, <1>9, <1>10, <1>11, <1>12, <1>13
     DEF ParserInv, BlockPhases, SegmentPhases, SearchPhases

\* CloseBlock: the plan is kept and its offsets are carried on, or it is dropped and the
\* decoder is back at the offsets the block started from.
LEMMA CloseBlockStep ==
  ASSUME ParserInv, CloseBlock
  PROVE  ParserInv'
<1>1. /\ pc = "close" /\ pc' = "idle" /\ last' = Nothing
      /\ (carried' = reps /\ hist' = hist) \/ (hist' = undo /\ carried' = carried)
      /\ UNCHANGED <<source, setup, block, undo, seg, ldm, cur, anchor, reps, saved>>
  BY DEF CloseBlock
<1>2. /\ FrameInv /\ OffsetTypes /\ UndoInv
      /\ FrontsEqual(reps, hist) /\ ThirdAgrees(reps, hist) /\ NothingSaved
  BY <1>1 DEF ParserInv, BlockPhases
<1>3. P' = P /\ H' = H /\ Total' = Total /\ (Third' <=> Third)
  <2>1. P' = P /\ H' = H /\ Total' = Total
    BY <1>1 DEF P, H, Total
  <2>2. retired' <=> retired
    BY <1>1, <2>1 DEF retired
  <2> QED BY <1>1, <2>1, <2>2 DEF Third, pair, Fast
<1>4. FrameInv'
  BY <1>1, <1>2, <1>3 DEF FrameInv
<1>5. OffsetTypes'
  BY <1>1, <1>2, <1>3 DEF OffsetTypes, UndoInv, InWindow
<1>6. FrontsEqual(carried, hist)' /\ ThirdAgrees(carried, hist)' /\ NothingSaved'
  BY <1>1, <1>2, <1>3 DEF FrontsEqual, ThirdAgrees, NothingSaved, NothingAside, UndoInv
<1>7. EverySequenceDecodes'
  BY <1>1 DEF EverySequenceDecodes, Nothing
<1>8. FastCursors' /\ LazyCursors' /\ OptimalCursors'
  BY <1>1 DEF FastCursors, Placed, LazyCursors, LazyPlaced, OptimalCursors, OptimalPlaced, OptimalPhases
<1> QED
  BY <1>1, <1>4, <1>5, <1>6, <1>7, <1>8
     DEF ParserInv, BlockPhases, SegmentPhases, SearchPhases, Nothing

\* Offsets that reach too far are put aside, and come back as they were.
LEMMA Invalidated ==
  ASSUME NEW r \in Triple, NEW t \in Held, FrontsEqual(r, t), NEW current \in Int, NEW low \in Int
  PROVE  LET c == invalidate(r, current, low)
         IN  /\ c = [reps |-> c.reps, saved |-> c.saved]
             /\ c.reps \in Triple /\ c.saved \in Nat \X Nat /\ c.reps[3] = r[3]
             /\ Agreed(c.reps, t, c.saved)
             /\ \A i \in 1..2 : c.reps[i] \in {0, r[i]} /\ (c.reps[i] # 0 => c.reps[i] <= current - low)
<1>1. PICK x \in Nat, y \in Nat, z \in Nat : r = <<x, y, z>>
  BY DEF Triple
<1>2. x = t[1] /\ y = t[2] /\ x # 0 /\ y # 0
  BY <1>1 DEF FrontsEqual, Held, Positive
<1> QED BY <1>1, <1>2 DEF invalidate, Triple, Agreed, restore

\* Where they all reach no further, nothing is put aside.
LEMMA NothingInvalidated ==
  ASSUME NEW r \in Triple, NEW current \in Int, NEW low \in Int,
         \A i \in 1..2 : r[i] <= current - low
  PROVE  invalidate(r, current, low) = [reps |-> r, saved |-> NothingAside]
<1>1. PICK x \in Nat, y \in Nat, z \in Nat : r = <<x, y, z>>
  BY DEF Triple
<1> QED BY <1>1 DEF invalidate, NothingAside

\* Offsets of the decoder with nothing aside.
LEMMA AgreedFronts ==
  ASSUME NEW r \in Triple, NEW t \in Held
  PROVE  Agreed(r, t, NothingAside) <=> FrontsEqual(r, t)
BY DEF Triple, Held, Agreed, restore, NothingAside, FrontsEqual, Positive

\* A long-distance match the decoder takes at its start is legal, and stays so when it
\* is cut at the front.
LEMMA LongMatchLegal ==
  ASSUME FrameInv, NEW v \in Int, NEW d \in Positive, block.lo <= v, v <= block.hi,
         decoder_takes(v, d), v - d > ldm_window_low
  PROVE  Legal(v, d)
<1>0. d \in Int /\ d > 0
  BY DEF Positive
<1>1. CASE P = 0
  BY <1>0, <1>1, FrameTypes
     DEF Legal, legal_floor, Windowed, decoder_takes, match_source, None, ldm_window_low, FrameInv
<1>2. CASE P # 0 /\ retired
  BY <1>0, <1>2, FrameTypes DEF Legal, legal_floor, Windowed, retired, ldm_window_low, FrameInv
<1>3. CASE P # 0 /\ ~retired
  <2>1. ~Windowed /\ legal_floor = prefix_low /\ prefix_low = Lower(PREFIX_LOW_LIMIT, P)
    BY <1>3 DEF Windowed, legal_floor, prefix_low
  <2>2. v - d >= PREFIX_LOW_LIMIT \/ v - d >= P
    BY <1>0, <1>3, FrameTypes DEF decoder_takes, match_source, None, FrameInv
  <2>3. v - d >= prefix_low
    BY <1>0, <2>1, <2>2, FrameTypes DEF Lower
  <2> QED BY <2>1, <2>3 DEF Legal
<1> QED BY <1>1, <1>2, <1>3

\* NextSegment: the offsets clamped on entry come back, and a long-distance match ahead
\* is one the decoder takes.
LEMMA NextSegmentStep ==
  ASSUME ParserInv, NextSegment
  PROVE  ParserInv'
<1>1. /\ pc = "segment" /\ pc' = "enter" /\ reps' = clamped(anchor).reps
      /\ saved' = [inner |-> NothingAside, outer |-> clamped(anchor).saved]
      /\ UNCHANGED <<source, setup, block, undo, carried, cur, anchor, hist, last>>
  BY DEF NextSegment, Frame, Storage
<1>2. /\ FrameInv /\ OffsetTypes /\ UndoInv /\ BlockStartInv /\ EverySequenceDecodes
  BY <1>1 DEF ParserInv, BlockPhases
<1>3. /\ P' = P /\ H' = H /\ Total' = Total /\ (Third' <=> Third)
      /\ (retired' <=> retired) /\ (Windowed' <=> Windowed) /\ legal_floor' = legal_floor
      /\ \A v : match_floor(v)' = match_floor(v) /\ Byte(v)' = Byte(v)
  <2>1. P' = P /\ H' = H /\ Total' = Total
    BY <1>1 DEF P, H, Total
  <2>2. retired' <=> retired
    BY <1>1, <2>1 DEF retired
  <2>3. (Windowed' <=> Windowed) /\ (Third' <=> Third)
    BY <1>1, <2>1, <2>2 DEF Windowed, Third, pair, Fast
  <2>4. prefix_low' = prefix_low /\ rep_window_low' = rep_window_low
    BY <1>1, <2>1, <2>2 DEF prefix_low, rep_window_low
  <2>5. \A v : match_floor(v)' = match_floor(v)
    BY <2>1, <2>2, <2>4 DEF match_floor
  <2>6. \A v : Byte(v)' = Byte(v)
    BY <1>1, <2>1 DEF Byte
  <2> QED BY <2>1, <2>2, <2>3, <2>4, <2>5, <2>6 DEF legal_floor
<1>4. /\ block.lo \in Int /\ block.hi \in Int /\ anchor \in Int /\ P \in Nat /\ H \in Nat
      /\ P <= block.lo /\ block.lo <= anchor /\ anchor <= block.hi
      /\ reps \in Triple /\ hist \in Held /\ FrontsEqual(reps, hist) /\ ThirdAgrees(reps, hist)
  BY <1>2, FrameTypes DEF FrameInv, BlockStartInv, OffsetTypes
<1>5. /\ seg'.lo = anchor /\ seg'.hi \in Int /\ anchor <= seg'.hi /\ seg'.hi <= block.hi
      /\ LdmInv'
  <2>1. CASE ldm' = Nothing /\ seg' = [lo |-> anchor, hi |-> block.hi]
    BY <1>4, <2>1 DEF LdmInv, Nothing
  <2>2. CASE ldm' # Nothing \/ seg' # [lo |-> anchor, hi |-> block.hi]
    <3>1. PICK x \in LongMatches(anchor) :
            /\ x.start + x.length <= block.hi /\ decoder_takes(x.start, x.offset)
            /\ x.start - x.offset > ldm_window_low
            /\ \A k \in 0..(x.length - 1) : Byte(x.start + k) = Byte(x.start + k - x.offset)
            /\ ldm' = x
            /\ seg' = [lo |-> anchor, hi |-> IF setup.parser = "optimal" THEN block.hi ELSE x.start]
      BY <2>2 DEF NextSegment
    <3>2. x.start \in Int /\ anchor <= x.start /\ x.start <= block.hi /\ x.offset \in Positive
          /\ x.length \in Positive
      BY <1>2, <1>4, <3>1, FrameTypes DEF LongMatches, Positive
    <3>3. Legal(x.start, x.offset)
      BY <1>2, <1>4, <3>1, <3>2, LongMatchLegal
    <3>4. Legal(ldm.start, ldm.offset)'
      BY <1>3, <3>1, <3>3 DEF Legal
    <3>5. SameBytes(ldm.start, ldm.offset, ldm.length)'
      BY <1>3, <3>1 DEF SameBytes
    <3>6. seg'.lo = anchor /\ seg'.hi = (IF setup'.parser = "optimal" THEN block'.hi ELSE ldm'.start)
          /\ seg'.hi \in Int /\ anchor <= seg'.hi /\ seg'.hi <= block.hi
      BY <1>1, <1>4, <3>1, <3>2
    <3>7. /\ ldm'.start \in Int /\ ldm'.length \in Positive
          /\ seg'.lo <= ldm'.start /\ ldm'.start + ldm'.length <= block'.hi
      BY <1>1, <3>1, <3>2, <3>6
    <3> QED BY <3>4, <3>5, <3>6, <3>7 DEF LdmInv
  <2> QED BY <2>1, <2>2
<1> DEFINE low == Higher(P, match_floor(anchor))
<1>6. low \in Int /\ low <= anchor /\ P <= low /\ (retired => anchor - low <= H)
  BY <1>2, <1>4, FloorTypes, FrameTypes DEF match_floor, Higher, retired, prefix_low
<1>7. /\ reps' \in Triple /\ saved' = [inner |-> NothingAside, outer |-> saved'.outer]
      /\ saved'.outer \in Nat \X Nat /\ reps'[3] = reps[3] /\ Agreed(reps', hist, saved'.outer)
      /\ \A i \in 1..2 : reps'[i] \in {0, reps[i]}
      /\ ~retired => saved'.outer = NothingAside
      /\ retired => \A i \in 1..2 : reps'[i] <= anchor - low
  <2>1. CASE retired
    <3>1. clamped(anchor) = invalidate(reps, anchor, low)
      BY <2>1 DEF clamped
    <3>2. PICK c : c = invalidate(reps, anchor, low)
      OBVIOUS
    <3>3. /\ c.reps \in Triple /\ c.saved \in Nat \X Nat /\ c.reps[3] = reps[3]
          /\ Agreed(c.reps, hist, c.saved)
          /\ \A i \in 1..2 : c.reps[i] \in {0, reps[i]} /\ (c.reps[i] # 0 => c.reps[i] <= anchor - low)
      BY <1>4, <1>6, <3>2, Invalidated
    <3>4. reps' = c.reps /\ saved' = [inner |-> NothingAside, outer |-> c.saved]
      BY <1>1, <3>1, <3>2
    <3>5. \A i \in 1..2 : c.reps[i] <= anchor - low
      BY <1>4, <1>6, <3>3
    <3> QED BY <2>1, <3>3, <3>4, <3>5
  <2>2. CASE ~retired
    <3>1. reps' = reps /\ saved' = [inner |-> NothingAside, outer |-> NothingAside]
      BY <1>1, <2>2 DEF clamped
    <3>2. Agreed(reps, hist, NothingAside)
      BY <1>4, AgreedFronts
    <3> QED BY <1>4, <2>2, <3>1, <3>2 DEF NothingAside
  <2> QED BY <2>1, <2>2
<1> HIDE DEF low
<1>8. OffsetTypes'
  <2>1. saved'.inner = NothingAside /\ NothingAside \in Nat \X Nat
    BY <1>7 DEF NothingAside
  <2> QED BY <1>1, <1>2, <1>3, <1>7, <2>1 DEF OffsetTypes, InWindow
<1>9. FrameInv' /\ UndoInv'
  BY <1>1, <1>2, <1>3 DEF FrameInv, UndoInv, FrontsEqual, ThirdAgrees, InWindow
<1>10. EverySequenceDecodes'
  <2>1. decoder_takes(last.start, last.offset)' <=> decoder_takes(last.start, last.offset)
    BY <1>1, <1>3 DEF decoder_takes
  <2>2. (\A k \in 0..(last.length - 1) : Byte(last.start + k) = Byte(last.start + k - last.offset))'
        <=> (\A k \in 0..(last.length - 1) : Byte(last.start + k) = Byte(last.start + k - last.offset))
    BY <1>1, <1>3 DEF Byte
  <2> QED BY <1>1, <1>2, <2>1, <2>2 DEF EverySequenceDecodes, Nothing, BadOffset
<1>11. SegmentInv'
  BY <1>1, <1>4, <1>5 DEF SegmentInv
<1>12. RepsInv' /\ ThirdAgrees(reps, hist)'
  <2>1. RepsInv'
    BY <1>1, <1>4, <1>7 DEF RepsInv, FrontsEqual
  <2>2. ThirdAgrees(reps, hist)'
    BY <1>1, <1>3, <1>4, <1>7 DEF ThirdAgrees
  <2> QED BY <2>1, <2>2
<1>13. Agreed(reps, hist, saved.outer)' /\ (saved.inner = NothingAside)'
  BY <1>1, <1>7 DEF Agreed, NothingAside
<1>14. (Windowed => InWindow(reps))'
  <2>1. Windowed => \A i \in 1..2 : reps'[i] <= H
    <3>1. CASE P = 0
      <4>1. \A i \in 1..2 : hist[i] <= H
        BY <1>2, <3>1 DEF OffsetTypes, InWindow
      <4> QED BY <1>4, <1>7, <4>1 DEF FrontsEqual
    <3>2. CASE retired
      BY <1>4, <1>6, <1>7, <3>2 DEF Triple
    <3> QED BY <3>1, <3>2 DEF Windowed
  <2> QED BY <1>3, <2>1 DEF InWindow
<1>15. EnterInv'
  <2>1. ParseInv'
    BY <1>11, <1>12, <1>13, <1>14 DEF ParseInv
  <2>2. (anchor = seg.lo)' /\ (~retired => saved.outer = NothingAside)'
    BY <1>1, <1>3, <1>5, <1>7 DEF NothingAside
  <2>3. (retired => \A i \in 1..2 : reps[i] <= seg.lo - Higher(P, match_floor(seg.lo)))'
    <3>1. match_floor(seg.lo)' = match_floor(anchor)
      BY <1>1, <1>3, <1>5 DEF match_floor, rep_window_low, prefix_low
    <3>2. Higher(P, match_floor(seg.lo))' = low
      BY <1>3, <3>1 DEF low, Higher
    <3> QED BY <1>3, <1>5, <1>7, <3>2
  <2> QED BY <1>13, <2>1, <2>2, <2>3 DEF EnterInv
<1>16. FastCursors' /\ LazyCursors' /\ OptimalCursors'
  BY <1>1 DEF FastCursors, Placed, LazyCursors, LazyPlaced, OptimalCursors, OptimalPlaced, OptimalPhases
<1> QED
  BY <1>1, <1>5, <1>8, <1>9, <1>10, <1>15, <1>16
     DEF ParserInv, BlockPhases, SegmentPhases, SearchPhases

\* What was put aside comes back, so the long-distance match is stored from the
\* decoder's own offsets.
LEMMA EndSegmentStep ==
  ASSUME ParserInv, EndSegment
  PROVE  ParserInv'
<1> DEFINE offsets == restore(reps, saved.outer)
           s == [value |-> ldm.offset + 3, reps |-> <<ldm.offset, offsets[1], offsets[2]>>]
<1>1. /\ pc = "leave"
      /\ \/ reps' = offsets /\ pc' = "close" /\ UNCHANGED Storage
         \/ /\ ldm # Nothing /\ setup.parser # "optimal"
            /\ Store(s, ldm.start, ldm.length) /\ pc' = "segment"
      /\ saved' = [inner |-> NothingAside, outer |-> NothingAside]
      /\ UNCHANGED <<Frame, seg, ldm, cur>>
  BY DEF EndSegment
<1>2. UNCHANGED Segment
  BY <1>1 DEF Segment
<1>3. /\ FrameInv /\ OffsetTypes /\ UndoInv /\ LdmInv /\ LeaveInv /\ EverySequenceDecodes
  BY <1>1 DEF ParserInv, BlockPhases, SegmentPhases
<1>4. FrameInv' /\ UndoInv' /\ LdmInv'
  BY <1>2, <1>3, FrameStays, UndoStays, LdmStays
<1>5. offsets \in Triple /\ FrontsEqual(offsets, hist) /\ offsets[3] = reps[3]
  BY <1>3 DEF LeaveInv, Agreed, restore, OffsetTypes, Triple, FrontsEqual
<1> HIDE DEF offsets
<1>6. NothingAside \in Nat \X Nat /\ NothingSaved'
  BY <1>1 DEF NothingAside, NothingSaved
<1>7. FastCursors' /\ LazyCursors' /\ OptimalCursors'
  BY <1>1 DEF FastCursors, Placed, LazyCursors, LazyPlaced, OptimalCursors, OptimalPlaced, OptimalPhases
<1>8. CASE reps' = offsets /\ pc' = "close" /\ UNCHANGED Storage
  <2>1. UNCHANGED <<anchor, hist, last>>
    BY <1>8 DEF Storage
  <2>2. OffsetTypes'
    BY <1>1, <1>2, <1>3, <1>5, <1>6, <1>8, <2>1, SegmentStays DEF OffsetTypes, InWindow
  <2>3. EverySequenceDecodes'
    BY <1>2, <1>3, <2>1, SequenceStays
  <2>4. FrontsEqual(reps, hist)' /\ ThirdAgrees(reps, hist)'
    BY <1>2, <1>3, <1>5, <1>8, <2>1, SegmentStays DEF LeaveInv, FrontsEqual, ThirdAgrees
  <2> QED
    BY <1>4, <1>6, <1>7, <1>8, <2>2, <2>3, <2>4
       DEF ParserInv, BlockPhases, SegmentPhases, SearchPhases
<1>9. CASE ldm # Nothing /\ Store(s, ldm.start, ldm.length) /\ setup.parser # "optimal" /\ pc' = "segment"
  <2> DEFINE d == ldm.offset
  <2>1. /\ Legal(ldm.start, d) /\ SameBytes(ldm.start, d, ldm.length)
        /\ ldm.start \in Int /\ ldm.length \in Int /\ ldm.length > 0
        /\ ldm.start + ldm.length <= block.hi /\ seg.lo <= ldm.start
    BY <1>3, <1>9 DEF LdmInv, Positive
  <2>2. d \in Positive /\ (Windowed => d <= H)
    BY <2>1 DEF Legal
  <2>3. execute_offset(hist, ldm.start = anchor, d + 3) = [offset |-> d, reps |-> <<d, hist[1], hist[2]>>]
    BY <2>2 DEF execute_offset, Positive
  <2>4. /\ last' = [start |-> ldm.start, length |-> ldm.length, offset |-> d]
        /\ hist' = <<d, hist[1], hist[2]>> /\ anchor' = ldm.start + ldm.length
        /\ reps' = <<d, offsets[1], offsets[2]>>
    BY <1>9, <2>3 DEF Store
  <2>5. /\ block.lo \in Int /\ block.hi \in Int /\ P \in Nat /\ P <= block.lo /\ seg.lo \in Int
        /\ block.lo <= seg.lo
    BY <1>3, FrameTypes DEF FrameInv, LeaveInv, SegmentInv
  <2>6. EverySequenceDecodes'
    <3>1. decoder_takes(ldm.start, d)
      BY <1>3, <2>1, <2>5, LegalDecodes
    <3>2. decoder_takes(last.start, last.offset)'
      BY <1>2, <2>4, <3>1, SegmentStays DEF decoder_takes
    <3>3. (\A k \in 0..(last.length - 1) : Byte(last.start + k) = Byte(last.start + k - last.offset))'
      <4>1. \A k \in 0..(ldm.length - 1) : Byte(ldm.start + k)' = Byte(ldm.start + k - d)'
        BY <1>2, <2>1, SegmentStays DEF SameBytes, Byte
      <4> QED BY <1>2, <2>4, <4>1, SegmentStays DEF Byte
    <3>4. (last.offset # BadOffset)' /\ (last.length > 0)' /\ (last.start + last.length <= block.hi)'
      BY <1>2, <2>1, <2>2, <2>4, SegmentStays DEF BadOffset, Positive
    <3> QED BY <3>2, <3>3, <3>4 DEF EverySequenceDecodes
  <2>7. OffsetTypes'
    <3>1. reps' \in Triple /\ hist' \in Held
      BY <1>3, <1>5, <2>2, <2>4 DEF OffsetTypes, Triple, Held, Positive
    <3>2. P = 0 => \A i \in 1..2 : hist'[i] <= H
      BY <1>3, <2>2, <2>4 DEF OffsetTypes, InWindow, Windowed
    <3> QED BY <1>1, <1>2, <1>3, <1>6, <3>1, <3>2, SegmentStays DEF OffsetTypes, InWindow
  <2>8. BlockStartInv'
    <3>1. FrontsEqual(reps, hist)' /\ ThirdAgrees(reps, hist)'
      BY <1>5, <2>4 DEF FrontsEqual, ThirdAgrees
    <3>2. (anchor \in Int /\ block.lo <= anchor /\ anchor <= block.hi)'
      BY <1>2, <2>1, <2>4, <2>5, SegmentStays
    <3> QED BY <1>6, <3>1, <3>2 DEF BlockStartInv
  <2> QED
    BY <1>4, <1>7, <1>9, <2>6, <2>7, <2>8 DEF ParserInv, BlockPhases, SegmentPhases, SearchPhases
<1> QED BY <1>1, <1>8, <1>9

\* A parser leaves its segment as it came, or gives back what it put aside itself.
LEMMA LeaveStep ==
  ASSUME FrameInv, OffsetTypes, UndoInv, LdmInv, EverySequenceDecodes,
         pc' = "leave", UNCHANGED <<Segment, Storage, saved>>, SegmentInv,
         reps' \in Triple, \A i \in 1..2 : reps'[i] \in {0, hist[i]},
         ThirdAgrees(reps', hist), Agreed(reps', hist, saved.outer)
  PROVE  ParserInv'
<1>1. UNCHANGED Segment /\ UNCHANGED <<anchor, hist, last, saved>>
  BY DEF Storage
<1>2. FrameInv' /\ UndoInv' /\ LdmInv' /\ EverySequenceDecodes'
  BY <1>1, FrameStays, UndoStays, LdmStays, SequenceStays
<1>3. OffsetTypes'
  BY <1>1, SegmentStays DEF OffsetTypes, InWindow
<1>4. SegmentInv'
  BY <1>1, SegmentStays DEF SegmentInv
<1>5. RepsInv' /\ ThirdAgrees(reps, hist)' /\ Agreed(reps, hist, saved.outer)'
  BY <1>1, SegmentStays DEF RepsInv, ThirdAgrees, Agreed, OffsetTypes
<1>6. LeaveInv'
  BY <1>4, <1>5 DEF LeaveInv
<1>7. FastCursors' /\ LazyCursors' /\ OptimalCursors'
  BY DEF FastCursors, Placed, LazyCursors, LazyPlaced, OptimalCursors, OptimalPlaced, OptimalPhases
<1> QED BY <1>2, <1>3, <1>6, <1>7 DEF ParserInv, BlockPhases, SegmentPhases, SearchPhases

\* Without a search: Leave(reps), from the segment's entry or from a parser that put
\* nothing aside.
LEMMA LeaveAsIs ==
  ASSUME BaseInv, ParseInv, saved.inner = NothingAside, Leave(reps)
  PROVE  ParserInv'
<1>1. pc' = "leave" /\ reps' = reps /\ UNCHANGED <<Segment, Storage, saved>>
  BY DEF Leave
<1>2. Agreed(reps, hist, saved.outer)
  BY DEF ParseInv
<1>3. OffsetTypes /\ RepsInv
  BY DEF BaseInv, ParseInv
<1> QED BY <1>1, <1>2, <1>3, LeaveStep DEF BaseInv, ParseInv, RepsInv

\* A parser that put offsets aside on entry leaves with them restored.
LEMMA LeaveRestored ==
  ASSUME BaseInv, ParseInv, Leave(restore(reps, saved.inner))
  PROVE  ParserInv'
<1> DEFINE offsets == restore(reps, saved.inner)
<1>1. pc' = "leave" /\ reps' = offsets /\ UNCHANGED <<Segment, Storage, saved>>
  BY DEF Leave
<1>2. /\ reps \in Triple /\ hist \in Held /\ saved.inner \in Nat \X Nat /\ saved.outer \in Nat \X Nat
      /\ RepsInv /\ ThirdAgrees(reps, hist)
  BY DEF BaseInv, OffsetTypes, ParseInv
<1>3. offsets \in Triple /\ offsets[3] = reps[3]
  BY <1>2 DEF restore, Triple
<1>4. CASE saved.inner = NothingAside /\ Agreed(reps, hist, saved.outer)
  <2>1. offsets = reps
    BY <1>2, <1>4 DEF restore, NothingAside, Triple
  <2> QED BY <1>1, <1>2, <1>4, <2>1, LeaveStep DEF BaseInv, ParseInv, RepsInv
<1>5. CASE saved.outer = NothingAside /\ Agreed(reps, hist, saved.inner)
  <2>1. FrontsEqual(offsets, hist)
    BY <1>5 DEF Agreed, FrontsEqual
  <2>2. Agreed(offsets, hist, NothingAside)
    BY <1>2, <1>3, <2>1, AgreedFronts
  <2>3. \A i \in 1..2 : offsets[i] \in {0, hist[i]}
    BY <2>1 DEF FrontsEqual
  <2>4. ThirdAgrees(offsets, hist)
    BY <1>2, <1>3 DEF ThirdAgrees
  <2> HIDE DEF offsets
  <2> QED BY <1>1, <1>3, <1>5, <2>2, <2>3, <2>4, LeaveStep DEF BaseInv, ParseInv
<1> QED BY <1>4, <1>5 DEF ParseInv
-----------------------------------------------------------------------------
\* A segment's search: what it starts from and what brings it back to the invariant.

\* While a parser searches, the frame and the offsets are in order.
LEMMA InSearch ==
  ASSUME ParserInv, pc \in SearchPhases
  PROVE  BaseInv /\ ParseInv
BY DEF ParserInv, BaseInv, BlockPhases, SegmentPhases

\* ... and when they are, with the cursors, the invariant holds.
LEMMA StillSearching ==
  ASSUME BaseInv', ParseInv', pc' \in SearchPhases, FastCursors', LazyCursors', OptimalCursors'
  PROVE  ParserInv'
<1>1. /\ pc' \notin {"idle", "segment", "enter", "leave", "close"}
      /\ pc' \in SegmentPhases /\ pc' \in BlockPhases
  BY DEF SearchPhases, SegmentPhases, BlockPhases
<1> QED BY <1>1 DEF ParserInv, BaseInv

\* What a parser may do to the offsets as it enters: put some aside, unless the
\* segment already has.
ClampInv(clamp) ==
  /\ clamp = [reps |-> clamp.reps, saved |-> clamp.saved]
  /\ clamp.reps \in Triple /\ clamp.saved \in Nat \X Nat
  /\ clamp.reps[3] = reps[3] /\ \A i \in 1..2 : clamp.reps[i] \in {0, reps[i]}
  /\ \/ clamp.saved = NothingAside /\ clamp.reps = reps
     \/ saved.outer = NothingAside /\ Agreed(clamp.reps, hist, clamp.saved)

\* A parser that leaves them as they are.
LEMMA UnclampedHolds ==
  ASSUME BaseInv, EnterInv
  PROVE  ClampInv(Unclamped)
BY DEF BaseInv, OffsetTypes, ClampInv, Unclamped, NothingAside, Triple

\* A clamp on entry, in a block whose prefix has not retired.
LEMMA ClampHolds ==
  ASSUME BaseInv, EnterInv, ~retired, NEW current \in Int, NEW low \in Int
  PROVE  /\ ClampInv(invalidate(reps, current, low))
         /\ \A i \in 1..2 : invalidate(reps, current, low).reps[i] # 0 =>
              invalidate(reps, current, low).reps[i] <= current - low
<1>1. reps \in Triple /\ hist \in Held /\ saved.outer = NothingAside /\ Agreed(reps, hist, NothingAside)
  BY DEF BaseInv, OffsetTypes, EnterInv
<1>2. FrontsEqual(reps, hist)
  BY <1>1, AgreedFronts
<1>3. PICK c : c = invalidate(reps, current, low)
  OBVIOUS
<1>4. /\ c = [reps |-> c.reps, saved |-> c.saved]
      /\ c.reps \in Triple /\ c.saved \in Nat \X Nat /\ c.reps[3] = reps[3]
      /\ Agreed(c.reps, hist, c.saved)
      /\ \A i \in 1..2 : c.reps[i] \in {0, reps[i]} /\ (c.reps[i] # 0 => c.reps[i] <= current - low)
  BY <1>1, <1>2, <1>3, Invalidated
<1> QED BY <1>1, <1>3, <1>4 DEF ClampInv

\* Behind the clamp the search starts in order.
LEMMA Entered ==
  ASSUME BaseInv, EnterInv, NEW clamp, ClampInv(clamp), reps' = clamp.reps,
         saved' = [saved EXCEPT !.inner = clamp.saved], anchor' = seg.lo,
         UNCHANGED <<Segment, hist, last>>
  PROVE  BaseInv' /\ ParseInv'
<1>1. UNCHANGED Segment /\ UNCHANGED <<hist, last>>
  OBVIOUS
<1>2. /\ FrameInv /\ OffsetTypes /\ ParseInv /\ anchor = seg.lo
      /\ saved.inner = NothingAside /\ Agreed(reps, hist, saved.outer)
  BY DEF BaseInv, EnterInv
<1>3. saved' = [inner |-> clamp.saved, outer |-> saved.outer]
  <2>1. saved = [inner |-> saved.inner, outer |-> saved.outer]
    BY <1>2 DEF OffsetTypes
  <2> QED BY <2>1
<1>4. FrameInv' /\ UndoInv' /\ LdmInv' /\ EverySequenceDecodes'
  BY <1>1, FrameStays, UndoStays, LdmStays, SequenceStays DEF BaseInv
<1>5. OffsetTypes'
  BY <1>1, <1>2, <1>3, SegmentStays DEF OffsetTypes, InWindow, ClampInv
<1>6. SegmentInv'
  BY <1>1, <1>2, SegmentStays DEF ParseInv, SegmentInv
<1>7. RepsInv'
  BY <1>1, <1>2 DEF ParseInv, RepsInv, ClampInv
<1>8. ThirdAgrees(reps, hist)'
  BY <1>1, <1>2, SegmentStays DEF ParseInv, ThirdAgrees, ClampInv
<1>9. (Windowed => InWindow(reps))'
  <2>1. Windowed => \A i \in 1..2 : clamp.reps[i] <= H
    BY <1>2, FrameTypes DEF ParseInv, InWindow, ClampInv
  <2> QED BY <1>1, <2>1, SegmentStays DEF InWindow
<1>10. \/ (saved.inner = NothingAside /\ Agreed(reps, hist, saved.outer))'
       \/ (saved.outer = NothingAside /\ Agreed(reps, hist, saved.inner))'
  BY <1>1, <1>2, <1>3 DEF ClampInv, Agreed, NothingAside
<1> QED BY <1>4, <1>5, <1>6, <1>7, <1>8, <1>9, <1>10 DEF BaseInv, ParseInv

-----------------------------------------------------------------------------
\* The Fast and DoubleFast parsers.

FastPhases == {"start", "first", "second", "look", "chain"}

\* A fast parser goes on searching.
LEMMA FastGoesOn ==
  ASSUME BaseInv', ParseInv', pc' \in FastPhases, FastCursors'
  PROVE  ParserInv'
<1>1. LazyCursors' /\ OptimalCursors'
  BY DEF FastPhases, LazyCursors, LazyPlaced, OptimalCursors, OptimalPlaced, OptimalPhases
<1> QED BY <1>1, StillSearching DEF FastPhases, SearchPhases

\* Entry: a parser of two offsets has put aside what its first position cannot reach.
LEMMA FastEnters ==
  ASSUME ParserInv, NEW entry \in Int, seg.lo <= entry, NEW clamp,
         pc = "enter" => ClampInv(clamp),
         pc = "enter" /\ pair => \A i \in 1..2 : clamp.reps[i] # 0 => clamp.reps[i] + P <= entry,
         EnterAtIp(entry, clamp)
  PROVE  ParserInv'
<1>1. pc = "enter" /\ BaseInv /\ EnterInv /\ ClampInv(clamp)
  BY DEF EnterAtIp, ParserInv, BaseInv, BlockPhases, SegmentPhases
<1>2. CASE Leave(reps)
  BY <1>1, <1>2, LeaveAsIs DEF EnterInv
<1>3. CASE ~Leave(reps)
  <2>1. /\ reps' = clamp.reps /\ saved' = [saved EXCEPT !.inner = clamp.saved]
        /\ cur' = [ip0 |-> entry] /\ anchor' = seg.lo /\ pc' = "start"
        /\ UNCHANGED <<Segment, hist, last>>
    BY <1>3 DEF EnterAtIp
  <2>2. BaseInv' /\ ParseInv'
    BY <1>1, <2>1, Entered
  <2>3. (pair => Close(cur.ip0))'
    BY <1>1, <2>1, SegmentStays DEF Close
  <2>4. FastCursors'
    BY <2>1, <2>3 DEF FastCursors, Placed
  <2> QED BY <2>1, <2>2, <2>4, FastGoesOn DEF FastPhases
<1> QED BY <1>2, <1>3

\* The cursors move to where they may be.
LEMMA FastMoves ==
  ASSUME ParserInv, pc \in FastPhases, NEW c, NEW where \in FastPhases, Search(c, where),
         Placed(c, where)
  PROVE  ParserInv'
<1>1. cur' = c /\ pc' = where /\ UNCHANGED <<Segment, Storage, Offsets>>
  BY DEF Search
<1>2. UNCHANGED Segment /\ UNCHANGED <<anchor, reps>>
  BY <1>1 DEF Storage, Offsets
<1>3. BaseInv' /\ ParseInv'
  <2>1. BaseInv /\ ParseInv
    BY InSearch DEF FastPhases, SearchPhases
  <2> QED BY <1>1, <2>1, SearchKeeps
<1>4. P' = P /\ (pair' <=> pair) /\ setup' = setup
  BY <1>2, SegmentStays
<1>5. FastCursors'
  BY <1>1, <1>2, <1>4 DEF FastCursors, Placed, ClosedUp, Close, Fast
<1> QED BY <1>1, <1>3, <1>5, FastGoesOn

\* ... or the parser is done.
LEMMA FastFinishes ==
  ASSUME ParserInv, pc \in SearchPhases, Leave(restore(reps, saved.inner))
  PROVE  ParserInv'
BY InSearch, LeaveRestored

\* A sound match is stored, and the chain of second repeats follows.
LEMMA FastStores ==
  ASSUME ParserInv, pc \in FastPhases, NEW s, NEW start \in Int, NEW length, NEW d,
         Store(s, start, length), UNCHANGED <<Segment, saved>>, pc' = "chain",
         Meant(s, start = anchor, d), Sound(start, d, length), anchor <= start,
         pair => \E x \in Int : Close(x) /\ x <= start + length
  PROVE  ParserInv'
<1>1. BaseInv /\ ParseInv
  BY InSearch DEF FastPhases, SearchPhases
<1>2. /\ BaseInv' /\ ParseInv'
      /\ \A x \in Int : pair /\ Close(x) /\ x <= start + length => ClosedUp'
  BY <1>1, StoreKeeps DEF Sound
<1>3. pair' <=> pair
  BY SegmentStays
<1>4. FastCursors'
  BY <1>2, <1>3 DEF FastCursors, Placed
<1> QED BY <1>2, <1>4, FastGoesOn DEF FastPhases

\* A repeat that is looked for above a legal floor is sound.
LEMMA RepeatSound ==
  ASSUME BaseInv, ParseInv, NEW i \in 1..2, NEW v \in Int, NEW floor \in Int, floor >= legal_floor,
         RepeatAt(v, reps[i], floor)
  PROVE  Sound(v, reps[i], Count(v - reps[i], v))
<1>1. /\ reps[i] \in Nat /\ reps[i] # 0 /\ v - reps[i] >= floor /\ v + MIN_MATCH <= seg.hi
      /\ Count(v - reps[i], v) >= MIN_MATCH
  BY DEF RepeatAt, ParseInv, RepsInv, Triple
<1>2. MIN_MATCH \in Nat /\ MIN_MATCH > 0 /\ seg.hi \in Int /\ legal_floor \in Int
  BY FrameTypes, FloorTypes DEF BaseInv, ParseInv, SegmentInv
<1>3. Legal(v, reps[i])
  BY <1>1, <1>2 DEF Legal, ParseInv, InWindow, Positive
<1>4. v <= seg.hi
  BY <1>1, <1>2
<1>5. v - (v - reps[i]) = reps[i] /\ v - reps[i] \in Int
  BY <1>1
<1>6. /\ Count(v - reps[i], v) \in Int /\ Count(v - reps[i], v) <= seg.hi - v
      /\ SameBytes(v, reps[i], Count(v - reps[i], v))
  BY <1>4, <1>5, CountFacts DEF ParseInv
<1> QED BY <1>1, <1>2, <1>3, <1>6 DEF Sound

\* What a table returns above a legal floor is sound, and so is any extension of it
\* back to another.
LEMMA CandidateSound ==
  ASSUME BaseInv, ParseInv, NEW v \in Int, NEW low \in Int, NEW least \in Positive,
         NEW m \in Candidates(v, low, least), Legal(v, v - m)
  PROVE  /\ m \in Int /\ low <= m /\ m < v /\ v - m \in Positive
         /\ Sound(v, v - m, Count(m, v)) /\ Count(m, v) >= least
         /\ anchor <= v =>
              \A floor \in Int : floor >= legal_floor /\ m >= floor =>
                LET k == Back(v, v - m, floor)
                IN  k \in Nat /\ anchor <= v - k /\ Sound(v - k, v - m, Count(m, v) + k)
<1>1. /\ m \in Int /\ low <= m /\ m < v /\ v + least <= seg.hi /\ Count(m, v) >= least
      /\ least \in Int /\ least > 0 /\ seg.hi \in Int /\ legal_floor \in Int
  BY FloorTypes DEF Candidates, Positive, BaseInv, ParseInv, SegmentInv
<1> DEFINE n == Count(m, v)
<1>2. n \in Int /\ n <= seg.hi - v /\ SameBytes(v, v - m, n)
  <2>1. SegmentInv /\ v <= seg.hi
    BY <1>1 DEF ParseInv
  <2> HIDE DEF ParseInv
  <2> QED BY <1>1, <2>1, CountFacts
<1>3. Sound(v, v - m, n)
  BY <1>1, <1>2 DEF Sound
<1>4. ASSUME anchor <= v, NEW floor \in Int, floor >= legal_floor, m >= floor
      PROVE  LET k == Back(v, v - m, floor)
             IN  k \in Nat /\ anchor <= v - k /\ Sound(v - k, v - m, Count(m, v) + k)
  <2> DEFINE k == Back(v, v - m, floor)
  <2>0. v - m \in Int /\ v - (v - m) >= floor /\ anchor \in Int
    BY <1>1, <1>4 DEF ParseInv, SegmentInv
  <2>1. /\ k \in Int /\ 0 <= k /\ k <= v - anchor /\ (k > 0 => v - k - (v - m) >= floor)
        /\ \A j \in 1..k : Byte(v - j) = Byte(v - j - (v - m))
    BY <1>4, <2>0, BackFacts DEF ParseInv
  <2> HIDE DEF k
  <2>2. SameBytes(v - k, v - m, n + k)
    BY <1>2, <2>0, <2>1, ExtendedMatch
  <2>3. v - k - (v - m) >= legal_floor
    BY <1>1, <1>4, <2>1
  <2>4. Legal(v - k, v - m)
    BY <2>3 DEF Legal
  <2>5. n + k \in Int /\ n + k > 0 /\ v - k + (n + k) <= seg.hi /\ anchor <= v - k /\ k \in Nat
    BY <1>1, <1>2, <2>0, <2>1
  <2> QED BY <2>2, <2>4, <2>5 DEF Sound, k
<1> QED BY <1>1, <1>3, <1>4 DEF Positive

\* What the steps below have in hand while a fast parser searches.
LEMMA FastInHand ==
  ASSUME ParserInv, pc \in FastPhases
  PROVE  /\ BaseInv /\ ParseInv /\ FastCursors
         /\ anchor \in Int /\ seg.hi \in Int /\ P \in Nat /\ window_low \in Int
         /\ window_low >= legal_floor /\ legal_floor \in Int
         /\ (pair => legal_floor = P)
<1>1. BaseInv /\ ParseInv /\ FastCursors
  BY InSearch DEF FastPhases, SearchPhases, ParserInv
<1>2. /\ anchor \in Int /\ seg.hi \in Int /\ P \in Nat /\ window_low \in Int
      /\ window_low >= legal_floor /\ legal_floor \in Int
  BY <1>1, WindowLowLegal, FloorTypes, FrameTypes DEF BaseInv, ParseInv, SegmentInv
<1>3. pair => legal_floor = P
  BY DEF pair, legal_floor, Windowed
<1> QED BY <1>1, <1>2, <1>3

\* A table's candidate, for the fast pair.
LEMMA TableSound ==
  ASSUME ParserInv, pc \in FastPhases, NEW v \in Int, anchor <= v, NEW least \in Positive,
         NEW m \in Candidates(v, window_low, least)
  PROVE  /\ m \in Int /\ m >= window_low /\ m < v /\ v - m \in Positive
         /\ \A floor \in Int : floor >= legal_floor /\ m >= floor =>
              LET k == Back(v, v - m, floor)
              IN  k \in Nat /\ anchor <= v - k /\ Sound(v - k, v - m, Count(m, v) + k)
<1>1. BaseInv /\ ParseInv /\ window_low \in Int /\ seg.hi \in Int
  BY FastInHand
<1>2. m \in Int /\ m >= window_low /\ m < v /\ v + least <= seg.hi
  BY <1>1 DEF Candidates
<1>3. v - m \in Positive /\ v <= seg.hi /\ v - (v - m) >= window_low
  BY <1>1, <1>2 DEF Positive
<1>4. Legal(v, v - m)
  BY <1>1, <1>3, WindowLowLegal DEF BaseInv, ParseInv
<1> QED BY <1>1, <1>2, <1>4, CandidateSound

\* store_explicit_sequence_no_trace, from a position at or behind the first cursor.
LEMMA TakePairStep ==
  ASSUME ParserInv, pc \in FastPhases, setup.parser \in {"fast", "double_fast"}, pair,
         NEW x \in Int, NEW v \in Int, anchor <= v, x <= v, Close(x),
         NEW least \in Positive, NEW m \in Candidates(v, window_low, least), TakePair(v, m)
  PROVE  ParserInv'
<1> DEFINE k == Back(v, v - m, P)
<1>1. /\ BaseInv /\ ParseInv /\ anchor \in Int /\ P \in Int /\ legal_floor = P
      /\ window_low >= P
  BY FastInHand
<1>2. m \in Int /\ m >= window_low /\ m < v /\ v - m \in Positive
  BY TableSound
<1>3. m >= P
  BY <1>1, <1>2, FastInHand
<1>4. k \in Nat /\ anchor <= v - k /\ Sound(v - k, v - m, Count(m, v) + k)
  BY <1>1, <1>3, TableSound
<1>5. /\ Store(pair_explicit(v - m), v - k, Count(m, v) + k) /\ pc' = "chain"
      /\ UNCHANGED <<Segment, saved>>
  BY DEF TakePair, Chained
<1> HIDE DEF k
<1>6. Meant(pair_explicit(v - m), v - k = anchor, v - m)
  BY <1>1, <1>2, PairExplicitMeant DEF ParseInv
<1>7. x <= v - k + (Count(m, v) + k)
  <2>1. Count(m, v) \in Int /\ Count(m, v) >= 0
    <3>1. v <= seg.hi
      BY FastInHand DEF Candidates, Positive
    <3> QED BY <1>1, <1>2, <3>1, CountFacts DEF ParseInv
  <2> QED BY <1>4, <2>1
<1> QED BY <1>4, <1>5, <1>6, <1>7, FastStores

\* store_lazy_regular_sequence_with_source, extended in the match's own region.
LEMMA TakeLogicalStep ==
  ASSUME ParserInv, pc \in FastPhases, ~pair, NEW v \in Int, anchor <= v,
         NEW least \in Positive, NEW m \in Candidates(v, window_low, least), TakeLogical(v, m)
  PROVE  ParserInv'
<1> DEFINE floor == back_floor(m, window_low)
           k == Back(v, v - m, floor)
<1>1. /\ BaseInv /\ ParseInv /\ P \in Int /\ window_low \in Int /\ legal_floor \in Int
      /\ window_low >= legal_floor
  BY FastInHand
<1>2. m \in Int /\ m >= window_low /\ m < v /\ v - m \in Positive
  BY TableSound
<1>3. floor \in Int /\ floor >= legal_floor /\ m >= floor
  BY <1>1, <1>2 DEF back_floor, Higher
<1> HIDE DEF floor
<1>4. k \in Nat /\ anchor <= v - k /\ Sound(v - k, v - m, Count(m, v) + k)
  BY <1>1, <1>3, TableSound
<1>5. /\ Store(explicit(v - m), v - k, Count(m, v) + k) /\ pc' = "chain"
      /\ UNCHANGED <<Segment, saved>>
  BY DEF TakeLogical, Chained, floor
<1> HIDE DEF k
<1>6. Meant(explicit(v - m), v - k = anchor, v - m)
  BY <1>1, <1>2, ExplicitMeant DEF ParseInv
<1> QED BY <1>4, <1>5, <1>6, FastStores

\* A repeat, by a parser of three offsets, with or without the byte before it.
LEMMA TakeRepeatStep ==
  ASSUME ParserInv, pc \in FastPhases, ~pair, NEW v \in Int, RepeatAt(v, reps[1], window_low),
         NEW more \in {0, 1}, anchor <= v - more,
         more = 1 => /\ v - reps[1] - 1 >= window_low
                     /\ Byte(v - 1) = Byte(v - reps[1] - 1),
         TakeRepeat(classified(v - more, reps[1]), v, more)
  PROVE  ParserInv'
<1> DEFINE d == reps[1]
           n == Count(v - reps[1], v)
<1>1. /\ BaseInv /\ ParseInv /\ window_low \in Int /\ legal_floor \in Int
      /\ window_low >= legal_floor /\ seg.hi \in Int
  BY FastInHand
<1>2. Sound(v, d, n)
  BY <1>1, RepeatSound
<1>3. d \in Positive /\ d \in Int
  BY <1>2 DEF Sound, Legal, Positive
<1> HIDE DEF d, n
<1>4. Sound(v - more, d, n + more)
  <2>1. \A j \in 1..more : Byte(v - j) = Byte(v - j - d)
    <3>1. more = 1 => v - 1 - d = v - d - 1
      BY <1>3
    <3> QED BY <3>1 DEF d
  <2>2. SameBytes(v - more, d, n + more)
    BY <1>2, <1>3, <2>1, ExtendedMatch DEF Sound
  <2>3. Legal(v - more, d)
    BY <1>1, <1>2, <1>3 DEF Sound, Legal, d
  <2> QED BY <1>1, <1>2, <2>2, <2>3 DEF Sound
<1>5. Meant(classified(v - more, d), v - more = anchor, d)
  <2>1. Third
    BY DEF Third
  <2> QED BY <1>1, <1>3, <2>1, ClassifiedMeant DEF ParseInv
<1>6. /\ Store(classified(v - more, d), v - more, n + more) /\ pc' = "chain"
      /\ UNCHANGED <<Segment, saved>>
  BY DEF TakeRepeat, Chained, d, n
<1> QED BY <1>4, <1>5, <1>6, FastStores

\* A repeat read without a test of the window, by a parser of two offsets: the first
\* cursor is far enough for it, and the parser is behind literals.
LEMMA TakePairRepeatStep ==
  ASSUME ParserInv, pc \in FastPhases, pair, NEW x \in Int, NEW v \in Int, Close(x),
         reps[1] # 0, Count(v - reps[1], v) >= MIN_MATCH,
         NEW more \in {0, 1}, NEW start \in Int, start = v - more, anchor < start, x < start,
         more = 1 => Byte(v - 1) = Byte(v - reps[1] - 1),
         TakeRepeat(pair_repeat(start, reps[1]), v, more)
  PROVE  ParserInv'
<1> DEFINE d == reps[1]
           n == Count(v - reps[1], v)
<1>1. /\ BaseInv /\ ParseInv /\ anchor \in Int /\ P \in Nat /\ legal_floor = P /\ seg.hi \in Int
      /\ MIN_MATCH \in Nat /\ MIN_MATCH > 0
  BY FastInHand, FrameTypes DEF BaseInv
<1>2. d \in Nat /\ d > 0 /\ d \in Positive /\ d + P <= x
  BY <1>1 DEF ParseInv, RepsInv, Triple, Positive, Close
<1>3. v <= seg.hi
  <2>1. v - d \in Int /\ SegmentInv
    BY <1>1, <1>2 DEF ParseInv
  <2>2. v > seg.hi => Count(v - d, v) \in Int /\ Count(v - d, v) < 0
    BY <2>1, CountPastEnd
  <2>3. Count(v - d, v) >= MIN_MATCH
    OBVIOUS
  <2> HIDE DEF d
  <2> QED BY <1>1, <2>2, <2>3
<1>4. n \in Int /\ n > 0 /\ v + n <= seg.hi /\ SameBytes(v, d, n)
  <2>1. v - d \in Int /\ v - (v - d) = d /\ SegmentInv
    BY <1>1, <1>2 DEF ParseInv
  <2>2. n >= MIN_MATCH
    OBVIOUS
  <2> HIDE DEF d
  <2>3. n \in Int /\ n <= seg.hi - v /\ SameBytes(v, d, n)
    BY <1>3, <2>1, CountFacts DEF d
  <2> QED BY <1>1, <2>2, <2>3
<1>5. Meant(pair_repeat(start, d), start = anchor, d)
  BY <1>1, <1>2, PairRepeatMeant DEF ParseInv
<1>6. /\ Store(pair_repeat(start, d), v - more, n + more) /\ pc' = "chain"
      /\ UNCHANGED <<Segment, saved>>
  BY DEF TakeRepeat, Chained
<1>7. Windowed => d <= H
  BY <1>1 DEF ParseInv, InWindow
<1> HIDE DEF n
<1>8. Sound(v - more, d, n + more)
  <2>1. \A j \in 1..more : Byte(v - j) = Byte(v - j - d)
    <3>1. more = 1 => v - 1 - d = v - d - 1
      BY <1>2
    <3> QED BY <3>1
  <2>2. SameBytes(v - more, d, n + more)
    BY <1>2, <1>4, <2>1, ExtendedMatch
  <2>3. Legal(v - more, d)
    BY <1>1, <1>2, <1>7 DEF Legal
  <2> QED BY <1>1, <1>4, <2>2, <2>3 DEF Sound
<1> HIDE DEF d
<1>9. x <= v - more + (n + more)
  BY <1>4
<1>10. Store(pair_repeat(start, d), start, n + more) /\ Sound(start, d, n + more) /\ x <= start + (n + more)
  BY <1>6, <1>8, <1>9 DEF Store
<1> QED BY <1>10, <1>1, <1>5, <1>6, <1>8, <1>9, FastStores

\* The second repeats behind a match.
LEMMA SecondRepeatsStep ==
  ASSUME ParserInv, NEW floor \in Int, floor >= legal_floor, NEW s,
         reps[2] # 0 => Meant(s, TRUE, reps[2]), SecondRepeats(floor, s)
  PROVE  ParserInv'
<1>0. pc = "chain" /\ pc \in FastPhases
  BY DEF SecondRepeats, FastPhases
<1>1. BaseInv /\ ParseInv /\ FastCursors /\ anchor \in Int /\ (pair => ClosedUp)
  BY <1>0, FastInHand DEF FastCursors, Placed
<1>2. CASE anchor <= search_limit /\ RepeatAt(anchor, reps[2], floor)
  <2> DEFINE n == Count(anchor - reps[2], anchor)
  <2>1. Store(s, anchor, n) /\ UNCHANGED <<Segment, saved>> /\ pc' = "chain"
    BY <1>0, <1>2 DEF SecondRepeats
  <2>2. Sound(anchor, reps[2], n)
    BY <1>1, <1>2, RepeatSound
  <2>3. reps[2] # 0
    BY <1>2 DEF RepeatAt
  <2>4. Meant(s, anchor = anchor, reps[2])
    BY <2>3 DEF Meant
  <2>5. pair => \E x \in Int : Close(x) /\ x <= anchor + n
    BY <1>1, <2>2 DEF ClosedUp, Sound
  <2> HIDE DEF n
  <2> QED BY <1>0, <1>1, <2>1, <2>2, <2>4, <2>5, FastStores
<1>3. CASE ~(anchor <= search_limit /\ RepeatAt(anchor, reps[2], floor))
  <2>1. Search([ip0 |-> anchor], "start")
    BY <1>3 DEF SecondRepeats
  <2>2. Placed([ip0 |-> anchor], "start")
    BY <1>1 DEF Placed, ClosedUp
  <2> QED BY <1>0, <2>1, <2>2, FastMoves DEF FastPhases
<1> QED BY <1>2, <1>3

\* Where a repeat may be read from one position, it may from a later one.
LEMMA CloseAhead ==
  ASSUME BaseInv, NEW x \in Int, NEW y \in Int, x <= y, Close(x)
  PROVE  Close(y)
BY FrameTypes DEF BaseInv, OffsetTypes, Triple, Close

\* 'start, with four cursors.
LEMMA PipelineStep ==
  ASSUME ParserInv, Fast, Pipeline
  PROVE  ParserInv'
<1>1. pc = "start" /\ pc \in FastPhases /\ pc \in SearchPhases
  BY DEF Pipeline, FastPhases, SearchPhases
<1>2. CASE Finish
  BY <1>1, <1>2, FastFinishes DEF Finish
<1>3. CASE ~Finish
  <2> DEFINE c == [ip0 |-> cur.ip0, ip1 |-> cur.ip0 + 1, ip2 |-> cur.ip0 + 2, ip3 |-> cur.ip0 + 2 + 1,
                   step |-> 2, next_step |-> cur.ip0 + STEP_INCREMENT]
  <2>1. Search(c, "first")
    BY <1>3 DEF Pipeline, FastStep
  <2>2. cur \in [ip0 : Int] /\ anchor <= cur.ip0 /\ (pair => Close(cur.ip0)) /\ anchor \in Int
    BY <1>1, FastInHand DEF FastCursors, Placed
  <2>3. Placed(c, "first")
    BY <2>2, FastAssumption DEF Placed
  <2> QED BY <1>1, <2>1, <2>3, FastMoves DEF FastPhases
<1> QED BY <1>2, <1>3

\* The second look.
LEMMA ShiftByOneStep ==
  ASSUME ParserInv, pc = "first", ShiftByOne
  PROVE  ParserInv'
<1> DEFINE c == [cur EXCEPT !.ip0 = cur.ip1, !.ip1 = cur.ip2, !.ip2 = cur.ip3]
<1>1. Search(c, "second") /\ pc \in FastPhases
  BY DEF ShiftByOne, FastPhases
<1>2. /\ Fast
      /\ cur \in [ip0 : Int, ip1 : Int, ip2 : Int, ip3 : Int, step : Nat, next_step : Int]
      /\ anchor <= cur.ip0 /\ cur.ip0 <= cur.ip1 /\ cur.ip1 <= cur.ip2 /\ 2 <= cur.step
      /\ pair => Close(cur.ip0)
      /\ cur.ip0 + 2 <= cur.ip2 /\ cur.ip2 <= cur.ip3 /\ cur.ip3 <= cur.ip2 + cur.step
      /\ BaseInv /\ anchor \in Int
  BY <1>1, FastInHand DEF FastCursors, Placed
<1>3. pair => Close(cur.ip1)
  BY <1>2, CloseAhead
<1>4. /\ c \in [ip0 : Int, ip1 : Int, ip2 : Int, ip3 : Int, step : Nat, next_step : Int]
      /\ c.ip0 = cur.ip1 /\ c.ip1 = cur.ip2 /\ c.ip2 = cur.ip3 /\ c.step = cur.step
  BY <1>2
<1> HIDE DEF c
<1>5. Placed(c, "second")
  BY <1>2, <1>3, <1>4 DEF Placed
<1> QED BY <1>1, <1>5, FastMoves DEF FastPhases

\* All four move up by a step.
LEMMA ShiftByStepStep ==
  ASSUME ParserInv, pc = "second", ShiftByStep
  PROVE  ParserInv'
<1>0. pc \in FastPhases /\ pc \in SearchPhases
  BY DEF FastPhases, SearchPhases
<1>1. CASE Finish
  BY <1>0, <1>1, FastFinishes DEF Finish
<1>2. CASE ~Finish
  <2> DEFINE grown == IF cur.ip1 + cur.step >= cur.next_step THEN 1 ELSE 0
             c == [ip0 |-> cur.ip1, ip1 |-> cur.ip2, ip2 |-> cur.ip1 + cur.step,
                   ip3 |-> cur.ip2 + cur.step, step |-> cur.step + grown,
                   next_step |-> cur.next_step + grown * STEP_INCREMENT]
  <2>1. Search(c, "first")
    BY <1>2 DEF ShiftByStep
  <2>2. /\ Fast
        /\ cur \in [ip0 : Int, ip1 : Int, ip2 : Int, ip3 : Int, step : Nat, next_step : Int]
        /\ anchor <= cur.ip0 /\ cur.ip0 <= cur.ip1 /\ cur.ip1 <= cur.ip2 /\ 2 <= cur.step
        /\ pair => Close(cur.ip0)
        /\ cur.ip2 <= cur.ip1 + cur.step
        /\ BaseInv /\ anchor \in Int
    BY <1>0, FastInHand DEF FastCursors, Placed
  <2>3. pair => Close(cur.ip1)
    BY <2>2, CloseAhead
  <2>4. grown \in Nat /\ grown * STEP_INCREMENT \in Int
    BY FastAssumption
  <2> HIDE DEF grown
  <2>5. /\ c \in [ip0 : Int, ip1 : Int, ip2 : Int, ip3 : Int, step : Nat, next_step : Int]
        /\ c.ip0 = cur.ip1 /\ c.ip1 = cur.ip2 /\ c.ip2 = cur.ip1 + cur.step
        /\ c.ip3 = cur.ip2 + cur.step /\ c.step = cur.step + grown
    BY <2>2, <2>4
  <2> HIDE DEF c
  <2>6. Placed(c, "first")
    BY <2>2, <2>3, <2>4, <2>5 DEF Placed
  <2> QED BY <1>0, <2>1, <2>6, FastMoves DEF FastPhases
<1> QED BY <1>1, <1>2

\* 'start, with two cursors.
LEMMA TwoCursorsStep ==
  ASSUME ParserInv, pc = "start", Fast => ~pair, NEW step \in Nat, TwoCursors(step)
  PROVE  ParserInv'
<1> DEFINE c == [ip0 |-> cur.ip0, ip1 |-> cur.ip0 + step, step |-> step,
                 next_step |-> cur.ip0 + 2 * STEP_INCREMENT]
<1>1. Search(c, "look") /\ pc \in FastPhases
  BY DEF TwoCursors, FastPhases
<1>2. cur \in [ip0 : Int] /\ anchor <= cur.ip0 /\ (pair => Close(cur.ip0)) /\ anchor \in Int
  BY <1>1, FastInHand DEF FastCursors, Placed
<1>3. Placed(c, "look")
  BY <1>2, FastAssumption DEF Placed
<1> QED BY <1>1, <1>3, FastMoves DEF FastPhases

\* The two move up by a step.
LEMMA StepOnStep ==
  ASSUME ParserInv, pc = "look", StepOn
  PROVE  ParserInv'
<1>0. pc \in FastPhases /\ pc \in SearchPhases
  BY DEF FastPhases, SearchPhases
<1>1. CASE Finish
  BY <1>0, <1>1, FastFinishes DEF Finish
<1>2. CASE ~Finish
  <2> DEFINE grown == IF cur.ip1 >= cur.next_step THEN 1 ELSE 0
             c == [ip0 |-> cur.ip1, ip1 |-> cur.ip1 + (cur.step + grown), step |-> cur.step + grown,
                   next_step |-> cur.next_step + grown * 2 * STEP_INCREMENT]
  <2>1. Search(c, "look")
    BY <1>2 DEF StepOn
  <2>2. /\ Fast => ~pair
        /\ cur \in [ip0 : Int, ip1 : Int, step : Nat, next_step : Int]
        /\ anchor <= cur.ip0 /\ cur.ip0 <= cur.ip1
        /\ pair => Close(cur.ip0)
        /\ BaseInv /\ anchor \in Int
    BY <1>0, FastInHand DEF FastCursors, Placed
  <2>3. pair => Close(cur.ip1)
    BY <2>2, CloseAhead
  <2>4. grown \in Nat /\ grown * 2 * STEP_INCREMENT \in Int
    BY FastAssumption
  <2> HIDE DEF grown
  <2>5. Placed(c, "look")
    BY <2>2, <2>3, <2>4 DEF Placed
  <2> QED BY <1>0, <2>1, <2>5, FastMoves DEF FastPhases
<1> QED BY <1>1, <1>2

\* What is skipped is never negative.
LEMMA SkipForward ==
  ASSUME NEW n \in Nat
  PROVE  n \div SKIP_SEARCH_STRENGTH \in Nat
BY FastAssumption DEF Positive

\* Ahead by the distance searched.
LEMMA SkipOnStep ==
  ASSUME ParserInv, pc = "look", ~pair, SkipOn
  PROVE  ParserInv'
<1> DEFINE c == [ip0 |-> cur.ip0 + ((cur.ip0 - anchor) \div SKIP_SEARCH_STRENGTH) + 1]
<1>1. Search(c, "start") /\ pc \in FastPhases
  BY DEF SkipOn, FastPhases
<1>2. cur.ip0 \in Int /\ anchor <= cur.ip0 /\ anchor \in Int
  BY <1>1, FastInHand DEF FastCursors, Placed
<1>3. (cur.ip0 - anchor) \div SKIP_SEARCH_STRENGTH \in Nat
  BY <1>2, SkipForward
<1>4. Placed(c, "start")
  BY <1>2, <1>3 DEF Placed
<1> QED BY <1>1, <1>4, FastMoves DEF FastPhases

\* Entry of the parsers of two offsets.
LEMMA PlainEnters ==
  ASSUME ParserInv, pair, EnterAtIp(FastEntry, invalidate(reps, FastEntry, rep_window_low))
  PROVE  ParserInv'
<1> DEFINE clamp == invalidate(reps, FastEntry, rep_window_low)
<1>1. pc = "enter" /\ BaseInv /\ EnterInv
  BY DEF EnterAtIp, ParserInv, BaseInv, BlockPhases, SegmentPhases
<1>2. /\ seg.lo \in Int /\ FastEntry \in Int /\ seg.lo <= FastEntry
      /\ rep_window_low \in Int /\ P <= rep_window_low /\ P \in Nat /\ reps \in Triple
  BY <1>1, FloorTypes, FrameTypes DEF BaseInv, EnterInv, ParseInv, SegmentInv, FastEntry, OffsetTypes
<1>3. CASE ~retired
  <2>1. /\ ClampInv(clamp)
        /\ \A i \in 1..2 : clamp.reps[i] # 0 => clamp.reps[i] <= FastEntry - rep_window_low
    BY <1>1, <1>2, <1>3, ClampHolds
  <2>2. \A i \in 1..2 : clamp.reps[i] # 0 => clamp.reps[i] + P <= FastEntry
    BY <1>2, <2>1 DEF ClampInv, Triple
  <2> QED BY <1>2, <2>1, <2>2, FastEnters
<1>4. CASE retired
  <2>1. /\ \A i \in 1..2 : reps[i] <= seg.lo - Higher(P, match_floor(seg.lo))
        /\ match_floor(seg.lo) = Higher(rep_window_low, seg.lo - H)
    BY <1>1, <1>4 DEF EnterInv, match_floor
  <2>2. \A i \in 1..2 : reps[i] <= seg.lo - rep_window_low
    <3>1. /\ Higher(P, match_floor(seg.lo)) \in Int
          /\ Higher(P, match_floor(seg.lo)) >= rep_window_low
      BY <1>1, <1>2, <2>1, FrameTypes DEF Higher, BaseInv
    <3> QED BY <1>2, <2>1, <3>1 DEF Triple
  <2>3. clamp = [reps |-> reps, saved |-> NothingAside]
    <3>1. \A i \in 1..2 : reps[i] <= FastEntry - rep_window_low
      BY <1>2, <2>2 DEF Triple
    <3> QED BY <1>2, <3>1, NothingInvalidated
  <2>4. ClampInv(clamp)
    BY <1>1, <2>3, UnclampedHolds DEF Unclamped
  <2>5. \A i \in 1..2 : clamp.reps[i] # 0 => clamp.reps[i] + P <= FastEntry
    BY <1>2, <2>2, <2>3 DEF Triple
  <2> QED BY <1>2, <2>4, <2>5, FastEnters
<1> QED BY <1>3, <1>4

\* Entry of the others, clamped to the window or not at all.
LEMMA LogicalEnters ==
  ASSUME ParserInv, ~pair,
         \/ EnterAtIp(seg.lo, Unclamped)
         \/ Fast /\ EnterAtIp(seg.lo, invalidate(reps, seg.lo, window_low))
  PROVE  ParserInv'
<1>1. pc = "enter" /\ BaseInv /\ EnterInv
  BY DEF EnterAtIp, ParserInv, BaseInv, BlockPhases, SegmentPhases
<1>2. seg.lo \in Int /\ window_low \in Int
  BY <1>1, WindowLowLegal DEF BaseInv, EnterInv, ParseInv, SegmentInv
<1>3. CASE EnterAtIp(seg.lo, Unclamped)
  BY <1>1, <1>2, <1>3, UnclampedHolds, FastEnters
<1>4. CASE Fast /\ EnterAtIp(seg.lo, invalidate(reps, seg.lo, window_low))
  <2>1. ~retired
    BY <1>4 DEF pair
  <2>2. ClampInv(invalidate(reps, seg.lo, window_low))
    BY <1>1, <1>2, <2>1, ClampHolds
  <2> QED BY <1>2, <1>4, <2>2, FastEnters
<1> QED BY <1>3, <1>4

\* Where the search stands when a fast parser looks.
LEMMA FastStands ==
  ASSUME ParserInv, pc \in {"first", "second", "look"}
  PROVE  /\ pc \in FastPhases /\ anchor \in Int /\ P \in Nat
         /\ cur.ip0 \in Int /\ cur.ip1 \in Int /\ anchor <= cur.ip0 /\ cur.ip0 <= cur.ip1
         /\ pc = "first" => cur.ip2 \in Int /\ cur.ip0 + 2 <= cur.ip2
         /\ pair => Close(cur.ip0)
         /\ MIN_MATCH \in Positive /\ LONG_MATCH \in Positive
         /\ rep_window_low \in Int /\ (pair => rep_window_low >= legal_floor)
<1>1. pc \in FastPhases
  BY DEF FastPhases
<1>2. FastCursors /\ anchor \in Int /\ P \in Nat /\ (pair => legal_floor = P)
  BY <1>1, FastInHand
<1>3. rep_window_low \in Int /\ rep_window_low >= P
  BY FloorTypes DEF ParserInv
<1> QED BY <1>1, <1>2, <1>3, ParserAssumption DEF FastCursors, Placed

\* Neither of the chains of second repeats reaches below what is legal.
LEMMA ChainFloors ==
  ASSUME ParserInv, pc \in FastPhases
  PROVE  /\ window_low \in Int /\ window_low >= legal_floor
         /\ rep_window_low \in Int /\ (pair => rep_window_low >= legal_floor)
         /\ reps[2] # 0 /\ pair /\ setup.parser \in {"fast", "double_fast"} =>
              Meant(chained_pair, TRUE, reps[2])
         /\ reps[2] # 0 /\ ~pair => Meant(classified(anchor, reps[2]), TRUE, reps[2])
<1>1. /\ BaseInv /\ ParseInv /\ window_low \in Int /\ window_low >= legal_floor
      /\ (pair => legal_floor = P)
  BY FastInHand
<1>2. rep_window_low \in Int /\ rep_window_low >= P
  BY FloorTypes DEF ParserInv
<1>3. reps[2] # 0 /\ pair /\ setup.parser \in {"fast", "double_fast"} =>
        Meant(chained_pair, TRUE, reps[2])
  BY <1>1, ChainedPairMeant DEF ParseInv
<1>4. reps[2] # 0 /\ ~pair => Meant(classified(anchor, reps[2]), TRUE, reps[2])
  <2>1. ASSUME reps[2] # 0, ~pair PROVE Meant(classified(anchor, reps[2]), TRUE, reps[2])
    <3>1. Third /\ reps[2] \in Positive
      BY <1>1, <2>1 DEF Third, ParseInv, RepsInv, Triple, Positive
    <3>2. Meant(classified(anchor, reps[2]), anchor = anchor, reps[2])
      BY <1>1, <3>1, ClassifiedMeant DEF ParseInv
    <3> QED BY <3>2 DEF Meant
  <2> QED BY <2>1
<1> QED BY <1>1, <1>2, <1>3, <1>4

\* plan_sequences_fast_without_prefix_inner_no_trace.
LEMMA FastPlainStep ==
  ASSUME ParserInv,
         \/ FastEnter \/ FastStart \/ FastRepeat \/ FastMatch \/ FastSecondLook \/ FastAdvance
         \/ FastChain
  PROVE  ParserInv'
<1>0. FastPlain /\ Fast /\ pair /\ setup.parser \in {"fast", "double_fast"}
  BY DEF FastEnter, FastStart, FastRepeat, FastMatch, FastSecondLook, FastAdvance, FastChain,
         FastPlain, Fast
<1>1. CASE FastEnter
  BY <1>0, <1>1, PlainEnters DEF FastEnter
<1>2. CASE FastStart
  BY <1>0, <1>2, PipelineStep DEF FastStart
<1>3. CASE FastRepeat
  <2> DEFINE more == IF cur.ip2 > anchor /\ Byte(cur.ip2 - 1) = Byte(cur.ip2 - reps[1] - 1) THEN 1 ELSE 0
  <2>1. /\ pc = "first" /\ reps[1] # 0 /\ Count(cur.ip2 - reps[1], cur.ip2) >= MIN_MATCH
        /\ TakeRepeat(pair_repeat(cur.ip2 - more, reps[1]), cur.ip2, more)
    BY <1>3 DEF FastRepeat, FastRepeatFound
  <2>2. /\ pc \in FastPhases /\ cur.ip0 \in Int /\ cur.ip2 \in Int /\ anchor \in Int
        /\ anchor <= cur.ip0 /\ cur.ip0 + 2 <= cur.ip2 /\ Close(cur.ip0)
    BY <1>0, <2>1, FastStands
  <2>3. more \in {0, 1} /\ (more = 1 => Byte(cur.ip2 - 1) = Byte(cur.ip2 - reps[1] - 1))
    OBVIOUS
  <2> HIDE DEF more
  <2>4. cur.ip2 - more \in Int /\ anchor < cur.ip2 - more /\ cur.ip0 < cur.ip2 - more
    BY <2>2, <2>3
  <2> QED BY <1>0, <2>1, <2>2, <2>3, <2>4, TakePairRepeatStep
<1>4. CASE FastMatch
  <2>1. /\ pc \in {"first", "second"}
        /\ \E m \in Candidates(cur.ip0, window_low, MIN_MATCH) : TakePair(cur.ip0, m)
    BY <1>4 DEF FastMatch
  <2>2. /\ pc \in FastPhases /\ cur.ip0 \in Int /\ anchor <= cur.ip0 /\ Close(cur.ip0)
        /\ MIN_MATCH \in Positive
    BY <1>0, <2>1, FastStands
  <2> QED BY <1>0, <2>1, <2>2, TakePairStep
<1>5. CASE FastSecondLook
  BY <1>5, ShiftByOneStep DEF FastSecondLook
<1>6. CASE FastAdvance
  BY <1>6, ShiftByStepStep DEF FastAdvance
<1>7. CASE FastChain
  <2>1. pc \in FastPhases /\ SecondRepeats(rep_window_low, chained_pair)
    BY <1>7 DEF FastChain, SecondRepeats, FastPhases
  <2> QED BY <1>0, <2>1, ChainFloors, SecondRepeatsStep
<1> QED BY <1>1, <1>2, <1>3, <1>4, <1>5, <1>6, <1>7

\* plan_sequences_fast_with_prefix_inner.
LEMMA FastExtStep ==
  ASSUME ParserInv,
         \/ FastExtEnter \/ FastExtStart \/ FastExtRepeat \/ FastExtFirst \/ FastExtSecondLook
         \/ FastExtSecond \/ FastExtAdvance \/ FastExtChain
  PROVE  ParserInv'
<1>0. Fast /\ ~pair
  BY DEF FastExtEnter, FastExtStart, FastExtRepeat, FastExtFirst, FastExtSecondLook, FastExtSecond,
         FastExtAdvance, FastExtChain, FastExt
<1>1. CASE FastExtEnter
  BY <1>0, <1>1, LogicalEnters DEF FastExtEnter
<1>2. CASE FastExtStart
  BY <1>0, <1>2, PipelineStep DEF FastExtStart
<1>3. CASE FastExtRepeat
  <2> DEFINE more == IF cur.ip2 > anchor /\ cur.ip2 - reps[1] - 1 >= window_low
                        /\ Byte(cur.ip2 - 1) = Byte(cur.ip2 - reps[1] - 1) THEN 1 ELSE 0
  <2>1. /\ pc = "first" /\ RepeatAt(cur.ip2, reps[1], window_low)
        /\ TakeRepeat(classified(cur.ip2 - more, reps[1]), cur.ip2, more)
    BY <1>3 DEF FastExtRepeat, FastExtFound
  <2>2. /\ pc \in FastPhases /\ cur.ip0 \in Int /\ cur.ip2 \in Int /\ anchor \in Int
        /\ anchor <= cur.ip0 /\ cur.ip0 + 2 <= cur.ip2
    BY <2>1, FastStands
  <2>3. more \in {0, 1} /\ (more = 1 => /\ cur.ip2 - reps[1] - 1 >= window_low
                                        /\ Byte(cur.ip2 - 1) = Byte(cur.ip2 - reps[1] - 1))
    OBVIOUS
  <2> HIDE DEF more
  <2>4. anchor <= cur.ip2 - more
    BY <2>2, <2>3
  <2> QED BY <1>0, <2>1, <2>2, <2>3, <2>4, TakeRepeatStep
<1>4. CASE FastExtFirst \/ FastExtSecond
  <2>1. /\ pc \in {"first", "second"}
        /\ \E m \in Candidates(cur.ip0, window_low, MIN_MATCH) : TakeLogical(cur.ip0, m)
    BY <1>4 DEF FastExtFirst, FastExtSecond
  <2>2. pc \in FastPhases /\ cur.ip0 \in Int /\ anchor <= cur.ip0 /\ MIN_MATCH \in Positive
    BY <2>1, FastStands
  <2> QED BY <1>0, <2>1, <2>2, TakeLogicalStep
<1>5. CASE FastExtSecondLook
  BY <1>5, ShiftByOneStep DEF FastExtSecondLook
<1>6. CASE FastExtAdvance
  BY <1>6, ShiftByStepStep DEF FastExtAdvance
<1>7. CASE FastExtChain
  <2>1. pc \in FastPhases /\ SecondRepeats(window_low, classified(anchor, reps[2]))
    BY <1>7 DEF FastExtChain, SecondRepeats, FastPhases
  <2> QED BY <1>0, <2>1, ChainFloors, SecondRepeatsStep
<1> QED BY <1>1, <1>2, <1>3, <1>4, <1>5, <1>6, <1>7

\* The parsers that look at two positions, over a dictionary.
LEMMA RepeatAheadStep ==
  ASSUME ParserInv, ~pair, pc = "look", RepeatAhead,
         TakeRepeat(classified(cur.ip0 + 1, reps[1]), cur.ip0 + 1, 0)
  PROVE  ParserInv'
<1>1. pc \in FastPhases /\ cur.ip0 \in Int /\ anchor \in Int /\ anchor <= cur.ip0
  BY FastStands
<1>2. anchor <= cur.ip0 + 1 - 0 /\ cur.ip0 + 1 - 0 = cur.ip0 + 1 /\ cur.ip0 + 1 \in Int
  BY <1>1
<1> QED BY <1>1, <1>2, TakeRepeatStep DEF RepeatAhead

\* A match here or at the next position.
LEMMA LookedStep ==
  ASSUME ParserInv, ~pair, pc = "look", NEW least \in Positive,
         \/ \E m \in Candidates(cur.ip0, window_low, least) : TakeLogical(cur.ip0, m)
         \/ \E n \in Candidates(cur.ip1, window_low, least) : TakeLogical(cur.ip1, n)
  PROVE  ParserInv'
<1>1. /\ pc \in FastPhases /\ cur.ip0 \in Int /\ cur.ip1 \in Int /\ anchor \in Int
      /\ anchor <= cur.ip0 /\ cur.ip0 <= cur.ip1
  BY FastStands
<1>2. anchor <= cur.ip1
  BY <1>1
<1> QED BY <1>1, <1>2, TakeLogicalStep

\* plan_sequences_fast_with_prepared_dict_from_into.
LEMMA FastDictStep ==
  ASSUME ParserInv,
         \/ FastDictEnter \/ FastDictStart \/ FastDictRepeat \/ FastDictMatch \/ FastDictAdvance
         \/ FastDictChain
  PROVE  ParserInv'
<1>0. Fast /\ ~pair /\ MIN_MATCH \in Positive
  BY ParserAssumption DEF FastDictEnter, FastDictStart, FastDictRepeat, FastDictMatch,
     FastDictAdvance, FastDictChain, FastDict
<1>1. CASE FastDictEnter
  BY <1>0, <1>1, LogicalEnters DEF FastDictEnter
<1>2. CASE FastDictStart
  <2>1. pc = "start" /\ (Finish \/ TwoCursors(1))
    BY <1>2 DEF FastDictStart, DictStep
  <2> QED BY <1>0, <2>1, FastFinishes, TwoCursorsStep DEF Finish, SearchPhases
<1>3. CASE FastDictRepeat
  BY <1>0, <1>3, RepeatAheadStep DEF FastDictRepeat
<1>4. CASE FastDictMatch
  BY <1>0, <1>4, LookedStep DEF FastDictMatch
<1>5. CASE FastDictAdvance
  BY <1>5, StepOnStep DEF FastDictAdvance
<1>6. CASE FastDictChain
  <2>1. pc \in FastPhases /\ SecondRepeats(window_low, classified(anchor, reps[2]))
    BY <1>6 DEF FastDictChain, SecondRepeats, FastPhases
  <2> QED BY <1>0, <2>1, ChainFloors, SecondRepeatsStep
<1> QED BY <1>1, <1>2, <1>3, <1>4, <1>5, <1>6

\* plan_sequences_double_fast_without_prefix_inner_no_trace.
LEMMA DoublePlainStep ==
  ASSUME ParserInv,
         \/ DoubleEnter \/ DoubleStart \/ DoubleRepeat \/ DoubleLong \/ DoubleShort \/ DoubleAdvance
         \/ DoubleChain
  PROVE  ParserInv'
<1>0. /\ ~Fast /\ pair /\ setup.parser \in {"fast", "double_fast"}
      /\ MIN_MATCH \in Positive /\ LONG_MATCH \in Positive
  BY ParserAssumption DEF DoubleEnter, DoubleStart, DoubleRepeat, DoubleLong, DoubleShort,
     DoubleAdvance, DoubleChain, DoublePlain, Double, Fast
<1>1. CASE DoubleEnter
  BY <1>0, <1>1, PlainEnters DEF DoubleEnter
<1>2. CASE DoubleStart
  <2>1. pc = "start" /\ (Finish \/ TwoCursors(1))
    BY <1>2 DEF DoubleStart
  <2> QED BY <1>0, <2>1, FastFinishes, TwoCursorsStep DEF Finish, SearchPhases
<1>3. CASE DoubleRepeat
  <2>1. /\ pc = "look" /\ reps[1] # 0 /\ Count(cur.ip0 + 1 - reps[1], cur.ip0 + 1) >= MIN_MATCH
        /\ TakeRepeat(pair_repeat(cur.ip0 + 1, reps[1]), cur.ip0 + 1, 0)
    BY <1>3 DEF DoubleRepeat, DoubleRepeatFound
  <2>2. pc \in FastPhases /\ cur.ip0 \in Int /\ anchor \in Int /\ anchor <= cur.ip0 /\ Close(cur.ip0)
    BY <1>0, <2>1, FastStands
  <2>3. PICK v \in Int : v = cur.ip0 + 1
    BY <2>2
  <2>4. v = v - 0 /\ anchor < v /\ cur.ip0 < v
    BY <2>2, <2>3
  <2>5. Count(v - reps[1], v) >= MIN_MATCH
    <3>1. reps[1] \in Int
      BY <2>2, FastInHand DEF BaseInv, OffsetTypes, Triple
    <3>2. v - reps[1] = cur.ip0 + 1 - reps[1]
      BY <2>2, <2>3, <3>1
    <3> QED BY <2>1, <2>2, <2>3, <3>1, <3>2
  <2>6. TakeRepeat(pair_repeat(v, reps[1]), v, 0)
    BY <2>1, <2>3 DEF TakeRepeat, Store
  <2> QED BY <1>0, <2>1, <2>2, <2>4, <2>5, <2>6, TakePairRepeatStep
<1>4. CASE DoubleLong \/ DoubleShort
  <2>1. /\ pc = "look"
        /\ \E least \in Positive :
             \/ \E m \in Candidates(cur.ip0, window_low, least) : TakePair(cur.ip0, m)
             \/ \E n \in Candidates(cur.ip1, window_low, least) : TakePair(cur.ip1, n)
    BY <1>0, <1>4 DEF DoubleLong, DoubleShort
  <2>2. /\ pc \in FastPhases /\ cur.ip0 \in Int /\ cur.ip1 \in Int /\ anchor \in Int
        /\ anchor <= cur.ip0 /\ cur.ip0 <= cur.ip1 /\ Close(cur.ip0)
    BY <1>0, <2>1, FastStands
  <2>3. anchor <= cur.ip1 /\ cur.ip0 <= cur.ip0
    BY <2>2
  <2> QED BY <1>0, <2>1, <2>2, <2>3, TakePairStep
<1>5. CASE DoubleAdvance
  BY <1>5, StepOnStep DEF DoubleAdvance
<1>6. CASE DoubleChain
  <2>1. pc \in FastPhases /\ SecondRepeats(rep_window_low, chained_pair)
    BY <1>6 DEF DoubleChain, SecondRepeats, FastPhases
  <2> QED BY <1>0, <2>1, ChainFloors, SecondRepeatsStep
<1> QED BY <1>1, <1>2, <1>3, <1>4, <1>5, <1>6

\* plan_sequences_double_fast_with_ext_dict_from_into and its twin over prepared tables.
LEMMA DoubleLogicalStep ==
  ASSUME ParserInv,
         \/ DoubleExtEnter \/ DoubleExtStart \/ DoubleExtRepeat \/ DoubleExtLong \/ DoubleExtShort
         \/ DoubleExtSkip \/ DoubleExtChain
         \/ DoubleDictEnter \/ DoubleDictStart \/ DoubleDictRepeat \/ DoubleDictLong
         \/ DoubleDictShort \/ DoubleDictSkip \/ DoubleDictChain
  PROVE  ParserInv'
<1>0. ~Fast /\ ~pair /\ MIN_MATCH \in Positive /\ LONG_MATCH \in Positive
  BY ParserAssumption DEF DoubleExtEnter, DoubleExtStart, DoubleExtRepeat, DoubleExtLong,
     DoubleExtShort, DoubleExtSkip, DoubleExtChain, DoubleDictEnter, DoubleDictStart,
     DoubleDictRepeat, DoubleDictLong, DoubleDictShort, DoubleDictSkip, DoubleDictChain,
     DoubleExt, DoubleDict, Double, Fast
<1>1. CASE DoubleExtEnter \/ DoubleDictEnter
  BY <1>0, <1>1, LogicalEnters DEF DoubleExtEnter, DoubleDictEnter
<1>2. CASE DoubleExtStart \/ DoubleDictStart
  <2>1. pc = "start" /\ (Finish \/ TwoCursors(1))
    BY <1>2 DEF DoubleExtStart, DoubleDictStart
  <2> QED BY <1>0, <2>1, FastFinishes, TwoCursorsStep DEF Finish, SearchPhases
<1>3. CASE DoubleExtRepeat \/ DoubleDictRepeat
  BY <1>0, <1>3, RepeatAheadStep DEF DoubleExtRepeat, DoubleDictRepeat
<1>4. CASE DoubleExtLong \/ DoubleExtShort \/ DoubleDictLong \/ DoubleDictShort
  <2>1. /\ pc = "look"
        /\ \E least \in Positive :
             \/ \E m \in Candidates(cur.ip0, window_low, least) : TakeLogical(cur.ip0, m)
             \/ \E n \in Candidates(cur.ip1, window_low, least) : TakeLogical(cur.ip1, n)
    BY <1>0, <1>4 DEF DoubleExtLong, DoubleExtShort, DoubleDictLong, DoubleDictShort
  <2> QED BY <1>0, <2>1, LookedStep
<1>5. CASE DoubleExtSkip \/ DoubleDictSkip
  BY <1>0, <1>5, SkipOnStep DEF DoubleExtSkip, DoubleDictSkip
<1>6. CASE DoubleExtChain \/ DoubleDictChain
  <2>1. pc \in FastPhases /\ SecondRepeats(window_low, classified(anchor, reps[2]))
    BY <1>6 DEF DoubleExtChain, DoubleDictChain, SecondRepeats, FastPhases
  <2> QED BY <1>0, <2>1, ChainFloors, SecondRepeatsStep
<1> QED BY <1>1, <1>2, <1>3, <1>4, <1>5, <1>6

\* Every step of the Fast and DoubleFast parsers.
LEMMA FastNextStep ==
  ASSUME ParserInv, FastNext
  PROVE  ParserInv'
BY FastPlainStep, FastExtStep, FastDictStep, DoublePlainStep, DoubleLogicalStep DEF FastNext

-----------------------------------------------------------------------------
\* The lazy parsers.

LazyPhases == {"pos", "depth1", "depth2", "store", "rep2"}

\* A lazy parser goes on searching.
LEMMA LazyGoesOn ==
  ASSUME BaseInv', ParseInv', pc' \in LazyPhases, LazyCursors'
  PROVE  ParserInv'
<1>1. FastCursors' /\ OptimalCursors'
  BY DEF LazyPhases, FastCursors, Placed, OptimalCursors, OptimalPlaced, OptimalPhases
<1> QED BY <1>1, StillSearching DEF LazyPhases, SearchPhases

\* What its steps have in hand.
LEMMA LazyInHand ==
  ASSUME ParserInv, pc \in LazyPhases
  PROVE  /\ BaseInv /\ ParseInv /\ LazyCursors
         /\ anchor \in Int /\ seg.hi \in Int /\ P \in Nat /\ legal_floor \in Int
         /\ \A v \in Int : match_floor(v) \in Int /\ match_floor(v) >= legal_floor
<1>1. BaseInv /\ ParseInv /\ LazyCursors
  BY InSearch DEF LazyPhases, SearchPhases, ParserInv
<1>2. /\ anchor \in Int /\ seg.hi \in Int /\ P \in Nat /\ legal_floor \in Int
      /\ \A v \in Int : match_floor(v) \in Int /\ match_floor(v) >= legal_floor
  BY <1>1, FloorTypes, FrameTypes DEF BaseInv, ParseInv, SegmentInv
<1> QED BY <1>1, <1>2

\* The cursors move to where they may be.
LEMMA LazyMoves ==
  ASSUME ParserInv, pc \in LazyPhases, NEW c, NEW where \in LazyPhases, Search(c, where),
         LazyPlaced(c, where)
  PROVE  ParserInv'
<1>1. cur' = c /\ pc' = where /\ UNCHANGED <<Segment, Storage, Offsets>>
  BY DEF Search
<1>2. UNCHANGED Segment /\ UNCHANGED <<anchor, reps>>
  BY <1>1 DEF Storage, Offsets
<1>3. BaseInv' /\ ParseInv'
  BY <1>1, LazyInHand, SearchKeeps
<1>4. LazyCursors'
  <2>1. Holds(c.pos, c.best)' <=> Holds(c.pos, c.best)
    <3>1. /\ seg' = seg /\ reps' = reps
          /\ Legal(c.best.start, c.best.offset)' <=> Legal(c.best.start, c.best.offset)
          /\ SameBytes(c.best.start, c.best.offset, c.best.length)'
               <=> SameBytes(c.best.start, c.best.offset, c.best.length)
      BY <1>2, SegmentStays DEF Legal, SameBytes, Byte
    <3> QED BY <3>1 DEF Holds, Sound, Best_
  <2>2. LazyPlaced(c, where)'
    BY <1>2, <2>1 DEF LazyPlaced, Best_
  <2> QED BY <1>1, <2>2 DEF LazyCursors, LazyPlaced, Holds, Sound, Legal, SameBytes, Byte, Best_
<1> QED BY <1>1, <1>3, <1>4, LazyGoesOn

\* What a finder returns, and the repeat that is looked for, hold at their position.
LEMMA FoundHolds ==
  ASSUME ParserInv, pc \in LazyPhases, NEW pos \in Int, NEW v \in Int, anchor <= pos, pos <= v
  PROVE  /\ \A found \in Found(v) : found = NoMatch \/ Holds(pos, found)
         /\ \A at \in Int : pos < v /\ RepeatAt(v, reps[1], match_floor(at)) => Holds(pos, RepeatOf(v))
         /\ \A found \in Found(v) : found # NoMatch => found.kind = "regular"
<1>1. /\ BaseInv /\ ParseInv /\ anchor \in Int /\ seg.hi \in Int /\ legal_floor \in Int
      /\ \A at \in Int : match_floor(at) \in Int /\ match_floor(at) >= legal_floor
  BY LazyInHand
<1>2. ASSUME NEW found \in Found(v), found # NoMatch
      PROVE  Holds(pos, found) /\ found.kind = "regular"
  <2>1. PICK m \in Candidates(v, match_floor(v), MIN_MATCH) :
          found = [kind |-> "regular", start |-> v, offset |-> v - m, length |-> Count(m, v)]
    BY <1>2 DEF Found
  <2>2. m \in Int /\ m >= match_floor(v) /\ m < v /\ v - m \in Positive /\ v - (v - m) = m
    BY <1>1 DEF Candidates, Positive
  <2>3. Legal(v, v - m)
    BY <1>1, <2>2, MatchFloorLegal DEF BaseInv
  <2>4. Sound(v, v - m, Count(m, v))
    BY <1>1, <2>3, ParserAssumption, CandidateSound
  <2> QED BY <2>1, <2>2, <2>4 DEF Holds, Best_, Sound
<1>3. ASSUME NEW at \in Int, pos < v, RepeatAt(v, reps[1], match_floor(at))
      PROVE  Holds(pos, RepeatOf(v))
  <2>1. Sound(v, reps[1], Count(v - reps[1], v))
    BY <1>1, <1>3, RepeatSound
  <2>2. reps[1] \in Positive
    BY <2>1 DEF Sound, Legal
  <2> QED BY <1>3, <2>1, <2>2 DEF Holds, Best_, Sound, RepeatOf
<1> QED BY <1>2, <1>3

\* On entry.
LEMMA LazyEnters ==
  ASSUME ParserInv, NEW entry \in Int, seg.lo <= entry, NEW limit, NEW clamp,
         pc = "enter" => ClampInv(clamp), EnterAt(entry, limit, clamp)
  PROVE  ParserInv'
<1>1. pc = "enter" /\ BaseInv /\ EnterInv /\ ClampInv(clamp)
  BY DEF EnterAt, ParserInv, BaseInv, BlockPhases, SegmentPhases
<1>2. CASE Leave(reps)
  BY <1>1, <1>2, LeaveAsIs DEF EnterInv
<1>3. CASE ~Leave(reps)
  <2>1. /\ reps' = clamp.reps /\ saved' = [saved EXCEPT !.inner = clamp.saved]
        /\ cur' = [pos |-> entry] /\ anchor' = seg.lo /\ pc' = "pos"
        /\ UNCHANGED <<Segment, hist, last>>
    BY <1>3 DEF EnterAt
  <2>2. BaseInv' /\ ParseInv'
    BY <1>1, <2>1, Entered
  <2>3. LazyCursors'
    BY <2>1 DEF LazyCursors, LazyPlaced
  <2> QED BY <2>1, <2>2, <2>3, LazyGoesOn DEF LazyPhases
<1> QED BY <1>2, <1>3

\* Ahead by the distance searched.
LEMMA LazySkips ==
  ASSUME ParserInv, pc \in LazyPhases, cur.pos \in Int, anchor <= cur.pos,
         Search([pos |-> Skip], "pos")
  PROVE  ParserInv'
<1>1. anchor \in Int
  BY LazyInHand
<1>2. (cur.pos - anchor) \div SKIP_SEARCH_STRENGTH \in Nat
  BY <1>1, SkipForward
<1>3. Skip \in Int /\ anchor <= Skip
  BY <1>1, <1>2 DEF Skip
<1>4. LazyPlaced([pos |-> Skip], "pos")
  BY <1>3 DEF LazyPlaced
<1> QED BY <1>4, LazyMoves DEF LazyPhases

\* The search at a position.
LEMMA SearchHereStep ==
  ASSUME ParserInv, NEW limit, NEW ahead, ahead => repeat_ahead, NEW greedy,
         SearchHere(limit, ahead, greedy)
  PROVE  ParserInv'
<1>1. pc = "pos" /\ pc \in LazyPhases /\ pc \in SearchPhases
  BY DEF SearchHere, LazyPhases, SearchPhases
<1>2. cur \in [pos : Int] /\ anchor <= cur.pos /\ anchor \in Int
  BY <1>1, LazyInHand DEF LazyCursors, LazyPlaced
<1>3. CASE Leave(restore(reps, saved.inner))
  BY <1>1, <1>3, FastFinishes
<1>4. CASE ~Leave(restore(reps, saved.inner))
  <2> DEFINE rep == IF ahead THEN RepeatOf(cur.pos + 1) ELSE NoMatch
  <2>1. PICK found \in Found(cur.pos) :
          LET best == Best(rep, found, greedy)
          IN  IF best = NoMatch THEN Search([pos |-> Skip], "pos")
              ELSE Search([pos |-> cur.pos, best |-> best, probe |-> cur.pos],
                          IF setup.depth = 0 THEN "store" ELSE "depth1")
    BY <1>4 DEF SearchHere
  <2>2. rep = NoMatch \/ Holds(cur.pos, rep)
    <3>1. ASSUME ahead PROVE Holds(cur.pos, RepeatOf(cur.pos + 1))
      <4>1. RepeatAt(cur.pos + 1, reps[1], match_floor(cur.pos))
        BY <3>1 DEF repeat_ahead
      <4>2. cur.pos \in Int /\ cur.pos + 1 \in Int /\ cur.pos <= cur.pos + 1 /\ cur.pos < cur.pos + 1
        BY <1>2
      <4> QED BY <1>1, <1>2, <4>1, <4>2, FoundHolds
    <3> QED BY <3>1
  <2>3. found = NoMatch \/ Holds(cur.pos, found)
    BY <1>1, <1>2, FoundHolds
  <2> DEFINE best == Best(rep, found, greedy)
  <2>4. best = NoMatch \/ Holds(cur.pos, best)
    BY <2>2, <2>3 DEF Best
  <2> HIDE DEF best, rep
  <2>5. CASE best = NoMatch
    BY <1>1, <1>2, <2>1, <2>5, LazySkips DEF best
  <2>6. CASE best # NoMatch
    <3> DEFINE c == [pos |-> cur.pos, best |-> best, probe |-> cur.pos]
               where == IF setup.depth = 0 THEN "store" ELSE "depth1"
    <3>1. Search(c, where)
      BY <2>1, <2>6 DEF best
    <3>2. LazyPlaced(c, where)
      BY <1>2, <2>4, <2>6 DEF LazyPlaced, Holds
    <3>3. where \in LazyPhases
      BY DEF LazyPhases
    <3> HIDE DEF c, where
    <3> QED BY <1>1, <3>1, <3>2, <3>3, LazyMoves
  <2> QED BY <2>5, <2>6
<1> QED BY <1>3, <1>4

\* A look further ahead.
LEMMA AheadStep ==
  ASSUME ParserInv, pc \in {"depth1", "depth2"}, NEW v \in Int, cur.probe < v, NEW final,
         NEW multiplier, NEW bias, NEW otherwise \in {"depth2", "store"},
         Ahead(v, final, multiplier, bias, otherwise)
  PROVE  ParserInv'
<1>1. pc \in LazyPhases
  BY DEF LazyPhases
<1>2. /\ cur \in [pos : Int, best : Best_, probe : Int] /\ anchor \in Int
      /\ anchor <= cur.pos /\ cur.pos <= cur.probe /\ Holds(cur.pos, cur.best)
  BY <1>1, LazyInHand DEF LazyCursors, LazyPlaced
<1>3. CASE v > final
  <2>1. Search(cur, "store")
    BY <1>3 DEF Ahead
  <2>2. LazyPlaced(cur, "store")
    BY <1>2 DEF LazyPlaced
  <2> QED BY <1>1, <2>1, <2>2, LazyMoves DEF LazyPhases
<1>4. CASE ~(v > final)
  <2>1. PICK found \in Found(v) :
          LET best == Probe(v, multiplier, bias, found)
          IN  IF found # NoMatch /\ best = found
              THEN Search([cur EXCEPT !.best = best, !.probe = v], "depth1")
              ELSE Search([cur EXCEPT !.best = best], otherwise)
    BY <1>4 DEF Ahead
  <2> DEFINE best == Probe(v, multiplier, bias, found)
  <2>2. cur.pos < v /\ cur.pos <= v
    BY <1>2
  <2>3. found = NoMatch \/ Holds(cur.pos, found)
    BY <1>1, <1>2, <2>2, FoundHolds
  <2>4. RepeatAt(v, reps[1], match_floor(v)) => Holds(cur.pos, RepeatOf(v))
    BY <1>1, <1>2, <2>2, FoundHolds
  <2>5. Holds(cur.pos, best)
    BY <1>2, <2>3, <2>4 DEF Probe
  <2>6. best \in Best_
    BY <2>5 DEF Holds
  <2> HIDE DEF best
  <2>7. CASE found # NoMatch /\ best = found
    <3> DEFINE c == [cur EXCEPT !.best = best, !.probe = v]
    <3>1. Search(c, "depth1")
      BY <2>1, <2>7 DEF best
    <3>2. c \in [pos : Int, best : Best_, probe : Int] /\ c.pos = cur.pos /\ c.best = best /\ c.probe = v
      BY <1>2, <2>6
    <3> HIDE DEF c
    <3>3. LazyPlaced(c, "depth1")
      BY <1>2, <2>2, <2>5, <3>2 DEF LazyPlaced
    <3> QED BY <1>1, <3>1, <3>3, LazyMoves DEF LazyPhases
  <2>8. CASE ~(found # NoMatch /\ best = found)
    <3> DEFINE c == [cur EXCEPT !.best = best]
    <3>1. Search(c, otherwise)
      BY <2>1, <2>8 DEF best
    <3>2. /\ c \in [pos : Int, best : Best_, probe : Int] /\ c.pos = cur.pos /\ c.best = best
          /\ c.probe = cur.probe
      BY <1>2, <2>6
    <3> HIDE DEF c
    <3>3. LazyPlaced(c, otherwise)
      BY <1>2, <2>5, <3>2 DEF LazyPlaced
    <3> QED BY <1>1, <3>1, <3>3, LazyMoves DEF LazyPhases
  <2> QED BY <2>7, <2>8
<1> QED BY <1>3, <1>4

\* The two looks.
LEMMA DepthStep ==
  ASSUME ParserInv, NEW final, Depth1(final) \/ Depth2(final)
  PROVE  ParserInv'
<1>1. pc \in {"depth1", "depth2"} /\ pc \in LazyPhases
  BY DEF Depth1, Depth2, LazyPhases
<1>2. cur.probe \in Int
  BY <1>1, LazyInHand DEF LazyCursors, LazyPlaced
<1>3. CASE Depth1(final)
  <2>1. \E otherwise \in {"depth2", "store"} : Ahead(cur.probe + 1, final, 3, 4, otherwise)
    BY <1>3 DEF Depth1
  <2> QED BY <1>1, <1>2, <2>1, AheadStep
<1>4. CASE Depth2(final)
  <2>1. \E otherwise \in {"depth2", "store"} : Ahead(cur.probe + 2, final, 4, 7, otherwise)
    BY <1>4 DEF Depth2
  <2> QED BY <1>1, <1>2, <2>1, AheadStep
<1> QED BY <1>3, <1>4

\* A sound match is stored, and the second repeats follow.
LEMMA LazyStores ==
  ASSUME ParserInv, pc \in LazyPhases, NEW s, NEW start \in Int, NEW length, NEW d,
         Store(s, start, length), UNCHANGED <<Segment, saved>>, pc' = "rep2", cur' \in [pos : Int],
         Meant(s, start = anchor, d), Sound(start, d, length), anchor <= start
  PROVE  ParserInv'
<1>1. BaseInv' /\ ParseInv'
  BY LazyInHand, StoreKeeps DEF Sound
<1>2. LazyCursors'
  BY DEF LazyCursors, LazyPlaced
<1> QED BY <1>1, <1>2, LazyGoesOn DEF LazyPhases

\* The match in hand, extended back under a legal floor, is still sound.
LEMMA ExtendedSound ==
  ASSUME ParserInv, pc = "store", NEW floor \in Int, floor >= legal_floor
  PROVE  LET more == Extended(floor)
             best == cur.best
         IN  /\ more \in Nat /\ anchor <= best.start - more /\ best.start - more \in Int
             /\ Sound(best.start - more, best.offset, best.length + more)
             /\ best.offset \in Positive /\ (IsRepeat => more = 0)
             /\ IsRepeat => best.offset = reps[1] /\ best.start # anchor
<1> DEFINE best == cur.best
           m == best.start - best.offset
           more == Extended(floor)
<1>1. pc \in LazyPhases
  BY DEF LazyPhases
<1>2. /\ BaseInv /\ ParseInv /\ anchor \in Int /\ legal_floor \in Int /\ P \in Nat
      /\ cur.pos \in Int /\ anchor <= cur.pos /\ Holds(cur.pos, cur.best)
  BY <1>1, LazyInHand DEF LazyCursors, LazyPlaced
<1>3. /\ best.start \in Int /\ best.offset \in Int /\ best.length \in Int /\ cur.pos <= best.start
      /\ best.offset \in Positive /\ Sound(best.start, best.offset, best.length)
  BY <1>2 DEF Holds, Best_, Positive
<1>4. IsRepeat => best.offset = reps[1] /\ best.start # anchor
  BY <1>2, <1>3 DEF IsRepeat, Holds
<1>5. CASE IsRepeat
  <2>1. more = 0
    BY <1>5 DEF Extended
  <2>2. best.start - 0 = best.start /\ best.length + 0 = best.length
    BY <1>3
  <2> QED BY <1>2, <1>3, <1>4, <2>1, <2>2
<1>6. CASE ~IsRepeat
  <2> DEFINE low == back_floor(m, floor)
  <2>1. more = Back(best.start, best.offset, low)
    BY <1>6 DEF Extended
  <2>2. low \in Int /\ low >= legal_floor
    BY <1>2 DEF back_floor, Higher
  <2>3. anchor <= best.start
    BY <1>2, <1>3
  <2> HIDE DEF low
  <2>4. PICK v \in Int, d \in Int, n \in Int : v = best.start /\ d = best.offset /\ n = best.length
    BY <1>3
  <2> DEFINE k == Back(v, d, low)
  <2>5. /\ k \in Int /\ 0 <= k /\ k <= v - anchor /\ (k > 0 => v - k - d >= low)
        /\ \A j \in 1..k : Byte(v - j) = Byte(v - j - d)
    <3>1. SegmentInv /\ anchor <= v
      BY <1>2, <2>3, <2>4 DEF ParseInv
    <3> QED BY <2>2, <3>1, BackFacts
  <2>6. more = k
    BY <2>1, <2>4
  <2> HIDE DEF more, best, k
  <2>7. Legal(v, d) /\ SameBytes(v, d, n) /\ n > 0 /\ v + n <= seg.hi /\ seg.hi \in Int
    BY <1>2, <1>3, <2>4 DEF Sound, ParseInv, SegmentInv
  <2>8. SameBytes(v - k, d, n + k)
    <3>1. k \in Nat
      BY <2>5
    <3> QED BY <2>5, <2>7, <3>1, ExtendedMatch, Zenon
  <2>9. Legal(v - k, d)
    BY <1>2, <2>2, <2>5, <2>7 DEF Legal
  <2>10. Sound(v - k, d, n + k)
    BY <2>5, <2>7, <2>8, <2>9 DEF Sound
  <2>11. /\ more \in Nat /\ anchor <= v - more /\ v - more \in Int
         /\ Sound(v - more, d, n + more)
    BY <1>2, <2>5, <2>6, <2>10
  <2> QED BY <1>3, <1>6, <2>4, <2>11 DEF best, more
<1> QED BY <1>5, <1>6

\* The match in hand is stored as s.
LEMMA TakeStep ==
  ASSUME ParserInv, pc = "store", NEW floor \in Int, floor >= legal_floor, NEW s,
         Meant(s, cur.best.start - Extended(floor) = anchor, cur.best.offset),
         Take(s, Extended(floor))
  PROVE  ParserInv'
<1>1. pc \in LazyPhases
  BY DEF LazyPhases
<1>2. cur.pos \in Int
  BY <1>1, LazyInHand DEF LazyCursors, LazyPlaced
<1> DEFINE more == Extended(floor)
<1>3. /\ anchor <= cur.best.start - more /\ cur.best.start - more \in Int
      /\ Sound(cur.best.start - more, cur.best.offset, cur.best.length + more)
  BY ExtendedSound
<1>4. /\ Store(s, cur.best.start - more, cur.best.length + more)
      /\ pc' = "rep2" /\ cur' = [pos |-> cur.pos] /\ UNCHANGED <<Segment, saved>>
  BY DEF Take
<1> HIDE DEF more
<1>5. cur' \in [pos : Int]
  BY <1>2, <1>4
<1>6. Meant(s, cur.best.start - more = anchor, cur.best.offset)
  BY DEF more
<1> QED BY <1>1, <1>3, <1>4, <1>5, <1>6, LazyStores

\* The second repeats behind a match.
LEMMA AgainStep ==
  ASSUME ParserInv, NEW final, NEW floor \in Int, floor >= legal_floor, NEW s,
         reps[2] # 0 => Meant(s, TRUE, reps[2]), Again(final, floor, s)
  PROVE  ParserInv'
<1>1. pc = "rep2" /\ pc \in LazyPhases
  BY DEF Again, LazyPhases
<1>2. BaseInv /\ ParseInv /\ anchor \in Int /\ cur \in [pos : Int]
  BY <1>1, LazyInHand DEF LazyCursors, LazyPlaced
<1>3. CASE anchor <= final /\ RepeatAt(anchor, reps[2], floor)
  <2> DEFINE n == Count(anchor - reps[2], anchor)
  <2>1. Store(s, anchor, n) /\ UNCHANGED <<Segment, saved>> /\ pc' = "rep2" /\ cur' = cur
    BY <1>1, <1>3 DEF Again
  <2>2. Sound(anchor, reps[2], n)
    BY <1>2, <1>3, RepeatSound
  <2>3. reps[2] # 0
    BY <1>3 DEF RepeatAt
  <2>4. Meant(s, anchor = anchor, reps[2])
    BY <2>3 DEF Meant
  <2> HIDE DEF n
  <2> QED BY <1>1, <1>2, <2>1, <2>2, <2>4, LazyStores
<1>4. CASE ~(anchor <= final /\ RepeatAt(anchor, reps[2], floor))
  <2>1. Search([pos |-> anchor], "pos")
    BY <1>4 DEF Again
  <2>2. LazyPlaced([pos |-> anchor], "pos")
    BY <1>2 DEF LazyPlaced
  <2> QED BY <1>1, <2>1, <2>2, LazyMoves DEF LazyPhases
<1> QED BY <1>3, <1>4

\* store_lazy_sequence_with_source and store_lazy_sequence_local_reps.
LEMMA TakeClassifiedStep ==
  ASSUME ParserInv, pc = "store", Third, NEW floor \in Int, floor >= legal_floor,
         Take(classified(cur.best.start - Extended(floor), cur.best.offset), Extended(floor))
  PROVE  ParserInv'
<1>1. BaseInv /\ ParseInv
  BY LazyInHand DEF LazyPhases
<1>2. cur.best.offset \in Positive
  BY ExtendedSound
<1>3. Meant(classified(cur.best.start - Extended(floor), cur.best.offset),
            cur.best.start - Extended(floor) = anchor, cur.best.offset)
  BY <1>1, <1>2, ClassifiedMeant DEF ParseInv
<1> QED BY <1>3, TakeStep

\* A repeat is stored by its value, or classified, and any other match explicitly.
LEMMA TakeSplitStep ==
  ASSUME ParserInv, pc = "store", Third, NEW floor \in Int, floor >= legal_floor,
         NEW s \in {by_value(cur.best.start, 1), classified(cur.best.start, cur.best.offset)},
         Take(IF IsRepeat THEN s ELSE explicit(cur.best.offset), Extended(floor))
  PROVE  ParserInv'
<1>1. BaseInv /\ ParseInv
  BY LazyInHand DEF LazyPhases
<1>2. /\ cur.best.offset \in Positive /\ cur.best.start - Extended(floor) \in Int
      /\ IsRepeat => Extended(floor) = 0 /\ cur.best.offset = reps[1] /\ cur.best.start # anchor
  BY ExtendedSound
<1>3. CASE IsRepeat
  <2>1. reps[1] # 0
    BY <1>2, <1>3 DEF Positive
  <2>2. Meant(by_value(cur.best.start, 1), cur.best.start = anchor, cur.best.offset)
    BY <1>1, <1>2, <1>3, <2>1, ByValueMeant DEF ParseInv
  <2>3. Meant(classified(cur.best.start, cur.best.offset), cur.best.start = anchor, cur.best.offset)
    BY <1>1, <1>2, ClassifiedMeant DEF ParseInv
  <2>4. cur.best.start \in Int
    BY LazyInHand DEF LazyPhases, LazyCursors, LazyPlaced, Best_
  <2>5. cur.best.start - Extended(floor) = cur.best.start
    BY <1>2, <1>3, <2>4
  <2>6. Meant(s, cur.best.start - Extended(floor) = anchor, cur.best.offset)
    BY <2>2, <2>3, <2>5
  <2> QED BY <1>3, <2>6, TakeStep
<1>4. CASE ~IsRepeat
  <2>1. Meant(explicit(cur.best.offset), cur.best.start - Extended(floor) = anchor, cur.best.offset)
    BY <1>1, <1>2, ExplicitMeant DEF ParseInv
  <2> QED BY <1>4, <2>1, TakeStep
<1> QED BY <1>3, <1>4

\* The second repeats, classified or stored by their value.
LEMMA AgainMeant ==
  ASSUME ParserInv, pc = "rep2", Third
  PROVE  reps[2] # 0 =>
           /\ Meant(classified(anchor, reps[2]), TRUE, reps[2])
           /\ Meant(by_value(anchor, 1), TRUE, reps[2])
<1> SUFFICES ASSUME reps[2] # 0
             PROVE  /\ Meant(classified(anchor, reps[2]), TRUE, reps[2])
                    /\ Meant(by_value(anchor, 1), TRUE, reps[2])
  OBVIOUS
<1>1. BaseInv /\ ParseInv
  BY LazyInHand DEF LazyPhases
<1>2. reps[2] \in Positive
  BY <1>1 DEF ParseInv, RepsInv, Triple, Positive
<1>3. Meant(classified(anchor, reps[2]), anchor = anchor, reps[2])
  BY <1>1, <1>2, ClassifiedMeant DEF ParseInv
<1>4. Meant(by_value(anchor, 1), anchor = anchor, reps[2])
  BY <1>1, ByValueMeant DEF ParseInv
<1> QED BY <1>3, <1>4 DEF Meant

\* The floors the lazy parsers extend and chain under are all legal.
LEMMA LazyFloors ==
  ASSUME ParserInv, pc \in {"store", "rep2"}
  PROVE  /\ match_floor(anchor) \in Int /\ match_floor(anchor) >= legal_floor
         /\ match_floor(cur.pos) \in Int /\ match_floor(cur.pos) >= legal_floor
         /\ pc = "store" => /\ cur.pos \in Int /\ anchor <= cur.pos
                            /\ match_floor(cur.best.start) \in Int
                            /\ match_floor(cur.best.start) >= legal_floor
<1>1. pc \in LazyPhases
  BY DEF LazyPhases
<1>2. /\ anchor \in Int /\ LazyCursors
      /\ \A v \in Int : match_floor(v) \in Int /\ match_floor(v) >= legal_floor
  BY <1>1, LazyInHand
<1>3. cur.pos \in Int
  BY <1>2 DEF LazyCursors, LazyPlaced
<1>4. pc = "store" => anchor <= cur.pos /\ cur.best.start \in Int
  BY <1>2 DEF LazyCursors, LazyPlaced, Best_
<1> QED BY <1>2, <1>3, <1>4

\* Entry at the segment's first byte, or behind it, with nothing put aside.
LEMMA UnclampedEnters ==
  ASSUME ParserInv, NEW entry \in {seg.lo, seg.lo + 1}, NEW limit, EnterAt(entry, limit, Unclamped)
  PROVE  ParserInv'
<1>1. pc = "enter" /\ BaseInv /\ EnterInv
  BY DEF EnterAt, ParserInv, BaseInv, BlockPhases, SegmentPhases
<1>2. seg.lo \in Int
  BY <1>1 DEF EnterInv, ParseInv, SegmentInv
<1>3. entry \in Int /\ seg.lo <= entry
  BY <1>2
<1> QED BY <1>1, <1>3, UnclampedHolds, LazyEnters

\* plan_sequences_lazy_without_prefix_no_trace and its twin over a prefix chain.
LEMMA LazyPlainStep ==
  ASSUME ParserInv,
         \/ LazyEnter \/ LazySearch \/ LazyDepth1 \/ LazyDepth2 \/ LazyStore \/ LazyRep2
         \/ LazyPrefixEnter \/ LazyPrefixSearch \/ LazyPrefixDepth1 \/ LazyPrefixDepth2
         \/ LazyPrefixStore \/ LazyPrefixRep2
  PROVE  ParserInv'
<1>0. Third
  BY DEF LazyEnter, LazySearch, LazyDepth1, LazyDepth2, LazyStore, LazyRep2, LazyPrefixEnter,
         LazyPrefixSearch, LazyPrefixDepth1, LazyPrefixDepth2, LazyPrefixStore, LazyPrefixRep2,
         LazyPlain, LazyPrefix, Third
<1>1. CASE LazyEnter \/ LazyPrefixEnter
  BY <1>1, UnclampedEnters DEF LazyEnter, LazyPrefixEnter
<1>2. CASE LazySearch \/ LazyPrefixSearch
  BY <1>2, SearchHereStep DEF LazySearch, LazyPrefixSearch
<1>3. CASE LazyDepth1 \/ LazyDepth2 \/ LazyPrefixDepth1 \/ LazyPrefixDepth2
  BY <1>3, DepthStep DEF LazyDepth1, LazyDepth2, LazyPrefixDepth1, LazyPrefixDepth2
<1>4. CASE LazyStore
  <2>1. /\ pc = "store"
        /\ Take(classified(cur.best.start - Extended(match_floor(cur.pos)), cur.best.offset),
                Extended(match_floor(cur.pos)))
    BY <1>4 DEF LazyStore
  <2> QED BY <1>0, <2>1, LazyFloors, TakeClassifiedStep
<1>5. CASE LazyPrefixStore
  <2>1. pc = "store"
    BY <1>5 DEF LazyPrefixStore
  <2>2. \E s \in {by_value(cur.best.start, 1), classified(cur.best.start, cur.best.offset)} :
          Take(IF IsRepeat THEN s ELSE explicit(cur.best.offset), Extended(match_floor(cur.pos)))
    BY <1>5 DEF LazyPrefixStore
  <2> QED BY <1>0, <2>1, <2>2, LazyFloors, TakeSplitStep
<1>6. CASE LazyRep2 \/ LazyPrefixRep2
  <2>1. pc = "rep2" /\ \E final : Again(final, match_floor(anchor), classified(anchor, reps[2]))
    BY <1>6 DEF LazyRep2, LazyPrefixRep2, Again
  <2> QED BY <1>0, <2>1, LazyFloors, AgainMeant, AgainStep
<1> QED BY <1>1, <1>2, <1>3, <1>4, <1>5, <1>6

\* plan_sequences_row_without_prefix_from_into.
LEMMA RowPlainStep ==
  ASSUME ParserInv,
         RowEnter \/ RowSearch \/ RowDepth1 \/ RowDepth2 \/ RowStore \/ RowRep2
  PROVE  ParserInv'
<1>0. Third /\ P = 0 /\ ~retired
  <2>1. RowPlain
    BY DEF RowEnter, RowSearch, RowDepth1, RowDepth2, RowStore, RowRep2
  <2> QED BY <2>1 DEF RowPlain, Third, retired
<1>1. CASE RowEnter
  <2>1. pc = "enter" /\ BaseInv /\ EnterInv
    BY <1>1 DEF RowEnter, EnterAt, ParserInv, BaseInv, BlockPhases, SegmentPhases
  <2>2. row_entry \in Int /\ seg.lo <= row_entry
    BY <2>1 DEF EnterInv, ParseInv, SegmentInv, row_entry
  <2>3. match_floor(row_entry) \in Int
    BY <2>1, <2>2, FloorTypes DEF BaseInv
  <2>4. ClampInv(invalidate(reps, row_entry, match_floor(row_entry)))
    BY <1>0, <2>1, <2>2, <2>3, ClampHolds
  <2> QED BY <1>1, <2>2, <2>4, LazyEnters DEF RowEnter
<1>2. CASE RowSearch
  BY <1>2, SearchHereStep DEF RowSearch
<1>3. CASE RowDepth1 \/ RowDepth2
  BY <1>3, DepthStep DEF RowDepth1, RowDepth2
<1>4. CASE RowStore
  <2>1. /\ pc = "store"
        /\ Take(classified(cur.best.start - Extended(0), cur.best.offset), Extended(0))
    BY <1>4 DEF RowStore
  <2>2. 0 >= legal_floor
    BY <1>0 DEF legal_floor, Windowed
  <2> QED BY <1>0, <2>1, <2>2, TakeClassifiedStep
<1>5. CASE RowRep2
  <2>1. pc = "rep2" /\ Again(row_search_limit, match_floor(anchor), by_value(anchor, 1))
    BY <1>5 DEF RowRep2, Again
  <2> QED BY <1>0, <2>1, LazyFloors, AgainMeant, AgainStep
<1> QED BY <1>1, <1>2, <1>3, <1>4, <1>5

\* The two chain parsers over a prefix.
LEMMA ChainStep ==
  ASSUME ParserInv,
         \/ ChainDictEnter \/ ChainDictSearch \/ ChainDictDepth1 \/ ChainDictDepth2
         \/ ChainDictStore \/ ChainDictRep2
         \/ ChainExtEnter \/ ChainExtSearch \/ ChainExtDepth1 \/ ChainExtDepth2
         \/ ChainExtStore \/ ChainExtRep2
  PROVE  ParserInv'
<1>0. Third
  BY DEF ChainDictEnter, ChainDictSearch, ChainDictDepth1, ChainDictDepth2, ChainDictStore,
         ChainDictRep2, ChainExtEnter, ChainExtSearch, ChainExtDepth1, ChainExtDepth2,
         ChainExtStore, ChainExtRep2, ChainDict, ChainExt, Runs, Third
<1>1. CASE ChainDictEnter \/ ChainExtEnter
  <2>1. EnterAt(chain_entry, lazy_search_limit, Unclamped)
    BY <1>1 DEF ChainDictEnter, ChainExtEnter
  <2>2. chain_entry \in {seg.lo, seg.lo + 1}
    <3>1. seg.lo \in Int
      BY <2>1 DEF EnterAt, ParserInv, EnterInv, ParseInv, SegmentInv
    <3> QED BY <3>1 DEF chain_entry
  <2> QED BY <2>1, <2>2, UnclampedEnters
<1>2. CASE ChainDictSearch \/ ChainExtSearch
  BY <1>2, SearchHereStep DEF ChainDictSearch, ChainExtSearch
<1>3. CASE ChainDictDepth1 \/ ChainDictDepth2 \/ ChainExtDepth1 \/ ChainExtDepth2
  BY <1>3, DepthStep DEF ChainDictDepth1, ChainDictDepth2, ChainExtDepth1, ChainExtDepth2
<1>4. CASE ChainDictStore \/ ChainExtStore
  <2>1. pc = "store" /\ (chain_prefixed_store \/ Search([pos |-> Skip], "pos"))
    BY <1>4 DEF ChainDictStore, ChainExtStore
  <2>2. CASE chain_prefixed_store
    <3>1. \E s \in {by_value(cur.best.start, 1), classified(cur.best.start, cur.best.offset)} :
            Take(IF IsRepeat THEN s ELSE explicit(cur.best.offset),
                 Extended(match_floor(cur.best.start)))
      BY <2>2 DEF chain_prefixed_store
    <3> QED BY <1>0, <2>1, <3>1, LazyFloors, TakeSplitStep
  <2>3. CASE Search([pos |-> Skip], "pos")
    BY <2>1, <2>3, LazyFloors, LazySkips DEF LazyPhases
  <2> QED BY <2>1, <2>2, <2>3
<1>5. CASE ChainDictRep2 \/ ChainExtRep2
  <2>1. pc = "rep2" /\ Again(lazy_search_limit, match_floor(anchor), by_value(anchor, 1))
    BY <1>5 DEF ChainDictRep2, ChainExtRep2, chain_rep2, Again
  <2> QED BY <1>0, <2>1, LazyFloors, AgainMeant, AgainStep
<1> QED BY <1>1, <1>2, <1>3, <1>4, <1>5

\* The two row parsers over a prefix.
LEMMA RowPrefixStep ==
  ASSUME ParserInv,
         \/ RowExtEnter \/ RowExtSearch \/ RowExtDepth1 \/ RowExtDepth2 \/ RowExtStore \/ RowExtRep2
         \/ RowDictEnter \/ RowDictSearch \/ RowDictDepth1 \/ RowDictDepth2
         \/ RowDictStore \/ RowDictRep2
  PROVE  ParserInv'
<1>0. Third
  BY DEF RowExtEnter, RowExtSearch, RowExtDepth1, RowExtDepth2, RowExtStore, RowExtRep2,
         RowDictEnter, RowDictSearch, RowDictDepth1, RowDictDepth2, RowDictStore, RowDictRep2,
         RowExt, RowDict, Runs, Third
<1>1. CASE RowExtEnter \/ RowDictEnter
  BY <1>1, UnclampedEnters DEF RowExtEnter, RowDictEnter
<1>2. CASE RowExtSearch \/ RowDictSearch
  BY <1>2, SearchHereStep DEF RowExtSearch, RowDictSearch
<1>3. CASE RowExtDepth1 \/ RowExtDepth2 \/ RowDictDepth1 \/ RowDictDepth2
  BY <1>3, DepthStep DEF RowExtDepth1, RowExtDepth2, RowDictDepth1, RowDictDepth2
<1>4. CASE RowExtStore
  <2>1. /\ pc = "store"
        /\ Take(classified(cur.best.start - Extended(match_floor(cur.pos)), cur.best.offset),
                Extended(match_floor(cur.pos)))
    BY <1>4 DEF RowExtStore
  <2> QED BY <1>0, <2>1, LazyFloors, TakeClassifiedStep
<1>5. CASE RowDictStore
  <2>1. pc = "store"
    BY <1>5 DEF RowDictStore
  <2>2. \E s \in {by_value(cur.best.start, 1), classified(cur.best.start, cur.best.offset)} :
          Take(IF IsRepeat THEN s ELSE explicit(cur.best.offset),
               Extended(match_floor(cur.best.start)))
    BY <1>5 DEF RowDictStore
  <2> QED BY <1>0, <2>1, <2>2, LazyFloors, TakeSplitStep
<1>6. CASE RowExtRep2
  <2>1. pc = "rep2" /\ Again(row_search_limit, match_floor(cur.pos), classified(anchor, reps[2]))
    BY <1>6 DEF RowExtRep2, Again
  <2> QED BY <1>0, <2>1, LazyFloors, AgainMeant, AgainStep
<1>7. CASE RowDictRep2
  <2>1. pc = "rep2" /\ Again(row_search_limit, match_floor(anchor), by_value(anchor, 1))
    BY <1>7 DEF RowDictRep2, Again
  <2> QED BY <1>0, <2>1, LazyFloors, AgainMeant, AgainStep
<1> QED BY <1>1, <1>2, <1>3, <1>4, <1>5, <1>6, <1>7

\* Every step of the greedy, lazy and lazy2 parsers.
LEMMA LazyNextStep ==
  ASSUME ParserInv, LazyNext
  PROVE  ParserInv'
BY LazyPlainStep, RowPlainStep, ChainStep, RowPrefixStep DEF LazyNext

-----------------------------------------------------------------------------
\* The optimal parser: candidates.

\* Within a segment a sound match stays one.
LEMMA SoundStays ==
  ASSUME UNCHANGED Segment
  PROVE  /\ \A v, d, n : Sound(v, d, n)' <=> Sound(v, d, n)
         /\ \A offsets, ll_zero, value, v, n :
              Named(offsets, ll_zero, value, v, n)' <=> Named(offsets, ll_zero, value, v, n)
<1>1. ASSUME NEW v, NEW d, NEW n PROVE Sound(v, d, n)' <=> Sound(v, d, n)
  <2>1. seg' = seg
    BY SegmentStays
  <2>2. Legal(v, d)' <=> Legal(v, d)
    BY BytesStay
  <2>3. SameBytes(v, d, n)' <=> SameBytes(v, d, n)
    BY BytesStay
  <2> QED BY <2>1, <2>2, <2>3 DEF Sound
<1>2. ASSUME NEW offsets, NEW ll_zero, NEW value, NEW v, NEW n
      PROVE  Named(offsets, ll_zero, value, v, n)' <=> Named(offsets, ll_zero, value, v, n)
  BY <1>1 DEF Named
<1> QED BY <1>1, <1>2

\* What a value resolves to, and the offsets behind it, are numbers.
LEMMA ResolveTypes ==
  ASSUME NEW r \in Triple, NEW ll_zero \in BOOLEAN, NEW value \in Nat
  PROVE  /\ resolve_values(r, ll_zero, value).reps \in Triple
         /\ resolve_values(r, ll_zero, value).offset \in Nat
<1>1. PICK a \in Nat, b \in Nat, c \in Nat : r = <<a, b, c>>
  BY DEF Triple
<1> QED BY <1>1 DEF resolve_values, Promote, Triple, BadOffset

Listed == [value : Nat, length : Nat]

\* Candidates for v as seen from these offsets: each names a sound match, no shorter
\* than the shortest.
Offered(list, v, offsets, ll_zero) ==
  /\ list \in Seq(Listed)
  /\ \A i \in 1..Len(list) :
       MIN_MATCH <= list[i].length /\ Named(offsets, ll_zero, list[i].value, v, list[i].length)

\* A list is empty or its longest candidate is the last.
LEMMA LongestIs ==
  ASSUME FrameInv, NEW v, NEW offsets, NEW ll_zero, NEW list, Offered(list, v, offsets, ll_zero)
  PROVE  /\ Longest(list) \in Int /\ Longest(list) >= MIN_MATCH - 1
         /\ list # <<>> =>
              /\ Len(list) \in 1..Len(list) /\ Longest(list) = list[Len(list)].length
              /\ list[Len(list)] \in Listed
              /\ Longest(list) >= MIN_MATCH
              /\ Named(offsets, ll_zero, list[Len(list)].value, v, Longest(list))
<1>1. CASE list = <<>>
  BY <1>1, FrameTypes DEF Longest
<1>2. CASE list # <<>>
  <2>1. Len(list) \in 1..Len(list) /\ list[Len(list)] \in Listed
    BY <1>2 DEF Offered
  <2>2. Longest(list) = list[Len(list)].length
    BY <1>2 DEF Longest
  <2> QED BY <1>2, <2>1, <2>2, FrameTypes DEF Offered, Listed
<1> QED BY <1>1, <1>2

\* A longer candidate joins the list.
LEMMA OfferedMore ==
  ASSUME NEW v, NEW offsets, NEW ll_zero, NEW list, Offered(list, v, offsets, ll_zero),
         NEW x \in Listed, MIN_MATCH <= x.length, Named(offsets, ll_zero, x.value, v, x.length)
  PROVE  Offered(Append(list, x), v, offsets, ll_zero)
<1>1. Append(list, x) \in Seq(Listed) /\ Len(Append(list, x)) = Len(list) + 1
  BY DEF Offered
<1>2. ASSUME NEW i \in 1..(Len(list) + 1)
      PROVE  /\ MIN_MATCH <= Append(list, x)[i].length
             /\ Named(offsets, ll_zero, Append(list, x)[i].value, v, Append(list, x)[i].length)
  BY DEF Offered
<1> QED BY <1>1, <1>2 DEF Offered

\* A candidate at a legal distance, classified against the offsets.
LEMMA CandidateNamed ==
  ASSUME BaseInv, ParseInv, NEW v \in Int, v <= seg.hi, NEW d \in Positive, v - d >= match_floor(v),
         NEW offsets \in Triple, NEW ll_zero \in BOOLEAN, Count(v - d, v) >= MIN_MATCH
  PROVE  /\ Candidate(v, d, offsets, ll_zero) \in Listed
         /\ Candidate(v, d, offsets, ll_zero).length = Count(v - d, v)
         /\ Named(offsets, ll_zero, Candidate(v, d, offsets, ll_zero).value, v, Count(v - d, v))
<1>1. PICK value : value = encode_offset_value_and_update(offsets, d, ll_zero).value
  OBVIOUS
<1>2. value \in Nat /\ resolve_values(offsets, ll_zero, value).offset = d
  <2> DEFINE e == encode_offset_value_and_update(offsets, d, ll_zero)
  <2>1. e.value \in Nat /\ resolve_values(offsets, ll_zero, e.value) = [offset |-> d, reps |-> e.reps]
    BY ClassifierResolves
  <2> HIDE DEF e
  <2>2. value = e.value
    BY <1>1 DEF e
  <2> QED BY <2>1, <2>2
<1>3. PICK n : n = Count(v - d, v)
  OBVIOUS
<1>4. Candidate(v, d, offsets, ll_zero) = [value |-> value, length |-> n]
  BY <1>1, <1>3 DEF Candidate, classify_offset
<1>5. Legal(v, d)
  BY MatchFloorLegal DEF BaseInv
<1>6. v - d \in Int /\ v - (v - d) = d
  BY DEF Positive
<1>7. n \in Int /\ n <= seg.hi - v /\ SameBytes(v, d, n)
  BY <1>3, <1>6, CountFacts DEF ParseInv
<1>8. n \in Nat /\ n > 0 /\ v + n <= seg.hi
  BY <1>3, <1>7, FrameTypes DEF BaseInv, ParseInv, SegmentInv
<1>9. Named(offsets, ll_zero, value, v, n)
  BY <1>2, <1>5, <1>7, <1>8 DEF Sound, Named
<1> QED BY <1>2, <1>3, <1>4, <1>8, <1>9 DEF Listed

\* One repeat more.
LEMMA WithRepeatOffered ==
  ASSUME BaseInv, ParseInv, NEW v \in Int, v <= seg.hi, NEW offsets \in Triple,
         NEW ll_zero \in BOOLEAN, NEW list, Offered(list, v, offsets, ll_zero), NEW d \in Nat
  PROVE  Offered(WithRepeat(list, v, d, offsets, ll_zero), v, offsets, ll_zero)
<1> SUFFICES ASSUME d # 0, v - d >= match_floor(v), Count(v - d, v) > Longest(list)
             PROVE  Offered(Append(list, Candidate(v, d, offsets, ll_zero)), v, offsets, ll_zero)
  BY DEF WithRepeat
<1>1. d \in Positive
  BY DEF Positive
<1>2. Longest(list) \in Int /\ Longest(list) >= MIN_MATCH - 1 /\ MIN_MATCH \in Int
  BY LongestIs, FrameTypes DEF BaseInv
<1>3. Count(v - d, v) \in Int
  <2>1. v - d \in Int /\ SegmentInv
    BY DEF ParseInv
  <2> QED BY <2>1, CountFacts
<1>4. Count(v - d, v) >= MIN_MATCH
  BY <1>2, <1>3
<1> DEFINE x == Candidate(v, d, offsets, ll_zero)
<1>5. x \in Listed /\ x.length = Count(v - d, v) /\ Named(offsets, ll_zero, x.value, v, Count(v - d, v))
  BY <1>1, <1>4, CandidateNamed
<1> HIDE DEF x
<1>6. MIN_MATCH <= x.length /\ Named(offsets, ll_zero, x.value, v, x.length)
  BY <1>4, <1>5
<1>7. Offered(Append(list, x), v, offsets, ll_zero)
  BY <1>5, <1>6, OfferedMore
<1> QED BY <1>7 DEF x

\* All three.
LEMMA RepeatsOffered ==
  ASSUME BaseInv, ParseInv, NEW v \in Int, v <= seg.hi, NEW offsets \in Triple,
         NEW ll_zero \in BOOLEAN
  PROVE  Offered(Repeats(v, offsets, ll_zero), v, offsets, ll_zero)
<1> DEFINE tried == IF ll_zero THEN <<offsets[2], offsets[3], OneLess(offsets[1])>> ELSE offsets
           next(list, i) == IF Enough(list, v) THEN list ELSE WithRepeat(list, v, tried[i], offsets, ll_zero)
           Good(list) == Offered(list, v, offsets, ll_zero)
<1>1. \A i \in 1..3 : tried[i] \in Nat
  BY DEF OneLess, Triple
<1>2. Good(<<>>)
  BY DEF Offered
<1>3. ASSUME NEW list, Good(list), NEW i \in 1..3 PROVE Good(next(list, i))
  BY <1>1, <1>3, WithRepeatOffered
<1>4. Repeats(v, offsets, ll_zero) = next(next(next(<<>>, 1), 2), 3)
  BY DEF Repeats
<1> HIDE DEF Good, next, tried
<1>5. Good(next(<<>>, 1))
  BY <1>2, <1>3
<1>6. Good(next(next(<<>>, 1), 2))
  BY <1>3, <1>5
<1>7. Good(next(next(next(<<>>, 1), 2), 3))
  BY <1>3, <1>6
<1> QED BY <1>4, <1>7 DEF Good

\* Sets of candidate lists.
AllOffered(lists, v, offsets, ll_zero) == \A list \in lists : Offered(list, v, offsets, ll_zero)

\* What a further search adds.
LEMMA GrownOffered ==
  ASSUME BaseInv, ParseInv, NEW v \in Int, v <= seg.hi, NEW offsets \in Triple,
         NEW ll_zero \in BOOLEAN, NEW from, NEW lists, AllOffered(lists, v, offsets, ll_zero)
  PROVE  AllOffered(Grown(lists, v, from, offsets, ll_zero), v, offsets, ll_zero)
<1> SUFFICES ASSUME NEW list \in lists,
                    NEW m \in Candidates(v, match_floor(v), MIN_MATCH), Count(m, v) > Longest(list)
             PROVE  Offered(Append(list, Candidate(v, v - m, offsets, ll_zero)), v, offsets, ll_zero)
  <2> DEFINE added(list) == {Append(list, Candidate(v, v - m, offsets, ll_zero)) :
                               m \in {m \in Candidates(v, match_floor(v), MIN_MATCH) \cap from :
                                        ~Enough(list, v) /\ Count(m, v) > Longest(list)}}
  <2>1. Grown(lists, v, from, offsets, ll_zero) = lists \cup UNION {added(list) : list \in lists}
    BY DEF Grown
  <2>2. \A list \in lists : \A x \in added(list) : Offered(x, v, offsets, ll_zero)
    OBVIOUS
  <2> HIDE DEF added
  <2> QED BY <2>1, <2>2 DEF AllOffered
<1>0. Offered(list, v, offsets, ll_zero)
  BY DEF AllOffered
<1>1. match_floor(v) \in Int
  BY FloorTypes DEF BaseInv
<1>2. m \in Int /\ m >= match_floor(v) /\ m < v /\ Count(m, v) >= MIN_MATCH
  BY <1>1 DEF Candidates
<1>3. PICK d \in Positive : d = v - m
  BY <1>2 DEF Positive
<1>4. v - d = m
  BY <1>2, <1>3
<1>5. PICK x : x = Candidate(v, d, offsets, ll_zero)
  OBVIOUS
<1>6. x \in Listed /\ x.length = Count(m, v) /\ Named(offsets, ll_zero, x.value, v, Count(m, v))
  BY <1>2, <1>4, <1>5, CandidateNamed
<1>7. MIN_MATCH <= x.length
  BY <1>2, <1>6
<1>8. Offered(Append(list, x), v, offsets, ll_zero)
  BY <1>0, <1>6, <1>7, OfferedMore
<1> QED BY <1>3, <1>5, <1>8

\* What is left of the long-distance match.
LEMMA OfferOffered ==
  ASSUME BaseInv, ParseInv, Optimal, NEW v \in Int, NEW offsets \in Triple,
         NEW ll_zero \in BOOLEAN, NEW list, Offered(list, v, offsets, ll_zero)
  PROVE  Offered(Offer(list, v), v, offsets, ll_zero)
<1> SUFFICES ASSUME ldm # Nothing, v \in ldm.start..(ldm.start + ldm.length - 1),
                    ldm.start + ldm.length - v > Longest(list)
             PROVE  Offered(Append(list, [value |-> ldm.offset + 3, length |-> ldm.start + ldm.length - v]),
                            v, offsets, ll_zero)
  BY DEF Offer
<1>1. /\ ldm.start \in Int /\ ldm.length \in Positive /\ ldm.start + ldm.length <= block.hi
      /\ Legal(ldm.start, ldm.offset) /\ SameBytes(ldm.start, ldm.offset, ldm.length)
      /\ seg.hi = block.hi
  BY DEF BaseInv, LdmInv, Optimal
<1>2. PICK s \in Int : s = ldm.start
  BY <1>1
<1>3. PICK length \in Positive : length = ldm.length
  BY <1>1
<1>4. PICK d \in Positive : d = ldm.offset
  BY <1>1 DEF Legal
<1>5. PICK n \in Int : n = s + length - v
  BY DEF Positive
<1>6. /\ s <= v /\ v <= s + length - 1 /\ n > 0 /\ n \in Nat /\ v + n = s + length /\ seg.hi \in Int
      /\ v + n <= seg.hi
  BY <1>1, <1>2, <1>3, <1>5 DEF Positive, ParseInv, SegmentInv
<1>7. Legal(v, d)
  <2>1. d \in Int /\ s - d >= legal_floor /\ (Windowed => d <= H)
    BY <1>1, <1>2, <1>4 DEF Legal, Positive
  <2>2. legal_floor \in Int
    BY FloorTypes DEF BaseInv
  <2>3. v - d >= legal_floor
    BY <1>6, <2>1, <2>2
  <2> QED BY <2>1, <2>3 DEF Legal
<1>8. SameBytes(v, d, n)
  <2> SUFFICES ASSUME NEW k \in 0..(n - 1) PROVE Byte(v + k) = Byte(v + k - d)
    BY DEF SameBytes
  <2>1. /\ v - s + k \in 0..(length - 1) /\ s + (v - s + k) = v + k
        /\ s + (v - s + k) - d = v + k - d
    BY <1>5, <1>6 DEF Positive
  <2>2. SameBytes(s, d, length)
    BY <1>1, <1>2, <1>3, <1>4
  <2>3. Byte(s + (v - s + k)) = Byte(s + (v - s + k) - d)
    BY <2>1, <2>2 DEF SameBytes
  <2> QED BY <2>1, <2>3
<1>9. Sound(v, d, n)
  BY <1>6, <1>7, <1>8 DEF Sound
<1>10. resolve_values(offsets, ll_zero, d + 3).offset = d
  BY DEF resolve_values, Positive
<1>11. PICK x : x = [value |-> d + 3, length |-> n]
  OBVIOUS
<1>12. x \in Listed /\ Named(offsets, ll_zero, x.value, v, x.length)
  BY <1>6, <1>9, <1>10, <1>11 DEF Named, Listed, Positive
<1>13. MIN_MATCH <= x.length
  <2>1. n > Longest(list)
    BY <1>2, <1>3, <1>5
  <2> QED BY <1>6, <1>11, <2>1, LongestIs, FrameTypes DEF BaseInv
<1>14. Offered(Append(list, x), v, offsets, ll_zero)
  BY <1>12, <1>13, OfferedMore
<1> QED BY <1>2, <1>3, <1>4, <1>5, <1>11, <1>14

\* Whatever is collected is sound.
LEMMA CollectedOffered ==
  ASSUME BaseInv, ParseInv, Optimal, NEW v \in Int, v <= seg.hi, NEW offsets \in Triple,
         NEW ll_zero \in BOOLEAN, NEW list \in Collected(v, offsets, ll_zero)
  PROVE  Offered(list, v, offsets, ll_zero)
<1> DEFINE Good(lists) == AllOffered(lists, v, offsets, ll_zero)
           short == ShortHash(Repeats(v, offsets, ll_zero), v, offsets, ll_zero)
<1>1. Offered(<<>>, v, offsets, ll_zero) /\ Good({<<>>})
  BY DEF Offered, AllOffered
<1>2. \A lists, from : Good(lists) => Good(Grown(lists, v, from, offsets, ll_zero))
  BY GrownOffered
<1>3. Good(short)
  <2>1. Good({Repeats(v, offsets, ll_zero)})
    BY RepeatsOffered DEF AllOffered
  <2> HIDE DEF Good
  <2> QED BY <1>2, <2>1 DEF ShortHash
<1>4. \A lists : Good(lists) => Good({Offer(l, v) : l \in lists})
  BY OfferOffered DEF AllOffered
<1>5. \A a, b : Good(a) /\ Good(b) => Good(a \cup b)
  BY DEF AllOffered
<1> HIDE DEF Good, short
<1>6. CASE P = 0
  <2> DEFINE grown == Grown(short, v, 0..(v - 1), offsets, ll_zero)
             all == {<<>>} \cup grown
  <2>1. Good(grown)
    BY <1>2, <1>3
  <2> HIDE DEF grown
  <2>2. Good(all)
    BY <1>1, <1>5, <2>1
  <2> HIDE DEF all
  <2>3. Collected(v, offsets, ll_zero) = {Offer(l, v) : l \in all}
    BY <1>6 DEF Collected, CollectedPlain, all, grown, short
  <2>4. Good(Collected(v, offsets, ll_zero))
    BY <1>4, <2>2, <2>3
  <2> QED BY <2>4 DEF Good, AllOffered
<1>7. CASE P # 0
  <2> DEFINE source_matches == Grown(short, v, (IF attached THEN P ELSE 0)..(v - 1), offsets, ll_zero)
             matches == IF attached THEN Grown(source_matches, v, 0..(P - 1), offsets, ll_zero)
                        ELSE source_matches
             offered == {Offer(l, v) : l \in matches}
  <2>1. Good(source_matches)
    BY <1>2, <1>3
  <2>2. Good(matches)
    <3> HIDE DEF source_matches
    <3> QED BY <1>2, <2>1
  <2>3. Collected(v, offsets, ll_zero) = {<<>>} \cup offered
    BY <1>7 DEF Collected, CollectedTwoPhase, short
  <2> HIDE DEF matches
  <2>4. Good(offered)
    BY <1>4, <2>2
  <2> HIDE DEF offered
  <2>5. Good({<<>>} \cup offered)
    BY <1>1, <1>5, <2>4
  <2> QED BY <2>3, <2>5 DEF Good, AllOffered
<1> QED BY <1>6, <1>7

\* A sound match may be taken shorter.
LEMMA SoundPrefix ==
  ASSUME NEW v \in Int, NEW d, NEW n \in Int, Sound(v, d, n), NEW k \in Int, 0 < k, k <= n,
         seg.hi \in Int
  PROVE  Sound(v, d, k)
<1>1. SameBytes(v, d, k)
  <2>1. \A j \in 0..(k - 1) : j \in 0..(n - 1)
    OBVIOUS
  <2> QED BY <2>1 DEF Sound, SameBytes
<1> QED BY <1>1 DEF Sound

\* The candidate a match of n is made from names a match of n.
LEMMA ForNamed ==
  ASSUME FrameInv, seg.hi \in Int, NEW v \in Int, NEW offsets, NEW ll_zero, NEW list,
         Offered(list, v, offsets, ll_zero), NEW n \in Int, MIN_MATCH <= n, n <= Longest(list)
  PROVE  /\ list[For(list, n)].value \in Nat
         /\ Named(offsets, ll_zero, list[For(list, n)].value, v, n)
<1>0. MIN_MATCH \in Int /\ MIN_MATCH > 0
  BY FrameTypes
<1>1. list # <<>>
  BY <1>0, LongestIs DEF Longest
<1>2. /\ list \in Seq(Listed) /\ DOMAIN list = 1..Len(list) /\ Len(list) \in Nat
      /\ \A i \in 1..Len(list) : list[i] \in Listed /\ list[i].length \in Int
  <2>1. list \in Seq(Listed)
    BY DEF Offered
  <2>2. \A x \in Listed : x.length \in Int
    BY DEF Listed
  <2> QED BY <2>1, <2>2
<1> DEFINE S == {i \in 1..Len(list) : list[i].length >= n}
<1>3. S \in SUBSET Nat /\ S # {}
  <2>1. Len(list) \in S
    BY <1>1, LongestIs
  <2> QED BY <2>1, <1>2
<1>4. PICK i \in S : \A j \in S : i <= j
  <2> HIDE DEF S
  <2> QED BY <1>3, LeastOf
<1>5. i \in DOMAIN list /\ list[i].length >= n /\ \A j \in 1..(i - 1) : list[j].length < n
  <2>1. ASSUME NEW j \in 1..(i - 1) PROVE list[j].length < n
    <3>1. j \in 1..Len(list) /\ ~(i <= j)
      BY <1>2, <1>4
    <3> QED BY <1>2, <1>4, <3>1
  <2> QED BY <1>2, <1>4, <2>1
<1>6. PICK k \in 1..Len(list) : k = For(list, n) /\ list[k].length >= n
  BY <1>2, <1>5 DEF For
<1>7. Sound(v, resolve_values(offsets, ll_zero, list[k].value).offset, list[k].length)
  BY DEF Offered, Named
<1>8. Sound(v, resolve_values(offsets, ll_zero, list[k].value).offset, n)
  BY <1>0, <1>2, <1>6, <1>7, SoundPrefix
<1> QED BY <1>2, <1>6, <1>8 DEF Named, Listed

-----------------------------------------------------------------------------
\* The optimal parser: the cursors.

\* What its steps have in hand.
LEMMA OptimalInHand ==
  ASSUME ParserInv, pc \in OptimalPhases
  PROVE  /\ BaseInv /\ ParseInv /\ OptimalCursors /\ Optimal /\ saved.inner = NothingAside /\ Third
         /\ anchor \in Int /\ seg.hi \in Int /\ P \in Nat /\ P <= anchor /\ anchor <= seg.hi
         /\ reps \in Triple
         /\ OPT_NUM \in Nat /\ OPT_NUM > 0 /\ MIN_MATCH \in Nat /\ MIN_MATCH > 0
         /\ search_limit \in Int /\ (search_limit <= seg.hi \/ search_limit = P)
<1>1. BaseInv /\ ParseInv /\ OptimalCursors
  BY InSearch DEF OptimalPhases, SearchPhases, ParserInv
<1>2. Optimal /\ saved.inner = NothingAside
  BY <1>1 DEF OptimalCursors, OptimalPlaced
<1>3. Third
  BY <1>2 DEF Optimal, Third
<1>4. /\ anchor \in Int /\ seg.hi \in Int /\ P \in Nat /\ P <= anchor /\ anchor <= seg.hi
      /\ reps \in Triple
  BY <1>1, FrameTypes DEF BaseInv, FrameInv, ParseInv, SegmentInv, RepsInv
<1>5. OPT_NUM \in Nat /\ OPT_NUM > 0 /\ MIN_MATCH \in Nat /\ MIN_MATCH > 0
  BY <1>1, OptimalAssumption, FrameTypes DEF BaseInv, Positive
<1>6. search_limit \in Int /\ (search_limit <= seg.hi \/ search_limit = P)
  BY <1>1, <1>4, FrameTypes DEF search_limit, Higher, BaseInv
<1> QED BY <1>1, <1>2, <1>3, <1>4, <1>5, <1>6

\* The optimal parser goes on searching.
LEMMA OptimalGoesOn ==
  ASSUME BaseInv', ParseInv', pc' \in OptimalPhases, OptimalCursors'
  PROVE  ParserInv'
<1>1. FastCursors' /\ LazyCursors'
  BY DEF OptimalPhases, FastCursors, Placed, LazyCursors, LazyPlaced
<1> QED BY <1>1, StillSearching DEF OptimalPhases, SearchPhases

\* The path stays one while only the cursors are renamed.
LEMMA NodesStay ==
  ASSUME UNCHANGED Segment, UNCHANGED <<anchor, reps>>, NEW c, cur' = c,
         PathNodes(c.ip, c.nodes, c.at, c.last_pos)
  PROVE  PathNodes(cur.ip, cur.nodes, cur.at, cur.last_pos)'
<1>1. UNCHANGED <<source, setup, seg>> /\ H' = H /\ Total' = Total /\ legal_floor' = legal_floor
      /\ (Windowed' <=> Windowed)
  BY SegmentStays
<1>2. \A q, limit : IsMatch(cur.ip, cur.nodes, q, limit)' <=> IsMatch(c.ip, c.nodes, q, limit)
  <2>1. \A v, d, n : Sound(v, d, n)' <=> Sound(v, d, n)
    BY SoundStays
  <2>2. ASSUME NEW q, NEW limit
        PROVE  IsMatch(cur.ip, cur.nodes, q, limit)' <=> IsMatch(c.ip, c.nodes, q, limit)
    <3> DEFINE at == Start(c.nodes[q], q)
               d == resolve_values(c.nodes[at].reps, c.nodes[at].litlen = 0, c.nodes[q].off).offset
               named == Sound(c.ip + at, d, c.nodes[q].mlen)
               here == /\ c.nodes[q].mlen > 0 /\ c.nodes[q].litlen \in {0, 1} /\ at \in 0..(limit - 1)
    <3>1. Sound(c.ip + at, d, c.nodes[q].mlen)' <=> Sound(c.ip + at, d, c.nodes[q].mlen)
      BY <2>1
    <3>2. IsMatch(c.ip, c.nodes, q, limit) <=> here /\ named
      BY DEF IsMatch, Named
    <3>3. IsMatch(cur.ip, cur.nodes, q, limit)' <=> here /\ named'
      BY cur' = c DEF IsMatch, Named
    <3> QED BY <3>1, <3>2, <3>3
  <2> QED BY <2>2
<1>3. \A q : IsSettled(cur.ip, cur.nodes, q)' <=> IsSettled(c.ip, c.nodes, q)
  BY <1>2 DEF IsSettled, RepsBehind
<1>4. \A q, at : IsOpen(cur.ip, cur.nodes, q, at)' <=> IsOpen(c.ip, c.nodes, q, at)
  BY <1>2 DEF IsOpen, RepsBehind
<1>5. FirstNode(cur.ip, cur.nodes)' <=> FirstNode(c.ip, c.nodes)
  BY <1>1 DEF FirstNode
<1>6. Reach(cur.ip)' = Reach(c.ip)
  BY <1>1 DEF Reach
<1> QED BY <1>3, <1>4, <1>5, <1>6 DEF PathNodes, Node, Triple

\* The cursors move to where they may be.
LEMMA OptimalMoves ==
  ASSUME BaseInv, ParseInv, NEW c, NEW where \in OptimalPhases, Search(c, where),
         OptimalPlaced(c, where)
  PROVE  ParserInv'
<1>1. cur' = c /\ pc' = where /\ UNCHANGED <<Segment, Storage, Offsets>>
  BY DEF Search
<1>2. UNCHANGED Segment /\ UNCHANGED <<anchor, reps, saved>>
  BY <1>1 DEF Storage, Offsets
<1>3. BaseInv' /\ ParseInv'
  BY <1>1, SearchKeeps
<1>4. setup' = setup /\ seg' = seg
  BY <1>2, SegmentStays
<1>5. where = "path" => PathNodes(cur.ip, cur.nodes, cur.at, cur.last_pos)'
  BY <1>1, <1>2, NodesStay DEF OptimalPlaced
<1>6. where = "emit" => (\E to \in Place : Leads(cur.path, Here, to))'
  <2> SUFFICES ASSUME where = "emit" PROVE (\E to \in Place : Leads(cur.path, Here, to))'
    OBVIOUS
  <2>1. PICK to \in Place : Leads(c.path, Here, to)
    BY DEF OptimalPlaced
  <2>2. Here' = Here
    BY <1>2 DEF Here
  <2>3. \A step, from, next : Follows(step, from, next)' <=> Follows(step, from, next)
    BY <1>2, SoundStays DEF Follows
  <2>4. Leads(cur.path, Here, to)'
    BY <1>1, <2>1, <2>2, <2>3 DEF Leads
  <2> QED BY <2>4 DEF Place, Triple
<1>7. OptimalCursors'
  BY <1>1, <1>2, <1>4, <1>5, <1>6 DEF OptimalCursors, OptimalPlaced, Optimal, OptimalPhases, Step, Node, Triple, NothingAside
<1> QED BY <1>1, <1>3, <1>7, OptimalGoesOn

-----------------------------------------------------------------------------
\* The sequences of a path.

\* None lead nowhere.
LEMMA LeadsNone ==
  ASSUME NEW from \in Place
  PROVE  Leads(<<>>, from, from)
<1>1. <<from>> \in Seq(Place) /\ Len(<<from>>) = Len(<<>>) + 1 /\ <<from>>[1] = from
      /\ <<from>>[Len(<<>>) + 1] = from
  OBVIOUS
<1>2. 1..Len(<<>>) = {}
  OBVIOUS
<1> QED BY <1>1, <1>2 DEF Leads

\* One more leads on.
LEMMA LeadsOn ==
  ASSUME NEW path \in Seq(Step), NEW from, NEW mid, NEW to \in Place, NEW s,
         Leads(path, from, mid), Follows(s, mid, to)
  PROVE  Leads(Append(path, s), from, to)
<1>1. PICK trail \in Seq(Place) :
        /\ Len(trail) = Len(path) + 1 /\ trail[1] = from /\ trail[Len(path) + 1] = mid
        /\ \A k \in 1..Len(path) : Follows(path[k], trail[k], trail[k + 1])
  BY DEF Leads
<1> DEFINE n == Len(path)
           longer == Append(trail, to)
           more == Append(path, s)
<1>2. n \in Nat /\ Len(trail) = n + 1
  BY <1>1
<1>3. /\ longer \in Seq(Place) /\ Len(longer) = n + 2 /\ longer[n + 2] = to
      /\ \A k \in 1..(n + 1) : longer[k] = trail[k]
  BY <1>1, <1>2
<1>4. Len(more) = n + 1 /\ more[n + 1] = s /\ \A k \in 1..n : more[k] = path[k]
  OBVIOUS
<1> HIDE DEF longer, more, n
<1>5. ASSUME NEW k \in 1..(n + 1) PROVE Follows(more[k], longer[k], longer[k + 1])
  <2>1. CASE k = n + 1
    <3>1. more[k] = s /\ longer[k] = mid /\ longer[k + 1] = to
      BY <1>1, <1>2, <1>3, <1>4, <2>1 DEF n
    <3> QED BY <3>1
  <2>2. CASE k # n + 1
    <3>1. k \in 1..n /\ k \in 1..(n + 1) /\ k + 1 \in 1..(n + 1)
      BY <1>2, <2>2
    <3>2. more[k] = path[k] /\ longer[k] = trail[k] /\ longer[k + 1] = trail[k + 1]
      BY <1>3, <1>4, <3>1
    <3> QED BY <1>1, <3>1, <3>2 DEF n
  <2> QED BY <2>1, <2>2
<1>6. /\ Len(longer) = Len(more) + 1 /\ longer[1] = from /\ longer[Len(more) + 1] = to
      /\ \A k \in 1..Len(more) : Follows(more[k], longer[k], longer[k + 1])
  BY <1>1, <1>2, <1>3, <1>4, <1>5
<1>7. Leads(more, from, to)
  BY <1>3, <1>6 DEF Leads
<1> QED BY <1>7 DEF more

\* Behind the first, the rest lead on from the next place.
LEMMA LeadsBehind ==
  ASSUME NEW path \in Seq(Step), path # <<>>, NEW from, NEW to, Leads(path, from, to)
  PROVE  \E mid \in Place : Follows(Head(path), from, mid) /\ Leads(Tail(path), mid, to)
<1>1. PICK trail \in Seq(Place) :
        /\ Len(trail) = Len(path) + 1 /\ trail[1] = from /\ trail[Len(path) + 1] = to
        /\ \A k \in 1..Len(path) : Follows(path[k], trail[k], trail[k + 1])
  BY DEF Leads
<1> DEFINE n == Len(path)
           rest == Tail(path)
           behind == Tail(trail)
<1>2. n \in Nat /\ n > 0 /\ Len(trail) = n + 1
  BY <1>1
<1>3. behind \in Seq(Place) /\ Len(behind) = n /\ \A k \in 1..n : behind[k] = trail[k + 1]
  BY <1>1, <1>2
<1>4. Len(rest) = n - 1 /\ (\A k \in 1..(n - 1) : rest[k] = path[k + 1]) /\ Head(path) = path[1]
  BY <1>2
<1> HIDE DEF n, rest, behind
<1>5. Follows(Head(path), from, trail[2]) /\ trail[2] \in Place
  <2>1. 1 \in 1..Len(path) /\ 2 \in 1..Len(trail)
    BY <1>2 DEF n
  <2> QED BY <1>1, <1>4, <2>1
<1>6. ASSUME NEW k \in 1..(n - 1) PROVE Follows(rest[k], behind[k], behind[k + 1])
  <2>1. k \in 1..n /\ k + 1 \in 1..n /\ k + 1 \in 1..Len(path)
    BY <1>2 DEF n
  <2>2. rest[k] = path[k + 1] /\ behind[k] = trail[k + 1] /\ behind[k + 1] = trail[k + 1 + 1]
    BY <1>3, <1>4, <2>1
  <2> QED BY <1>1, <2>1, <2>2
<1>7. behind[1] = trail[2] /\ behind[n] = to
  BY <1>1, <1>2, <1>3 DEF n
<1>8. Leads(rest, trail[2], to)
  <2>1. /\ Len(behind) = Len(rest) + 1 /\ behind[1] = trail[2] /\ behind[Len(rest) + 1] = to
        /\ \A k \in 1..Len(rest) : Follows(rest[k], behind[k], behind[k + 1])
    BY <1>2, <1>3, <1>4, <1>6, <1>7
  <2> QED BY <1>3, <2>1 DEF Leads
<1> QED BY <1>5, <1>8 DEF rest

-----------------------------------------------------------------------------
\* The optimal parser: entry and the start of a path.

\* 'start, behind the first byte of a source that has a dictionary.
LEMMA EnterOptimalStep ==
  ASSUME ParserInv, Optimal, NEW ip \in {seg.lo, seg.lo + 1}, EnterOptimal(ip)
  PROVE  ParserInv'
<1>1. pc = "enter" /\ BaseInv /\ EnterInv
  BY DEF EnterOptimal, ParserInv, BaseInv, BlockPhases, SegmentPhases
<1>2. ParseInv /\ anchor = seg.lo /\ saved.inner = NothingAside /\ seg.lo \in Int
  BY <1>1 DEF EnterInv, ParseInv, SegmentInv
<1>3. CASE Leave(reps)
  BY <1>1, <1>2, <1>3, LeaveAsIs
<1>4. CASE Search([ip |-> ip], "optimal")
  <2>1. OptimalPlaced([ip |-> ip], "optimal")
    BY <1>2 DEF OptimalPlaced
  <2> QED BY <1>1, <1>2, <1>4, <2>1, OptimalMoves DEF OptimalPhases
<1> QED BY <1>3, <1>4 DEF EnterOptimal

\* A single match is emitted behind the literals from the anchor.
LEMMA OneMatch ==
  ASSUME ParserInv, pc \in OptimalPhases, NEW ip \in Int, anchor <= ip, NEW value \in Nat, NEW n \in Int,
         Named(reps, ip = anchor, value, ip, n),
         Emit(<<[literals |-> ip - anchor, value |-> value, length |-> n]>>, ip)
  PROVE  ParserInv'
<1>1. /\ BaseInv /\ ParseInv /\ Optimal /\ saved.inner = NothingAside /\ anchor \in Int
      /\ reps \in Triple
  BY OptimalInHand
<1> DEFINE s == [literals |-> ip - anchor, value |-> value, length |-> n]
           to == [pos |-> ip + n, reps |-> resolve_values(reps, ip = anchor, value).reps]
<1>2. n > 0
  BY DEF Named, Sound
<1>3. s \in Step /\ <<s>> \in Seq(Step) /\ <<s>> # <<>> /\ <<s>> = Append(<<>>, s)
  BY <1>1, <1>2 DEF Step
<1>4. to \in Place /\ Here \in Place
  <2>1. (ip = anchor) \in BOOLEAN
    OBVIOUS
  <2>2. resolve_values(reps, ip = anchor, value).reps \in Triple
    BY <1>1, <2>1, ResolveTypes, Zenon
  <2>3. ip + n \in Int
    OBVIOUS
  <2> QED BY <1>1, <2>2, <2>3 DEF Place, Here
<1>5. Follows(s, Here, to)
  <2>1. (s.literals = 0) = (ip = anchor) /\ anchor + (ip - anchor) = ip
    BY <1>1
  <2>2. s.literals = ip - anchor /\ s.value = value /\ s.length = n /\ Here.pos = anchor
        /\ Here.reps = reps
    BY DEF Here
  <2>3. Named(Here.reps, s.literals = 0, s.value, Here.pos + s.literals, s.length)
    BY <2>1, <2>2
  <2>4. to.reps = resolve_values(Here.reps, s.literals = 0, s.value).reps
    BY <2>1, <2>2
  <2>5. to.pos = Here.pos + s.literals + s.length
    BY <2>1, <2>2
  <2> QED BY <2>3, <2>4, <2>5 DEF Follows
<1> HIDE DEF s, to
<1>6. Leads(<<s>>, Here, to)
  <2>1. Leads(<<>>, Here, Here) /\ <<>> \in Seq(Step)
    BY <1>4, LeadsNone
  <2>2. Leads(Append(<<>>, s), Here, to)
    BY <1>3, <1>4, <1>5, <2>1, LeadsOn
  <2> QED BY <1>3, <2>2
<1> DEFINE c == [ip |-> ip, path |-> <<s>>]
<1>7. OptimalPlaced(c, "emit")
  BY <1>1, <1>3, <1>4, <1>6 DEF OptimalPlaced
<1>8. Search(c, "emit")
  BY DEF Emit, s
<1> HIDE DEF c
<1> QED BY <1>1, <1>7, <1>8, OptimalMoves DEF OptimalPhases

\* The nodes a path starts with: the first is settled, and the candidates lead from
\* it to the others.
LEMMA InitNodesHold ==
  ASSUME ParserInv, pc \in OptimalPhases, cur.ip \in Int, anchor <= cur.ip, cur.ip < seg.hi,
         NEW list, Offered(list, cur.ip, reps, cur.ip = anchor), list # <<>>
  PROVE  PathNodes(cur.ip, InitNodes(list), 1, Lower(Longest(list), horizon))
<1> DEFINE ip == cur.ip
           nodes == InitNodes(list)
           last_pos == Lower(Longest(list), horizon)
<1>1. /\ FrameInv /\ anchor \in Int /\ seg.hi \in Int /\ reps \in Triple
      /\ OPT_NUM \in Nat /\ OPT_NUM > 0 /\ MIN_MATCH \in Nat /\ MIN_MATCH > 0
  BY OptimalInHand DEF BaseInv
<1>2. horizon = Reach(ip) /\ horizon \in Int /\ horizon > 0 /\ horizon <= OPT_NUM
  BY <1>1 DEF horizon, Reach, Lower
<1>3. Longest(list) \in Int /\ Longest(list) >= MIN_MATCH
  BY <1>1, LongestIs
<1>4. /\ last_pos \in Int /\ 1 <= last_pos /\ last_pos <= horizon /\ last_pos <= Longest(list)
      /\ last_pos <= OPT_NUM
  BY <1>1, <1>2, <1>3 DEF Lower
<1> DEFINE first == [reached |-> TRUE, off |-> 0, mlen |-> 0, litlen |-> ip - anchor, reps |-> reps]
           Value(p) == list[For(list, p)].value
<1>5. \A p \in MIN_MATCH..last_pos :
        Value(p) \in Nat /\ Named(reps, ip = anchor, Value(p), ip, p)
  BY <1>1, <1>3, <1>4, ForNamed
<1> HIDE DEF Value
<1>6. nodes = [p \in 0..OPT_NUM |->
                 IF p = 0 THEN first
                 ELSE IF p \in MIN_MATCH..last_pos THEN MatchEnd(Value(p), p) ELSE Unreached]
  BY DEF InitNodes, Value
<1> HIDE DEF nodes, last_pos
<1>7. first \in Node
  BY <1>1 DEF Node
<1>8. Unreached \in Node /\ ~Unreached.reached
  BY <1>1 DEF Unreached, Node, Triple
<1>9. \A p \in MIN_MATCH..last_pos : MatchEnd(Value(p), p) \in Node
  BY <1>1, <1>4, <1>5 DEF MatchEnd, Node, Triple
<1>10. nodes \in [0..OPT_NUM -> Node]
  BY <1>6, <1>7, <1>8, <1>9
<1>11. nodes[0] = first
  BY <1>1, <1>6
<1>12. IsSettled(ip, nodes, 0)
  BY <1>11 DEF IsSettled
<1>13. ASSUME NEW q \in 1..last_pos PROVE IsOpen(ip, nodes, q, 1)
  <2>1. CASE q \in MIN_MATCH..last_pos
    <3>1. nodes[q] = MatchEnd(Value(q), q)
      BY <1>1, <1>4, <1>6, <2>1
    <3>2. /\ nodes[q].mlen = q /\ nodes[q].litlen = 0 /\ nodes[q].off = Value(q)
      BY <3>1 DEF MatchEnd
    <3>3. Start(nodes[q], q) = 0
      BY <3>2 DEF Start
    <3>4. Named(nodes[0].reps, nodes[0].litlen = 0, nodes[q].off, ip + 0, nodes[q].mlen)
      <4>1. nodes[0].reps = reps /\ (nodes[0].litlen = 0) = (ip = anchor) /\ ip + 0 = ip
        BY <1>1, <1>11
      <4> QED BY <1>5, <2>1, <3>2, <4>1
    <3>5. IsMatch(ip, nodes, q, 1)
      BY <3>2, <3>3, <3>4 DEF IsMatch
    <3> QED BY <3>2, <3>5 DEF IsOpen
  <2>2. CASE q \notin MIN_MATCH..last_pos
    <3>1. nodes[q] = Unreached
      BY <1>1, <1>4, <1>6, <2>2
    <3> QED BY <1>8, <3>1 DEF IsOpen
  <2> QED BY <2>1, <2>2
<1>14. FirstNode(ip, nodes)
  BY <1>11 DEF FirstNode
<1>15. PathNodes(ip, nodes, 1, last_pos)
  BY <1>2, <1>4, <1>10, <1>12, <1>13, <1>14 DEF PathNodes
<1> QED BY <1>15 DEF nodes, last_pos

\* The candidates at ip.
LEMMA StartPathStep ==
  ASSUME ParserInv, StartPath
  PROVE  ParserInv'
<1>1. pc = "optimal" /\ pc \in OptimalPhases
  BY DEF StartPath, OptimalPhases
<1>2. /\ BaseInv /\ ParseInv /\ OptimalCursors /\ Optimal /\ saved.inner = NothingAside
      /\ anchor \in Int /\ seg.hi \in Int /\ P \in Nat /\ P <= anchor /\ reps \in Triple
      /\ search_limit \in Int /\ (search_limit <= seg.hi \/ search_limit = P)
  BY <1>1, OptimalInHand
<1>3. cur.ip \in Int /\ anchor <= cur.ip
  BY <1>1, <1>2 DEF OptimalCursors, OptimalPlaced
<1>4. CASE cur.ip >= search_limit
  <2>1. Leave(reps)
    BY <1>4 DEF StartPath
  <2> QED BY <1>2, <2>1, LeaveAsIs
<1>5. CASE ~(cur.ip >= search_limit)
  <2>1. cur.ip < seg.hi
    BY <1>2, <1>3, <1>5
  <2>2. PICK list \in Collected(cur.ip, reps, cur.ip = anchor) :
          IF list = <<>> THEN Search([ip |-> cur.ip + 1], "optimal")
          ELSE IF Longest(list) > SUFFICIENT
          THEN Emit(<<[literals |-> cur.ip - anchor, value |-> list[Len(list)].value,
                       length |-> Longest(list)]>>, cur.ip)
          ELSE Search([ip |-> cur.ip, nodes |-> InitNodes(list), at |-> 1,
                       last_pos |-> Lower(Longest(list), horizon)], "path")
    BY <1>5 DEF StartPath
  <2>3. Offered(list, cur.ip, reps, cur.ip = anchor)
    <3>1. (cur.ip = anchor) \in BOOLEAN
      OBVIOUS
    <3>2. cur.ip <= seg.hi
      BY <1>2, <1>3, <2>1
    <3> QED BY <1>2, <1>3, <3>1, <3>2, CollectedOffered, Zenon
  <2>4. CASE list = <<>>
    <3>1. OptimalPlaced([ip |-> cur.ip + 1], "optimal")
      BY <1>2, <1>3 DEF OptimalPlaced
    <3>2. Search([ip |-> cur.ip + 1], "optimal")
      BY <2>2, <2>4
    <3> QED BY <1>2, <3>1, <3>2, OptimalMoves DEF OptimalPhases
  <2>5. CASE list # <<>> /\ Longest(list) > SUFFICIENT
    <3>1. /\ Longest(list) \in Int /\ list[Len(list)].value \in Nat
          /\ Named(reps, cur.ip = anchor, list[Len(list)].value, cur.ip, Longest(list))
      <4>1. /\ Longest(list) \in Int /\ list[Len(list)] \in Listed
            /\ Named(reps, cur.ip = anchor, list[Len(list)].value, cur.ip, Longest(list))
        BY <1>2, <2>3, <2>5, LongestIs, Zenon DEF BaseInv
      <4> QED BY <4>1 DEF Listed
    <3>2. Emit(<<[literals |-> cur.ip - anchor, value |-> list[Len(list)].value,
                  length |-> Longest(list)]>>, cur.ip)
      BY <2>2, <2>5
    <3> QED BY <1>1, <1>3, <3>1, <3>2, OneMatch, Zenon
  <2>6. CASE list # <<>> /\ ~(Longest(list) > SUFFICIENT)
    <3> DEFINE c == [ip |-> cur.ip, nodes |-> InitNodes(list), at |-> 1,
                     last_pos |-> Lower(Longest(list), horizon)]
    <3>1. Search(c, "path")
      BY <2>2, <2>6
    <3>2. PathNodes(cur.ip, InitNodes(list), 1, Lower(Longest(list), horizon))
      BY <1>1, <1>3, <2>1, <2>3, <2>6, InitNodesHold, Zenon
    <3>3. OptimalPlaced(c, "path")
      <4>1. InitNodes(list) \in [0..OPT_NUM -> Node] /\ Lower(Longest(list), horizon) \in Int
            /\ 1 <= Lower(Longest(list), horizon)
        BY <3>2 DEF PathNodes
      <4> QED BY <1>2, <1>3, <2>1, <3>2, <4>1 DEF OptimalPlaced
    <3> HIDE DEF c
    <3> QED BY <1>2, <3>1, <3>3, OptimalMoves DEF OptimalPhases
  <2> QED BY <2>4, <2>5, <2>6
<1> QED BY <1>4, <1>5

-----------------------------------------------------------------------------
\* The optimal parser: the path.

\* A match is one from the node it starts at, whatever becomes of the nodes behind
\* that, and also when its own node is moved up by a literal.
LEMMA MatchKept ==
  ASSUME NEW ip, NEW nodes, NEW more, NEW q \in Int, NEW r \in Int, NEW limit \in Int, NEW further \in Int,
         IsMatch(ip, nodes, q, limit), limit <= further,
         \A p \in 0..(limit - 1) : more[p] = nodes[p],
         more[r].mlen = nodes[q].mlen, more[r].off = nodes[q].off, more[r].litlen \in {0, 1},
         Start(more[r], r) = Start(nodes[q], q)
  PROVE  IsMatch(ip, more, r, further) /\ RepsBehind(more, r) = RepsBehind(nodes, q)
<1> DEFINE at == Start(nodes[q], q)
<1>1. /\ nodes[q].mlen > 0 /\ at \in 0..(limit - 1)
      /\ Named(nodes[at].reps, nodes[at].litlen = 0, nodes[q].off, ip + at, nodes[q].mlen)
  BY DEF IsMatch
<1>2. more[at] = nodes[at] /\ at \in 0..(further - 1)
  BY <1>1
<1>3. Start(more[r], r) = at
  OBVIOUS
<1> HIDE DEF at
<1>4. IsMatch(ip, more, r, further)
  BY <1>1, <1>2, <1>3 DEF IsMatch
<1>5. RepsBehind(more, r) = RepsBehind(nodes, q)
  BY <1>2, <1>3 DEF RepsBehind, at
<1> QED BY <1>4, <1>5

\* ... so also where its own node only gets its offsets.
LEMMA MatchStays ==
  ASSUME NEW ip, NEW nodes, NEW more, NEW q \in Int, IsMatch(ip, nodes, q, q),
         \A p \in 0..(q - 1) : more[p] = nodes[p],
         more[q].mlen = nodes[q].mlen /\ more[q].off = nodes[q].off /\ more[q].litlen \in {0, 1}
           /\ Start(more[q], q) = Start(nodes[q], q)
  PROVE  IsMatch(ip, more, q, q) /\ RepsBehind(more, q) = RepsBehind(nodes, q)
BY MatchKept

\* A node whose own record and those it looks back to are kept stays settled, or open.
LEMMA NodesKept ==
  ASSUME NEW ip, NEW nodes, NEW more, NEW q \in Nat, NEW limit \in Int,
         \A p \in 0..(limit - 1) : more[p] = nodes[p], more[q] = nodes[q]
  PROVE  /\ IsSettled(ip, nodes, q) /\ q <= limit => IsSettled(ip, more, q)
         /\ \A further \in Int : limit <= further /\ IsOpen(ip, nodes, q, limit) => IsOpen(ip, more, q, further)
<1>1. ASSUME IsSettled(ip, nodes, q), q <= limit PROVE IsSettled(ip, more, q)
  <2>1. q > 0 => more[q - 1] = nodes[q - 1]
    BY <1>1
  <2>2. IsMatch(ip, nodes, q, q) => IsMatch(ip, more, q, q) /\ RepsBehind(more, q) = RepsBehind(nodes, q)
    <3>1. IsMatch(ip, nodes, q, q) => nodes[q].litlen \in {0, 1}
      BY DEF IsMatch
    <3>2. \A p \in 0..(q - 1) : more[p] = nodes[p]
      BY <1>1
    <3>3. more[q].mlen = nodes[q].mlen /\ more[q].off = nodes[q].off /\ more[q].litlen = nodes[q].litlen
          /\ Start(more[q], q) = Start(nodes[q], q) /\ q \in Int /\ q <= q
      OBVIOUS
    <3>4. IsMatch(ip, nodes, q, q) => more[q].litlen \in {0, 1}
      BY <3>1, <3>3
    <3> QED BY <3>2, <3>3, <3>4, MatchKept
  <2> QED BY <1>1, <2>1, <2>2 DEF IsSettled
<1>2. ASSUME NEW further \in Int, limit <= further, IsOpen(ip, nodes, q, limit)
      PROVE  IsOpen(ip, more, q, further)
  <2>1. IsMatch(ip, nodes, q, limit) => nodes[q].litlen \in {0, 1}
    BY DEF IsMatch
  <2>2. IsMatch(ip, nodes, q, limit) =>
          IsMatch(ip, more, q, further) /\ RepsBehind(more, q) = RepsBehind(nodes, q)
    <3>1. more[q].mlen = nodes[q].mlen /\ more[q].off = nodes[q].off /\ more[q].litlen = nodes[q].litlen
          /\ Start(more[q], q) = Start(nodes[q], q) /\ q \in Int
      OBVIOUS
    <3>2. IsMatch(ip, nodes, q, limit) => more[q].litlen \in {0, 1}
      BY <2>1, <3>1
    <3> QED BY <1>2, <3>1, <3>2, MatchKept
  <2> QED BY <1>2, <2>2 DEF IsOpen
<1> QED BY <1>1, <1>2

\* What a path step has in hand.
LEMMA PathInHand ==
  ASSUME ParserInv, pc = "path"
  PROVE  /\ pc \in OptimalPhases /\ cur \in [ip : Int, nodes : [0..OPT_NUM -> Node], at : Int, last_pos : Int]
         /\ anchor <= cur.ip /\ cur.ip < seg.hi
         /\ PathNodes(cur.ip, cur.nodes, cur.at, cur.last_pos)
         /\ 1 <= cur.at /\ cur.at <= cur.last_pos /\ cur.last_pos <= Reach(cur.ip)
         /\ horizon = Reach(cur.ip) /\ horizon \in Int /\ horizon <= OPT_NUM /\ horizon <= seg.hi - cur.ip
         /\ anchor \in Int /\ seg.hi \in Int /\ OPT_NUM \in Nat
<1>1. pc \in OptimalPhases
  BY DEF OptimalPhases
<1>2. /\ OptimalCursors /\ anchor \in Int /\ seg.hi \in Int /\ OPT_NUM \in Nat
  BY <1>1, OptimalInHand
<1>3. /\ cur \in [ip : Int, nodes : [0..OPT_NUM -> Node], at : Int, last_pos : Int]
      /\ anchor <= cur.ip /\ cur.ip < seg.hi /\ cur.at <= cur.last_pos
      /\ PathNodes(cur.ip, cur.nodes, cur.at, cur.last_pos)
  BY <1>2 DEF OptimalCursors, OptimalPlaced
<1>4. cur.ip \in Int /\ cur.at \in Int /\ cur.last_pos \in Int
  BY <1>3
<1>5. /\ horizon = Reach(cur.ip) /\ horizon \in Int /\ horizon <= OPT_NUM /\ horizon <= seg.hi - cur.ip
  BY <1>2, <1>4 DEF horizon, Reach, Lower
<1>6. 1 <= cur.at /\ cur.last_pos <= Reach(cur.ip)
  BY <1>3, <1>4, <1>5 DEF PathNodes
<1> QED BY <1>1, <1>2, <1>3, <1>5, <1>6

\* The offsets behind a match, from the node it starts at.
LEMMA RepsBehindIs ==
  ASSUME OPT_NUM \in Nat, NEW ip, NEW nodes \in [0..OPT_NUM -> Node], NEW q \in 0..OPT_NUM,
         NEW limit \in Int, limit <= OPT_NUM + 1, IsMatch(ip, nodes, q, limit)
  PROVE  /\ RepsBehind(nodes, q) \in Triple
         /\ nodes[q].litlen = 0 => EndReps(nodes, nodes[q], q) = RepsBehind(nodes, q)
<1> DEFINE at == Start(nodes[q], q)
<1>1. at \in 0..(limit - 1) /\ nodes[q] \in Node
  BY DEF IsMatch
<1>2. at \in 0..OPT_NUM
  BY <1>1
<1>3. nodes[at] \in Node /\ nodes[at].reps \in Triple /\ nodes[q].off \in Nat
      /\ nodes[q].mlen \in Nat /\ nodes[q].litlen \in Nat
  BY <1>1, <1>2 DEF Node
<1>4. nodes[q].litlen = 0 => at = q - nodes[q].mlen
  BY <1>3 DEF Start
<1>5. (nodes[at].litlen = 0) \in BOOLEAN
  OBVIOUS
<1>6. RepsBehind(nodes, q) = resolve_values(nodes[at].reps, nodes[at].litlen = 0, nodes[q].off).reps
  BY DEF RepsBehind
<1> HIDE DEF at
<1>7. RepsBehind(nodes, q) \in Triple
  BY <1>3, <1>5, <1>6, ResolveTypes, Zenon
<1>8. ASSUME nodes[q].litlen = 0 PROVE EndReps(nodes, nodes[q], q) = RepsBehind(nodes, q)
  BY <1>4, <1>6, <1>8 DEF EndReps
<1> QED BY <1>7, <1>8

\* The node at `at` is settled.
LEMMA SettledHolds ==
  ASSUME ParserInv, pc = "path",
         NEW by_literal \in IF cur.nodes[cur.at].reached THEN BOOLEAN ELSE {TRUE}
  PROVE  PathNodes(cur.ip, [cur.nodes EXCEPT ![cur.at] = Settled(cur.nodes, cur.at, by_literal)],
                   cur.at + 1, cur.last_pos)
<1>1. PICK ip \in Int, nodes \in [0..OPT_NUM -> Node], at \in Int, last_pos \in Int :
        /\ ip = cur.ip /\ nodes = cur.nodes /\ at = cur.at /\ last_pos = cur.last_pos
        /\ PathNodes(ip, nodes, at, last_pos) /\ 1 <= at /\ at <= last_pos /\ last_pos <= OPT_NUM
  BY PathInHand
<1>2. OPT_NUM \in Nat
  BY PathInHand
<1> DEFINE node == Settled(nodes, at, by_literal)
           more == [nodes EXCEPT ![at] = node]
<1>3. at \in 0..OPT_NUM /\ at - 1 \in 0..OPT_NUM /\ nodes[at] \in Node /\ nodes[at - 1] \in Node
  BY <1>1, <1>2
<1>4. /\ \A q \in 0..(at - 1) : IsSettled(ip, nodes, q)
      /\ \A q \in at..last_pos : IsOpen(ip, nodes, q, at)
      /\ FirstNode(ip, nodes) /\ last_pos \in 1..Reach(ip)
  BY <1>1 DEF PathNodes
<1>5. /\ more[at] = node /\ DOMAIN more = 0..OPT_NUM
      /\ \A q \in 0..OPT_NUM : q # at => more[q] = nodes[q]
  BY <1>3
<1>6. node \in Node /\ IsSettled(ip, more, at)
  <2>1. CASE by_literal
    <3>1. node = [reached |-> TRUE, off |-> 0, mlen |-> 0, litlen |-> nodes[at - 1].litlen + 1,
                  reps |-> nodes[at - 1].reps]
      BY <2>1 DEF Settled, Literal
    <3>2. more[at - 1] = nodes[at - 1] /\ at > 0
      BY <1>1, <1>3, <1>5
    <3>3. node \in Node
      BY <1>3, <3>1 DEF Node
    <3> HIDE DEF node, more
    <3> QED BY <1>5, <3>1, <3>2, <3>3 DEF IsSettled
  <2>2. CASE ~by_literal
    <3>1. nodes[at].reached /\ IsOpen(ip, nodes, at, at)
      <4>1. nodes[at].reached
        BY <1>1, <2>2
      <4> QED BY <1>1, <1>4, <4>1
    <3>2. IsMatch(ip, nodes, at, at) /\ nodes[at].litlen \in {0, 1}
          /\ (nodes[at].litlen = 1 => nodes[at].reps = RepsBehind(nodes, at))
      BY <3>1 DEF IsOpen, IsMatch
    <3>3. RepsBehind(nodes, at) \in Triple
          /\ (nodes[at].litlen = 0 => EndReps(nodes, nodes[at], at) = RepsBehind(nodes, at))
      BY <1>1, <1>2, <1>3, <3>2, RepsBehindIs
    <3>4. node = IF nodes[at].litlen = 0 THEN [nodes[at] EXCEPT !.reps = RepsBehind(nodes, at)]
                 ELSE nodes[at]
      BY <2>2, <3>3 DEF Settled
    <3> HIDE DEF node
    <3>5. node \in Node
      BY <1>3, <3>3, <3>4 DEF Node
    <3>6. /\ node.mlen = nodes[at].mlen /\ node.off = nodes[at].off /\ node.litlen = nodes[at].litlen
          /\ node.reached /\ node.reps = RepsBehind(nodes, at)
      BY <1>3, <3>1, <3>2, <3>4 DEF Node
    <3>7. Start(node, at) = Start(nodes[at], at)
      BY <3>6 DEF Start
    <3>8. \A p \in 0..(at - 1) : more[p] = nodes[p]
      BY <1>1, <1>2, <1>5
    <3> HIDE DEF more
    <3>9. IsMatch(ip, more, at, at) /\ RepsBehind(more, at) = RepsBehind(nodes, at)
      <4>1. more[at].mlen = nodes[at].mlen /\ more[at].off = nodes[at].off /\ more[at].litlen \in {0, 1}
            /\ Start(more[at], at) = Start(nodes[at], at) /\ at <= at
        BY <1>5, <3>2, <3>6, <3>7
      <4>2. PICK m, known : m = more /\ known = nodes
        OBVIOUS
      <4>3. IsMatch(ip, known, at, at) /\ \A p \in 0..(at - 1) : m[p] = known[p]
        BY <3>2, <3>8, <4>2
      <4>4. m[at].mlen = known[at].mlen /\ m[at].off = known[at].off /\ m[at].litlen \in {0, 1}
            /\ Start(m[at], at) = Start(known[at], at)
        BY <4>1, <4>2
      <4>5. IsMatch(ip, m, at, at) /\ RepsBehind(m, at) = RepsBehind(known, at)
        BY <4>3, <4>4, MatchStays
      <4> QED BY <4>2, <4>5
    <3> QED BY <1>1, <1>5, <3>5, <3>6, <3>9 DEF IsSettled
  <2> QED BY <2>1, <2>2
<1> HIDE DEF node
<1>7. more \in [0..OPT_NUM -> Node]
  BY <1>6
<1> HIDE DEF more
<1>8. \A p \in 0..(at - 1) : more[p] = nodes[p]
  BY <1>1, <1>2, <1>5
<1>9. ASSUME NEW q \in 0..(at + 1 - 1) PROVE IsSettled(ip, more, q)
  <2>1. CASE q = at
    BY <1>6, <2>1
  <2>2. CASE q # at
    <3>1. q \in 0..(at - 1) /\ q \in Nat /\ q <= at /\ more[q] = nodes[q]
      BY <1>1, <1>8, <2>2
    <3> QED BY <1>4, <1>8, <3>1, NodesKept
  <2> QED BY <2>1, <2>2
<1>10. ASSUME NEW q \in (at + 1)..last_pos PROVE IsOpen(ip, more, q, at + 1)
  <2>1. q \in at..last_pos /\ q \in Nat /\ q \in 0..OPT_NUM /\ q # at
    BY <1>1, <1>2
  <2>2. more[q] = nodes[q] /\ at <= at + 1 /\ at + 1 \in Int
    BY <1>5, <2>1
  <2> QED BY <1>4, <1>8, <2>1, <2>2, NodesKept
<1>11. FirstNode(ip, more)
  <2>1. more[0] = nodes[0]
    BY <1>1, <1>8
  <2> QED BY <1>4, <2>1 DEF FirstNode
<1>12. PathNodes(ip, more, at + 1, last_pos)
  <2>1. at + 1 \in 1..(last_pos + 1)
    BY <1>1
  <2> QED BY <1>4, <1>7, <1>9, <1>10, <1>11, <2>1 DEF PathNodes
<1> QED BY <1>1, <1>12 DEF more, node

\* The node at `at`, reached by a literal.
LEMMA LiteralHolds ==
  ASSUME ParserInv, pc = "path"
  PROVE  PathNodes(cur.ip, [cur.nodes EXCEPT ![cur.at] = Literal(cur.nodes, cur.at)],
                   cur.at + 1, cur.last_pos)
<1>1. PICK by_literal \in BOOLEAN : by_literal
  OBVIOUS
<1>2. Settled(cur.nodes, cur.at, by_literal) = Literal(cur.nodes, cur.at)
  BY <1>1 DEF Settled
<1>3. by_literal \in IF cur.nodes[cur.at].reached THEN BOOLEAN ELSE {TRUE}
  BY <1>1
<1>4. PathNodes(cur.ip, [cur.nodes EXCEPT ![cur.at] = Settled(cur.nodes, cur.at, by_literal)],
                cur.at + 1, cur.last_pos)
  BY <1>3, SettledHolds, Zenon
<1> QED BY <1>2, <1>4

\* btultra: the match a literal has replaced is open again, one literal further on.
LEMMA KeptHolds ==
  ASSUME ParserInv, pc = "path", cur.nodes[cur.at].reached, cur.nodes[cur.at].litlen = 0,
         cur.at + 1 <= horizon,
         NEW settled, settled = [cur.nodes EXCEPT ![cur.at] = Literal(cur.nodes, cur.at)],
         NEW kept, kept = [cur.nodes[cur.at] EXCEPT !.litlen = 1,
                             !.reps = EndReps(settled, cur.nodes[cur.at], cur.at)]
  PROVE  PathNodes(cur.ip, [settled EXCEPT ![cur.at + 1] = kept],
                   cur.at + 1, Higher(cur.last_pos, cur.at + 1))
<1>1. PICK ip \in Int, nodes \in [0..OPT_NUM -> Node], at \in Int, last_pos \in Int :
        /\ ip = cur.ip /\ nodes = cur.nodes /\ at = cur.at /\ last_pos = cur.last_pos
        /\ PathNodes(ip, nodes, at, last_pos) /\ 1 <= at /\ at <= last_pos /\ last_pos <= OPT_NUM
  BY PathInHand
<1>2. /\ OPT_NUM \in Nat /\ at + 1 <= Reach(ip) /\ Reach(ip) \in Int /\ Reach(ip) <= OPT_NUM
  BY <1>1, PathInHand
<1>0. PICK next \in Nat : next = at + 1
  BY <1>1
<1> DEFINE was == nodes[at]
           further == Higher(last_pos, next)
           more == [settled EXCEPT ![next] = kept]
<1>3. at \in 0..OPT_NUM /\ next \in 0..OPT_NUM /\ was \in Node
  BY <1>0, <1>1, <1>2
<1>4. settled = [nodes EXCEPT ![at] = Literal(nodes, at)]
      /\ kept = [was EXCEPT !.litlen = 1, !.reps = EndReps(settled, was, at)]
      /\ was.reached /\ was.litlen = 0
  BY <1>1
<1>5. PathNodes(ip, settled, next, last_pos)
  <2>1. PathNodes(cur.ip, [cur.nodes EXCEPT ![cur.at] = Literal(cur.nodes, cur.at)],
                  cur.at + 1, cur.last_pos)
    BY LiteralHolds
  <2> QED BY <1>0, <1>1, <2>1
<1>6. /\ settled \in [0..OPT_NUM -> Node] /\ FirstNode(ip, settled) /\ last_pos \in 1..Reach(ip)
      /\ \A q \in 0..(next - 1) : IsSettled(ip, settled, q)
      /\ \A q \in (next)..last_pos : IsOpen(ip, settled, q, next)
  BY <1>1, <1>5 DEF PathNodes
<1>7. \A p \in 0..(at - 1) : settled[p] = nodes[p]
  <2> SUFFICES ASSUME NEW p \in 0..(at - 1) PROVE settled[p] = nodes[p]
    OBVIOUS
  <2>1. p \in 0..OPT_NUM /\ p # at
    BY <1>1, <1>2
  <2> QED BY <1>4, <2>1
<1>8. /\ IsMatch(ip, nodes, at, at) /\ RepsBehind(nodes, at) \in Triple
      /\ EndReps(nodes, was, at) = RepsBehind(nodes, at)
  <2>1. IsOpen(ip, nodes, at, at)
    BY <1>1 DEF PathNodes
  <2>2. IsMatch(ip, nodes, at, at)
    BY <1>4, <2>1 DEF IsOpen
  <2> QED BY <1>1, <1>2, <1>3, <1>4, <2>2, RepsBehindIs
<1>9. EndReps(settled, was, at) = RepsBehind(nodes, at)
  <2>1. at - was.mlen \in 0..(at - 1)
    <3>1. Start(was, at) \in 0..(at - 1)
      BY <1>8 DEF IsMatch
    <3>2. Start(was, at) = at - was.mlen
      BY <1>3, <1>4 DEF Start, Node
    <3> QED BY <3>1, <3>2
  <2>2. settled[at - was.mlen] = nodes[at - was.mlen]
    BY <1>7, <2>1
  <2>3. EndReps(settled, was, at) = EndReps(nodes, was, at)
    BY <2>2 DEF EndReps
  <2> QED BY <1>8, <2>3
<1>10. /\ kept \in Node /\ kept.mlen = was.mlen /\ kept.off = was.off /\ kept.litlen = 1
       /\ kept.reps = RepsBehind(nodes, at) /\ Start(kept, next) = Start(was, at)
  <2>1. kept = [was EXCEPT !.litlen = 1, !.reps = RepsBehind(nodes, at)]
    BY <1>4, <1>9
  <2>2. /\ kept \in Node /\ kept.mlen = was.mlen /\ kept.off = was.off /\ kept.litlen = 1
        /\ kept.reps = RepsBehind(nodes, at)
    <3>1. PICK w \in Node, r \in Triple : w = was /\ r = RepsBehind(nodes, at)
      BY <1>3, <1>8
    <3>2. /\ w = [reached |-> w.reached, off |-> w.off, mlen |-> w.mlen, litlen |-> w.litlen,
                  reps |-> w.reps]
          /\ w.reached \in BOOLEAN /\ w.off \in Nat /\ w.mlen \in Nat
      BY DEF Node
    <3>3. kept = [reached |-> w.reached, off |-> w.off, mlen |-> w.mlen, litlen |-> 1, reps |-> r]
      BY <2>1, <3>1, <3>2
    <3>4. kept.mlen = w.mlen /\ kept.off = w.off /\ kept.litlen = 1 /\ kept.reps = r
      <4>1. PICK k : k = [reached |-> w.reached, off |-> w.off, mlen |-> w.mlen, litlen |-> 1, reps |-> r]
        OBVIOUS
      <4>2. k.mlen = w.mlen /\ k.off = w.off /\ k.litlen = 1 /\ k.reps = r
        BY <4>1
      <4>3. kept = k
        BY <3>3, <4>1
      <4> QED BY <4>2, <4>3
    <3>5. kept \in Node
      <4>1. [reached |-> w.reached, off |-> w.off, mlen |-> w.mlen, litlen |-> 1, reps |-> r] \in Node
        BY <3>2 DEF Node
      <4> QED BY <3>3, <4>1
    <3> QED BY <3>1, <3>4, <3>5
  <2>3. Start(kept, next) = Start(was, at)
    <3>1. was.mlen \in Nat /\ was.litlen = 0
      BY <1>3, <1>4 DEF Node
    <3> HIDE DEF was
    <3> QED BY <1>0, <1>1, <2>2, <3>1 DEF Start
  <2> QED BY <2>2, <2>3
<1>11. /\ more \in [0..OPT_NUM -> Node] /\ more[next] = kept
       /\ \A q \in 0..OPT_NUM : q # next => more[q] = settled[q]
  BY <1>3, <1>6, <1>10
<1>12. \A p \in 0..(next - 1) : more[p] = settled[p]
  <2> SUFFICES ASSUME NEW p \in 0..(next - 1) PROVE more[p] = settled[p]
    OBVIOUS
  <2>1. p \in 0..OPT_NUM /\ p # next
    BY <1>2, <1>3
  <2> HIDE DEF more
  <2> QED BY <1>11, <2>1
<1>13. further \in Int /\ next <= further /\ further <= Reach(ip)
       /\ \A q \in (next + 1)..further : q \in (next)..last_pos
  BY <1>0, <1>1, <1>2, <1>6 DEF Higher
<1> HIDE DEF more, further
<1>14. IsMatch(ip, more, next, next) /\ RepsBehind(more, next) = RepsBehind(nodes, at)
  <2>1. PICK m, known : m = more /\ known = nodes
    OBVIOUS
  <2>2. /\ IsMatch(ip, known, at, at) /\ at <= next /\ next \in Int
        /\ \A p \in 0..(at - 1) : m[p] = known[p]
    <3>1. \A p \in 0..(at - 1) : p \in 0..(next - 1)
      BY <1>0, <1>1
    <3>2. \A p \in 0..(at - 1) : more[p] = nodes[p]
      BY <1>7, <1>12, <3>1
    <3> QED BY <1>0, <1>8, <2>1, <3>2
  <2>3. /\ m[next].mlen = known[at].mlen /\ m[next].off = known[at].off
        /\ m[next].litlen \in {0, 1} /\ Start(m[next], next) = Start(known[at], at)
    BY <1>10, <1>11, <2>1
  <2>4. IsMatch(ip, m, next, next) /\ RepsBehind(m, next) = RepsBehind(known, at)
    <3>1. PICK here \in Int : here = at
      OBVIOUS
    <3>2. /\ IsMatch(ip, known, here, here) /\ here <= next /\ next <= next /\ next \in Int
          /\ \A p \in 0..(here - 1) : m[p] = known[p]
          /\ m[next].mlen = known[here].mlen /\ m[next].off = known[here].off
          /\ m[next].litlen \in {0, 1} /\ Start(m[next], next) = Start(known[here], here)
      BY <2>2, <2>3, <3>1
    <3>3. IsMatch(ip, m, next, next) /\ RepsBehind(m, next) = RepsBehind(known, here)
      BY <3>2, MatchKept
    <3> QED BY <3>1, <3>3
  <2> QED BY <2>1, <2>4
<1>15. IsOpen(ip, more, next, next)
  BY <1>10, <1>11, <1>14 DEF IsOpen
<1>16. ASSUME NEW q \in (next)..further PROVE IsOpen(ip, more, q, next)
  <2>1. CASE q = next
    BY <1>15, <2>1
  <2>2. CASE q # next
    <3>1. q \in (next)..last_pos /\ q \in Nat /\ q \in 0..OPT_NUM
      BY <1>0, <1>1, <1>2, <1>13, <2>2
    <3>2. more[q] = settled[q] /\ next <= next /\ next \in Int
      BY <1>11, <2>2, <3>1
    <3>3. PICK m, known : m = more /\ known = settled
      OBVIOUS
    <3>4. /\ \A p \in 0..(next - 1) : m[p] = known[p]
          /\ m[q] = known[q] /\ IsOpen(ip, known, q, next)
      BY <1>6, <1>12, <3>1, <3>2, <3>3
    <3>5. IsOpen(ip, m, q, next)
      BY <3>1, <3>2, <3>4, NodesKept
    <3> QED BY <3>3, <3>5
  <2> QED BY <2>1, <2>2
<1>17. ASSUME NEW q \in 0..(next - 1) PROVE IsSettled(ip, more, q)
  <2>1. q \in Nat /\ q <= next /\ next \in Int /\ more[q] = settled[q]
    BY <1>12
  <2>2. PICK m, known : m = more /\ known = settled
    OBVIOUS
  <2>3. /\ \A p \in 0..(next - 1) : m[p] = known[p]
        /\ m[q] = known[q] /\ IsSettled(ip, known, q)
    BY <1>6, <1>12, <2>1, <2>2
  <2>4. IsSettled(ip, m, q)
    BY <2>1, <2>3, NodesKept
  <2> QED BY <2>2, <2>4
<1>18. FirstNode(ip, more)
  <2>1. more[0] = settled[0]
    BY <1>0, <1>1, <1>12
  <2> QED BY <1>6, <2>1 DEF FirstNode
<1>19. PathNodes(ip, more, next, further)
  <2>1. next \in 1..(further + 1) /\ further \in 1..Reach(ip)
    BY <1>0, <1>1, <1>2, <1>13
  <2> QED BY <1>11, <1>16, <1>17, <1>18, <2>1 DEF PathNodes
<1> QED BY <1>0, <1>1, <1>19 DEF more, further

\* The matches from a settled node open the nodes they end at.
LEMMA MatchesHold ==
  ASSUME OPT_NUM \in Nat, seg.hi \in Int, FrameInv, NEW ip \in Int, NEW nodes, NEW at \in Nat,
         NEW last_pos \in Int, Reach(ip) \in Int, Reach(ip) <= OPT_NUM,
         PathNodes(ip, nodes, at + 1, last_pos),
         NEW list, Offered(list, ip + at, nodes[at].reps, nodes[at].litlen = 0), list # <<>>,
         NEW cheaper, at + Longest(list) <= Reach(ip)
  PROVE  PathNodes(ip, WithMatches(nodes, at, last_pos, list, cheaper), at + 1,
                   Higher(at + Longest(list), last_pos))
<1> DEFINE more == WithMatches(nodes, at, last_pos, list, cheaper)
           reach == at + Longest(list)
           further == Higher(reach, last_pos)
           Value(n) == list[For(list, n)].value
<1>1. /\ nodes \in [0..OPT_NUM -> Node] /\ FirstNode(ip, nodes)
      /\ last_pos \in 1..Reach(ip) /\ at <= last_pos
      /\ \A q \in 0..(at + 1 - 1) : IsSettled(ip, nodes, q)
      /\ \A q \in (at + 1)..last_pos : IsOpen(ip, nodes, q, at + 1)
  BY DEF PathNodes
<1>2. /\ MIN_MATCH \in Nat /\ MIN_MATCH > 0 /\ Longest(list) \in Int /\ Longest(list) >= MIN_MATCH
  BY LongestIs, FrameTypes
<1>3. \A n \in MIN_MATCH..Longest(list) :
        Value(n) \in Nat /\ Named(nodes[at].reps, nodes[at].litlen = 0, Value(n), ip + at, n)
  <2>1. PICK offsets, ll_zero : offsets = nodes[at].reps /\ ll_zero = (nodes[at].litlen = 0)
    OBVIOUS
  <2>2. Offered(list, ip + at, offsets, ll_zero) /\ ip + at \in Int
    BY <2>1
  <2>3. ASSUME NEW n \in MIN_MATCH..Longest(list)
        PROVE  Value(n) \in Nat /\ Named(offsets, ll_zero, Value(n), ip + at, n)
    BY <1>2, <2>2, ForNamed
  <2> QED BY <2>1, <2>3
<1>4. further \in Int /\ reach <= further /\ last_pos <= further /\ further <= Reach(ip)
      /\ further \in {reach, last_pos}
  BY <1>1, <1>2 DEF Higher
<1> HIDE DEF Value, further
<1>5. /\ Unreached \in Node /\ ~Unreached.reached
      /\ \A n \in MIN_MATCH..Longest(list) : MatchEnd(Value(n), n) \in Node
  BY <1>2, <1>3 DEF Unreached, MatchEnd, Node, Triple
<1>6. more = [q \in 0..OPT_NUM |->
                IF q - at \in MIN_MATCH..Longest(list) /\ (q > last_pos \/ q \in cheaper)
                THEN MatchEnd(Value(q - at), q - at)
                ELSE IF q > last_pos THEN Unreached ELSE nodes[q]]
  BY DEF WithMatches, Value
<1> HIDE DEF more
<1>7. more \in [0..OPT_NUM -> Node]
  BY <1>1, <1>5, <1>6
<1>8. \A p \in 0..(at + 1 - 1) : more[p] = nodes[p]
  <2> SUFFICES ASSUME NEW p \in 0..(at + 1 - 1) PROVE more[p] = nodes[p]
    OBVIOUS
  <2>1. p \in 0..OPT_NUM /\ p - at \notin MIN_MATCH..Longest(list) /\ ~(p > last_pos)
    BY <1>1, <1>2
  <2> QED BY <1>6, <2>1
<1>9. ASSUME NEW q \in (at + 1)..further PROVE IsOpen(ip, more, q, at + 1)
  <2>0. q \in 0..OPT_NUM /\ q \in Nat
    BY <1>4
  <2>1. CASE q - at \in MIN_MATCH..Longest(list) /\ (q > last_pos \/ q \in cheaper)
    <3> DEFINE n == q - at
    <3>1. more[q] = MatchEnd(Value(n), n)
      BY <1>6, <2>0, <2>1
    <3>2. /\ more[q].mlen = n /\ more[q].litlen = 0 /\ more[q].off = Value(n) /\ n > 0
      BY <1>2, <2>1, <3>1 DEF MatchEnd
    <3>3. Start(more[q], q) = at
      BY <3>2 DEF Start
    <3>4. more[at] = nodes[at]
      BY <1>8
    <3>5. Named(more[at].reps, more[at].litlen = 0, more[q].off, ip + at, more[q].mlen)
      BY <1>3, <2>1, <3>2, <3>4
    <3>6. IsMatch(ip, more, q, at + 1)
      BY <3>2, <3>3, <3>5 DEF IsMatch
    <3> QED BY <3>2, <3>6 DEF IsOpen
  <2>2. CASE ~(q - at \in MIN_MATCH..Longest(list) /\ (q > last_pos \/ q \in cheaper)) /\ q > last_pos
    <3>1. more[q] = Unreached
      BY <1>6, <2>0, <2>2
    <3> QED BY <1>5, <3>1 DEF IsOpen
  <2>3. CASE ~(q - at \in MIN_MATCH..Longest(list) /\ (q > last_pos \/ q \in cheaper)) /\ ~(q > last_pos)
    <3>1. more[q] = nodes[q] /\ q \in (at + 1)..last_pos
      BY <1>1, <1>6, <2>0, <2>3
    <3>2. PICK m, known, next : m = more /\ known = nodes /\ next = at + 1 /\ next \in Int
      OBVIOUS
    <3>3. /\ \A p \in 0..(next - 1) : m[p] = known[p]
          /\ m[q] = known[q] /\ IsOpen(ip, known, q, next)
      BY <1>1, <1>8, <3>1, <3>2
    <3>4. next <= next
      BY <3>2
    <3>5. IsOpen(ip, m, q, next)
      BY <2>0, <3>2, <3>3, <3>4, NodesKept
    <3> QED BY <3>2, <3>5
  <2> QED BY <2>1, <2>2, <2>3
<1>10. ASSUME NEW q \in 0..(at + 1 - 1) PROVE IsSettled(ip, more, q)
  <2>1. PICK m, known, next : m = more /\ known = nodes /\ next = at + 1 /\ next \in Int
    OBVIOUS
  <2>2. /\ \A p \in 0..(next - 1) : m[p] = known[p]
        /\ m[q] = known[q] /\ IsSettled(ip, known, q) /\ q \in Nat /\ q <= next
    BY <1>1, <1>8, <2>1
  <2>3. IsSettled(ip, m, q)
    BY <2>1, <2>2, NodesKept
  <2> QED BY <2>1, <2>3
<1>11. FirstNode(ip, more)
  <2>1. more[0] = nodes[0]
    BY <1>8
  <2> QED BY <1>1, <2>1 DEF FirstNode
<1>12. PathNodes(ip, more, at + 1, further)
  <2>1. at + 1 \in 1..(further + 1) /\ further \in 1..Reach(ip)
    BY <1>1, <1>4
  <2> QED BY <1>7, <1>9, <1>10, <1>11, <2>1 DEF PathNodes
<1> QED BY <1>12 DEF more, further

-----------------------------------------------------------------------------
\* The optimal parser: walking back.

\* The match a node belongs to is there, and is the only one.
LEMMA MatchBeforeIs ==
  ASSUME NEW nodes, NEW p \in Nat
  PROVE  /\ MatchBefore(nodes, p) \in 0..p
         /\ MatchBefore(nodes, p) = 0 \/ nodes[MatchBefore(nodes, p)].mlen # 0
         /\ \A r \in (MatchBefore(nodes, p) + 1)..p : nodes[r].mlen = 0
<1> DEFINE S == {q \in 0..p : q = 0 \/ nodes[q].mlen # 0}
<1>1. S \in SUBSET (0..p) /\ S # {}
  <2>1. 0 \in S
    OBVIOUS
  <2> QED BY <2>1
<1>2. PICK q \in S : \A r \in S : r <= q
  <2> HIDE DEF S
  <2> QED BY <1>1, GreatestOf
<1>3. \A r \in (q + 1)..p : nodes[r].mlen = 0
  <2> SUFFICES ASSUME NEW r \in (q + 1)..p, nodes[r].mlen # 0 PROVE FALSE
    OBVIOUS
  <2>1. r \in S /\ ~(r <= q)
    OBVIOUS
  <2> QED BY <1>2, <2>1
<1>4. q \in 0..p /\ (q = 0 \/ nodes[q].mlen # 0)
  OBVIOUS
<1> HIDE DEF S
<1> QED BY <1>3, <1>4 DEF MatchBefore

\* The path to every node up to n, with the same record behind each match.
Taken(nodes, q) ==
  [literals |-> nodes[Start(nodes[q], q)].litlen, value |-> nodes[q].off, length |-> nodes[q].mlen]

Walked(path, nodes, n) ==
  path = [q \in 0..n |->
            IF nodes[q].mlen = 0 THEN <<>>
            ELSE Append(path[MatchBefore(nodes, Start(nodes[q], q))], Taken(nodes, q))]

\* Every match starts at a node before its own.
Backwards(nodes, n) == \A q \in 0..n : nodes[q].mlen # 0 => Start(nodes[q], q) \in 0..(q - 1)

\* So the recursion is well founded.
LEMMA WalkExists ==
  ASSUME NEW nodes, NEW n \in Nat, Backwards(nodes, n)
  PROVE  \E path : Walked(path, nodes, n)
<1> DEFINE Bad == {k \in 0..n : ~\E path : Walked(path, nodes, k)}
<1>1. SUFFICES ASSUME Bad # {} PROVE FALSE
  <2>1. n \in 0..n
    OBVIOUS
  <2> QED BY <2>1
<1>2. PICK k \in Bad : \A m \in Bad : k <= m
  <2>1. Bad \in SUBSET Nat
    OBVIOUS
  <2> HIDE DEF Bad
  <2> QED BY <1>1, <2>1, LeastOf
<1>3. k \in 0..n /\ ~\E path : Walked(path, nodes, k)
  OBVIOUS
<1>4. k # 0
  <2>1. SUFFICES ASSUME k = 0 PROVE FALSE
    OBVIOUS
  <2>2. nodes[0].mlen = 0
    BY DEF Backwards
  <2>3. Walked([q \in 0..0 |-> <<>>], nodes, 0)
    BY <2>2 DEF Walked
  <2> QED BY <1>3, <2>1, <2>3
<1>5. k - 1 \in 0..n /\ k - 1 \notin Bad
  <2>1. k - 1 \in 0..n /\ ~(k <= k - 1)
    BY <1>3, <1>4
  <2> HIDE DEF Bad
  <2> QED BY <1>2, <2>1
<1>6. PICK path : Walked(path, nodes, k - 1)
  BY <1>5
<1> HIDE DEF Bad
<1> DEFINE Body(f, q) == IF nodes[q].mlen = 0 THEN <<>>
                         ELSE Append(f[MatchBefore(nodes, Start(nodes[q], q))], Taken(nodes, q))
           more == [q \in 0..k |-> IF q < k THEN path[q] ELSE Body(path, q)]
<1>7. ASSUME NEW q \in 0..k PROVE more[q] = Body(path, q)
  <2>1. CASE q < k
    <3>1. q \in 0..(k - 1)
      BY <1>3, <2>1
    <3>2. path[q] = Body(path, q)
      BY <1>6, <3>1 DEF Walked
    <3> HIDE DEF Body
    <3> QED BY <2>1, <3>2
  <2>2. CASE ~(q < k)
    <3> HIDE DEF Body
    <3> QED BY <2>2
  <2> QED BY <2>1, <2>2
<1>8. ASSUME NEW q \in 0..k PROVE Body(more, q) = Body(path, q)
  <2>1. CASE nodes[q].mlen = 0
    BY <2>1
  <2>2. CASE nodes[q].mlen # 0
    <3> DEFINE from == MatchBefore(nodes, Start(nodes[q], q))
    <3>1. Start(nodes[q], q) \in 0..(q - 1)
      BY <1>3, <2>2 DEF Backwards
    <3>2. from \in 0..(q - 1)
      <4>1. PICK at \in Nat : at = Start(nodes[q], q) /\ at <= q - 1
        BY <3>1
      <4>2. MatchBefore(nodes, at) \in 0..at
        BY MatchBeforeIs
      <4> QED BY <4>1, <4>2
    <3>3. from \in 0..k /\ from < k
      BY <1>3, <3>2
    <3> HIDE DEF from
    <3>4. more[from] = path[from]
      BY <3>3
    <3>5. PICK m : m = more
      OBVIOUS
    <3>6. PICK taken : taken = Taken(nodes, q)
      OBVIOUS
    <3> HIDE DEF more
    <3>7. Body(m, q) = Append(m[from], taken) /\ Body(path, q) = Append(path[from], taken)
      BY <2>2, <3>6 DEF from
    <3> HIDE DEF Body
    <3> QED BY <3>4, <3>5, <3>7
  <2> QED BY <2>1, <2>2
<1>9. more = [q \in 0..k |-> Body(more, q)]
  <2>1. \A q \in 0..k : more[q] = Body(more, q)
    BY <1>7, <1>8
  <2>2. more = [q \in 0..k |-> more[q]]
    OBVIOUS
  <2> HIDE DEF more, Body
  <2> QED BY <2>1, <2>2
<1> HIDE DEF more
<1>10. Walked(more, nodes, k)
  BY <1>9 DEF Walked
<1> QED BY <1>3, <1>10

\* backtrace_optimal_path is such a walk.
LEMMA BacktraceIs ==
  ASSUME NEW nodes, NEW p \in Nat, Backwards(nodes, p)
  PROVE  \E path : Walked(path, nodes, p) /\ backtrace(nodes, p) = path[MatchBefore(nodes, p)]
<1> DEFINE path == CHOOSE path : Walked(path, nodes, p)
<1>1. Walked(path, nodes, p)
  BY WalkExists
<1>2. backtrace(nodes, p) = path[MatchBefore(nodes, p)]
  BY DEF backtrace, Walked, Taken
<1> QED BY <1>1, <1>2

\* There is one match before a node.
LEMMA MatchBeforeOnly ==
  ASSUME NEW nodes, NEW p \in Nat, NEW b \in 0..p, b = 0 \/ nodes[b].mlen # 0,
         \A r \in (b + 1)..p : nodes[r].mlen = 0
  PROVE  MatchBefore(nodes, p) = b
<1> PICK a : a = MatchBefore(nodes, p)
  OBVIOUS
<1>1. a \in 0..p /\ (a = 0 \/ nodes[a].mlen # 0) /\ \A r \in (a + 1)..p : nodes[r].mlen = 0
  BY MatchBeforeIs
<1>2. ~(a < b)
  <2>1. SUFFICES ASSUME a < b PROVE FALSE
    OBVIOUS
  <2>2. b \in (a + 1)..p /\ b # 0
    BY <1>1, <2>1
  <2> QED BY <1>1, <2>2
<1>3. ~(b < a)
  <2>1. SUFFICES ASSUME b < a PROVE FALSE
    OBVIOUS
  <2>2. a \in (b + 1)..p /\ a # 0
    BY <1>1, <2>1
  <2> QED BY <1>1, <2>2
<1> QED BY <1>1, <1>2, <1>3

\* Nodes whose offsets are all final, up to p.
AllSettled(ip, nodes, p) ==
  FirstNode(ip, nodes) /\ \A q \in 0..p : nodes[q] \in Node /\ IsSettled(ip, nodes, q)

\* A match at a settled node starts before it, and is what its record says.
LEMMA SettledMatch ==
  ASSUME NEW ip \in Int, NEW nodes, NEW p \in Nat, AllSettled(ip, nodes, p), NEW q \in 0..p,
         nodes[q].mlen # 0
  PROVE  /\ q > 0 /\ Start(nodes[q], q) \in 0..(q - 1) /\ IsMatch(ip, nodes, q, q)
         /\ nodes[q].reps = RepsBehind(nodes, q)
<1>1. IsSettled(ip, nodes, q)
  BY DEF AllSettled
<1>2. q > 0 /\ IsMatch(ip, nodes, q, q) /\ nodes[q].reps = RepsBehind(nodes, q)
  BY <1>1 DEF IsSettled
<1> QED BY <1>2 DEF IsMatch

\* Where a node stands: behind the match it belongs to, its literals not yet stored.
PlaceOf(ip, nodes, q) == [pos |-> ip + q - nodes[q].litlen, reps |-> nodes[q].reps]

\* Positions and offsets.
LEMMA PlaceOfTypes ==
  ASSUME NEW ip \in Int, NEW nodes, NEW q \in Int, nodes[q] \in Node
  PROVE  PlaceOf(ip, nodes, q) \in Place
BY DEF PlaceOf, Place, Node

\* A node and the match before it stand at the same place.
LEMMA PlaceBefore ==
  ASSUME NEW ip \in Int, NEW nodes, NEW p \in Nat, AllSettled(ip, nodes, p)
  PROVE  \A q \in 0..p : PlaceOf(ip, nodes, MatchBefore(nodes, q)) = PlaceOf(ip, nodes, q)
<1> DEFINE Same(q) == PlaceOf(ip, nodes, MatchBefore(nodes, q)) = PlaceOf(ip, nodes, q)
           Bad == {q \in 0..p : ~Same(q)}
<1>1. SUFFICES ASSUME Bad # {} PROVE FALSE
  BY DEF Same
<1>2. PICK q \in Bad : \A r \in Bad : q <= r
  <2>1. Bad \in SUBSET Nat
    OBVIOUS
  <2> HIDE DEF Bad
  <2> QED BY <1>1, <2>1, LeastOf
<1>3. q \in 0..p /\ ~Same(q)
  OBVIOUS
<1>4. q > 0 /\ nodes[q].mlen = 0
  <2>1. SUFFICES ASSUME q = 0 \/ nodes[q].mlen # 0 PROVE FALSE
    BY <1>3
  <2>2. q \in 0..q /\ \A r \in (q + 1)..q : nodes[r].mlen = 0
    BY <1>3
  <2>3. MatchBefore(nodes, q) = q
    BY <1>3, <2>1, <2>2, MatchBeforeOnly
  <2> QED BY <1>3, <2>3
<1>5. PICK b \in Int : b = q - 1
  BY <1>3
<1>6. b \in 0..p /\ Same(b)
  <2>1. b \in 0..p /\ ~(q <= b)
    BY <1>3, <1>4, <1>5
  <2> HIDE DEF Same
  <2> QED BY <1>2, <2>1
<1> HIDE DEF Bad
<1>7. MatchBefore(nodes, q) = MatchBefore(nodes, b)
  <2>1. PICK a : a = MatchBefore(nodes, b)
    OBVIOUS
  <2>2. a \in 0..b /\ (a = 0 \/ nodes[a].mlen # 0) /\ \A r \in (a + 1)..b : nodes[r].mlen = 0
    BY <1>6, <2>1, MatchBeforeIs
  <2>3. a \in 0..q /\ \A r \in (a + 1)..q : nodes[r].mlen = 0
    BY <1>3, <1>4, <1>5, <2>2
  <2> QED BY <1>3, <2>1, <2>2, <2>3, MatchBeforeOnly
<1>8. PlaceOf(ip, nodes, q) = PlaceOf(ip, nodes, b)
  <2>1. nodes[q] \in Node /\ nodes[b] \in Node /\ IsSettled(ip, nodes, q)
    BY <1>3, <1>6 DEF AllSettled
  <2>2. nodes[q].litlen = nodes[b].litlen + 1 /\ nodes[q].reps = nodes[b].reps
    BY <1>4, <1>5, <2>1 DEF IsSettled, IsMatch
  <2>3. nodes[b].litlen \in Nat
    BY <2>1 DEF Node
  <2>4. ip + q - nodes[q].litlen = ip + b - nodes[b].litlen
    BY <1>3, <1>5, <2>2, <2>3
  <2> QED BY <2>2, <2>4 DEF PlaceOf
<1> QED BY <1>3, <1>6, <1>7, <1>8

\* The record of a match leads from the place it starts at to the place behind it.
LEMMA TakenFollows ==
  ASSUME NEW ip \in Int, NEW nodes, NEW p \in Nat, AllSettled(ip, nodes, p), NEW q \in 0..p,
         nodes[q].mlen # 0
  PROVE  /\ Taken(nodes, q) \in Step
         /\ Follows(Taken(nodes, q), PlaceOf(ip, nodes, Start(nodes[q], q)), PlaceOf(ip, nodes, q))
<1>1. PICK at \in Int : at = Start(nodes[q], q) /\ at \in 0..(q - 1)
  BY SettledMatch
<1>2. nodes[q] \in Node /\ nodes[at] \in Node
  BY <1>1 DEF AllSettled
<1>3. PICK node, from : node = nodes[q] /\ from = nodes[at] /\ node \in Node /\ from \in Node
  BY <1>2
<1>4. /\ node.mlen \in Nat /\ node.mlen > 0 /\ node.litlen \in Nat /\ node.off \in Nat
      /\ from.litlen \in Nat /\ node.mlen + node.litlen + at = q
  BY <1>1, <1>3 DEF Node, Start
<1>5. /\ Named(from.reps, from.litlen = 0, node.off, ip + at, node.mlen)
      /\ node.reps = resolve_values(from.reps, from.litlen = 0, node.off).reps
  BY <1>1, <1>3, SettledMatch DEF IsMatch, RepsBehind
<1>6. Taken(nodes, q) = [literals |-> from.litlen, value |-> node.off, length |-> node.mlen]
  BY <1>1, <1>3 DEF Taken
<1>7. /\ PlaceOf(ip, nodes, at) = [pos |-> ip + at - from.litlen, reps |-> from.reps]
      /\ PlaceOf(ip, nodes, q) = [pos |-> ip + q - node.litlen, reps |-> node.reps]
  BY <1>3 DEF PlaceOf
<1>8. /\ ip + at - from.litlen + from.litlen = ip + at
      /\ ip + q - node.litlen = ip + at - from.litlen + from.litlen + node.mlen
  BY <1>4
<1>9. Follows([literals |-> from.litlen, value |-> node.off, length |-> node.mlen],
              [pos |-> ip + at - from.litlen, reps |-> from.reps],
              [pos |-> ip + q - node.litlen, reps |-> node.reps])
  BY <1>5, <1>8 DEF Follows
<1> QED BY <1>1, <1>4, <1>6, <1>7, <1>9 DEF Step

\* The first node stands here.
LEMMA FirstPlace ==
  ASSUME NEW ip \in Int, anchor \in Int, NEW nodes, NEW p \in Nat, AllSettled(ip, nodes, p)
  PROVE  PlaceOf(ip, nodes, 0) = Here /\ nodes[0].mlen = 0
<1>1. nodes[0] \in Node /\ IsSettled(ip, nodes, 0) /\ FirstNode(ip, nodes)
  BY DEF AllSettled
<1>2. nodes[0].litlen = ip - anchor /\ nodes[0].reps = reps /\ nodes[0].mlen = 0
  BY <1>1 DEF FirstNode, IsSettled
<1>3. ip + 0 - nodes[0].litlen = anchor
  BY <1>2
<1> QED BY <1>2, <1>3 DEF PlaceOf, Here

\* What the walk has put together for a match leads to where the match ends.
LEMMA WalkLeads ==
  ASSUME NEW ip \in Int, anchor \in Int, NEW nodes, NEW p \in Nat, AllSettled(ip, nodes, p),
         NEW path, Walked(path, nodes, p)
  PROVE  \A q \in 0..p : q = 0 \/ nodes[q].mlen # 0 =>
           path[q] \in Seq(Step) /\ Leads(path[q], Here, PlaceOf(ip, nodes, q))
<1> DEFINE Good(q) == path[q] \in Seq(Step) /\ Leads(path[q], Here, PlaceOf(ip, nodes, q))
           Bad == {q \in 0..p : (q = 0 \/ nodes[q].mlen # 0) /\ ~Good(q)}
<1>1. SUFFICES ASSUME Bad # {} PROVE FALSE
  OBVIOUS
<1>2. PICK q \in Bad : \A r \in Bad : q <= r
  <2>1. Bad \in SUBSET Nat
    OBVIOUS
  <2> HIDE DEF Bad
  <2> QED BY <1>1, <2>1, LeastOf
<1>3. q \in 0..p /\ (q = 0 \/ nodes[q].mlen # 0) /\ ~Good(q)
  OBVIOUS
<1>4. PlaceOf(ip, nodes, 0) = Here /\ nodes[0].mlen = 0 /\ Here \in Place
  <2>1. nodes[0] \in Node
    BY DEF AllSettled
  <2>2. PlaceOf(ip, nodes, 0) = Here /\ nodes[0].mlen = 0
    BY FirstPlace
  <2>3. PlaceOf(ip, nodes, 0) \in Place
    <3>1. PICK zero \in Int : zero = 0
      OBVIOUS
    <3>2. PlaceOf(ip, nodes, zero) \in Place
      BY <2>1, <3>1, PlaceOfTypes
    <3> QED BY <3>1, <3>2
  <2> QED BY <2>2, <2>3
<1>5. CASE q = 0
  <2>1. path[0] = <<>>
    BY <1>4, <1>5 DEF Walked
  <2>2. Leads(<<>>, Here, Here)
    BY <1>4, LeadsNone
  <2>3. <<>> \in Seq(Step)
    OBVIOUS
  <2> QED BY <1>3, <1>4, <1>5, <2>1, <2>2, <2>3
<1>6. CASE q # 0
  <2>1. PICK at \in Nat : at = Start(nodes[q], q) /\ at \in 0..(q - 1)
    BY <1>3, <1>6, SettledMatch
  <2>2. PICK b : b = MatchBefore(nodes, at)
    OBVIOUS
  <2>3. b \in 0..at /\ (b = 0 \/ nodes[b].mlen # 0)
    BY <2>1, <2>2, MatchBeforeIs
  <2>4. Good(b)
    <3>1. b \in 0..p /\ ~(q <= b)
      BY <1>3, <2>1, <2>3
    <3>2. b \notin Bad
      <4> HIDE DEF Bad
      <4> QED BY <1>2, <3>1
    <3> HIDE DEF Good
    <3> QED BY <2>3, <3>1, <3>2
  <2>5. PlaceOf(ip, nodes, b) = PlaceOf(ip, nodes, at)
    BY <1>3, <2>1, <2>2, PlaceBefore
  <2>6. /\ Taken(nodes, q) \in Step
        /\ Follows(Taken(nodes, q), PlaceOf(ip, nodes, at), PlaceOf(ip, nodes, q))
    BY <1>3, <1>6, <2>1, TakenFollows
  <2>7. path[q] = Append(path[b], Taken(nodes, q))
    <3>1. path[q] = Append(path[MatchBefore(nodes, Start(nodes[q], q))], Taken(nodes, q))
      BY <1>3, <1>6 DEF Walked
    <3> QED BY <2>1, <2>2, <3>1
  <2>8. PlaceOf(ip, nodes, q) \in Place
    BY <1>3, PlaceOfTypes DEF AllSettled
  <2>9. Leads(Append(path[b], Taken(nodes, q)), Here, PlaceOf(ip, nodes, q))
    <3>1. PICK more, s, mid, to : /\ more = path[b] /\ s = Taken(nodes, q)
                                  /\ mid = PlaceOf(ip, nodes, at) /\ to = PlaceOf(ip, nodes, q)
      OBVIOUS
    <3>2. more \in Seq(Step) /\ to \in Place /\ Leads(more, Here, mid) /\ Follows(s, mid, to)
      BY <2>4, <2>5, <2>6, <2>8, <3>1
    <3>3. Leads(Append(more, s), Here, to)
      BY <3>2, LeadsOn
    <3> QED BY <3>1, <3>3
  <2>10. Append(path[b], Taken(nodes, q)) \in Seq(Step)
    BY <2>4, <2>6
  <2> QED BY <1>3, <2>7, <2>9, <2>10
<1> QED BY <1>5, <1>6

\* The path walked back from p leads to where p stands.
LEMMA BacktraceLeads ==
  ASSUME NEW ip \in Int, anchor \in Int, NEW nodes, NEW p \in Nat, AllSettled(ip, nodes, p)
  PROVE  /\ backtrace(nodes, p) \in Seq(Step)
         /\ Leads(backtrace(nodes, p), Here, PlaceOf(ip, nodes, p))
<1>1. Backwards(nodes, p)
  BY SettledMatch DEF Backwards
<1>2. PICK path : Walked(path, nodes, p) /\ backtrace(nodes, p) = path[MatchBefore(nodes, p)]
  BY <1>1, BacktraceIs
<1>3. PICK b : b = MatchBefore(nodes, p) /\ b \in 0..p /\ (b = 0 \/ nodes[b].mlen # 0)
  BY MatchBeforeIs
<1>4. path[b] \in Seq(Step) /\ Leads(path[b], Here, PlaceOf(ip, nodes, b))
  BY <1>2, <1>3, WalkLeads
<1>5. PlaceOf(ip, nodes, b) = PlaceOf(ip, nodes, p)
  BY <1>3, PlaceBefore
<1> QED BY <1>2, <1>3, <1>4, <1>5

-----------------------------------------------------------------------------
\* The optimal parser: the steps of the path.

\* A path that leads on from here is emitted.
LEMMA EmitStep ==
  ASSUME BaseInv, ParseInv, Optimal, saved.inner = NothingAside, NEW path \in Seq(Step),
         NEW to \in Place, Leads(path, Here, to), NEW ip \in Int, path = <<>> => anchor <= ip,
         Emit(path, ip)
  PROVE  ParserInv'
<1> PICK c : c = [ip |-> ip, path |-> path]
  OBVIOUS
<1>1. c \in [ip : Int, path : Seq(Step)] /\ c.ip = ip /\ c.path = path
  OBVIOUS
<1>2. OptimalPlaced(c, "emit")
  BY <1>1 DEF OptimalPlaced
<1>3. Search(c, "emit") /\ "emit" \in OptimalPhases
  BY DEF Emit, OptimalPhases
<1> QED BY <1>2, <1>3, OptimalMoves

\* What the nodes at hand say of the one at `at`.
LEMMA AtHand ==
  ASSUME ParserInv, pc = "path", NEW nodes, NEW last_pos,
         PathNodes(cur.ip, nodes, cur.at + 1, last_pos)
  PROVE  /\ cur.ip \in Int /\ cur.at \in Nat /\ cur.at > 0 /\ last_pos \in Int /\ cur.at <= last_pos
         /\ anchor \in Int /\ seg.hi \in Int /\ OPT_NUM \in Nat
         /\ Reach(cur.ip) \in Int /\ last_pos <= Reach(cur.ip) /\ horizon = Reach(cur.ip)
         /\ Reach(cur.ip) <= OPT_NUM /\ cur.ip + cur.at <= seg.hi
         /\ AllSettled(cur.ip, nodes, cur.at)
         /\ nodes[cur.at].reps \in Triple /\ nodes[cur.at].litlen \in Nat
         /\ BaseInv /\ ParseInv /\ Optimal /\ saved.inner = NothingAside
<1>1. /\ pc \in OptimalPhases /\ cur.ip \in Int /\ cur.at \in Int /\ 1 <= cur.at /\ anchor \in Int
      /\ seg.hi \in Int /\ OPT_NUM \in Nat /\ horizon = Reach(cur.ip) /\ horizon \in Int
      /\ horizon <= OPT_NUM /\ horizon <= seg.hi - cur.ip
  BY PathInHand
<1>2. PICK ip, at \in Int : ip = cur.ip /\ at = cur.at /\ ip \in Int
  BY <1>1
<1>3. /\ nodes \in [0..OPT_NUM -> Node] /\ FirstNode(ip, nodes)
      /\ last_pos \in 1..Reach(ip) /\ at <= last_pos
      /\ \A q \in 0..(at + 1 - 1) : IsSettled(ip, nodes, q)
  BY <1>1, <1>2 DEF PathNodes
<1>4. at + 1 - 1 = at /\ \A q \in 0..at : q \in 0..OPT_NUM
  BY <1>1, <1>2, <1>3
<1>5. AllSettled(ip, nodes, at)
  BY <1>3, <1>4 DEF AllSettled
<1>6. nodes[at] \in Node
  BY <1>1, <1>2, <1>3, <1>4
<1>7. nodes[at].reps \in Triple /\ nodes[at].litlen \in Nat
  BY <1>6 DEF Node
<1> HIDE DEF AllSettled
<1>8. BaseInv /\ ParseInv /\ Optimal /\ saved.inner = NothingAside
  BY <1>1, OptimalInHand
<1>9. last_pos \in Int /\ last_pos <= Reach(ip) /\ Reach(ip) \in Int /\ ip + at <= seg.hi /\ at \in Nat
  BY <1>1, <1>2, <1>3
<1> QED BY <1>1, <1>2, <1>3, <1>5, <1>7, <1>8, <1>9

\* The path ends at a node, with nothing behind it.
LEMMA EndPathStep ==
  ASSUME ParserInv, pc = "path", NEW nodes, NEW last_pos,
         PathNodes(cur.ip, nodes, cur.at + 1, last_pos), EndPath(nodes, cur.at, Nothing)
  PROVE  ParserInv'
<1>1. PICK ip \in Int, at \in Nat : ip = cur.ip /\ at = cur.at /\ AllSettled(ip, nodes, at)
  BY AtHand
<1>2. /\ anchor \in Int /\ nodes[at].litlen \in Nat /\ nodes[at] \in Node
      /\ BaseInv /\ ParseInv /\ Optimal /\ saved.inner = NothingAside
  BY <1>1, AtHand DEF AllSettled
<1>3. PICK path : path = backtrace(nodes, at)
  OBVIOUS
<1>4. path \in Seq(Step) /\ Leads(path, Here, PlaceOf(ip, nodes, at))
  BY <1>1, <1>2, <1>3, BacktraceLeads
<1>5. PlaceOf(ip, nodes, at) \in Place
  BY <1>1, <1>2, PlaceOfTypes
<1>6. PICK on \in Int : on = (IF path = <<>> THEN anchor + nodes[at].litlen ELSE ip)
  BY <1>2
<1>7. path = <<>> => anchor <= on
  BY <1>2, <1>6
<1>8. Emit(path, on)
  BY <1>1, <1>3, <1>6 DEF EndPath
<1> QED BY <1>2, <1>4, <1>5, <1>7, <1>8, EmitStep

\* The path ends at a node, with a match from there behind it.
LEMMA EndPathWithStep ==
  ASSUME ParserInv, pc = "path", NEW nodes, NEW last_pos,
         PathNodes(cur.ip, nodes, cur.at + 1, last_pos),
         NEW value \in Nat, NEW n \in Nat,
         Named(nodes[cur.at].reps, nodes[cur.at].litlen = 0, value, cur.ip + cur.at, n),
         EndPath(nodes, cur.at, [literals |-> 0, value |-> value, length |-> n])
  PROVE  ParserInv'
<1>1. PICK ip \in Int, at \in Nat : ip = cur.ip /\ at = cur.at /\ AllSettled(ip, nodes, at)
  BY AtHand
<1>2. /\ anchor \in Int /\ nodes[at].litlen \in Nat /\ nodes[at] \in Node
      /\ BaseInv /\ ParseInv /\ Optimal /\ saved.inner = NothingAside
  BY <1>1, AtHand DEF AllSettled
<1>3. PICK path, node : path = backtrace(nodes, at) /\ node = nodes[at] /\ node \in Node
  BY <1>2
<1>4. path \in Seq(Step) /\ Leads(path, Here, PlaceOf(ip, nodes, at))
  BY <1>1, <1>2, <1>3, BacktraceLeads
<1>5. PICK s, from, to :
        /\ s = [literals |-> node.litlen, value |-> value, length |-> n]
        /\ from = [pos |-> ip + at - node.litlen, reps |-> node.reps]
        /\ to = [pos |-> ip + at + n, reps |-> resolve_values(node.reps, node.litlen = 0, value).reps]
  OBVIOUS
<1>6. node.litlen \in Nat /\ node.reps \in Triple
  BY <1>3 DEF Node
<1>7. s \in Step /\ to \in Place
  <2>1. (node.litlen = 0) \in BOOLEAN
    OBVIOUS
  <2>2. resolve_values(node.reps, node.litlen = 0, value).reps \in Triple
    BY <1>6, <2>1, ResolveTypes, Zenon
  <2>3. s \in Step
    BY <1>5, <1>6 DEF Step
  <2>4. ip + at + n \in Int
    OBVIOUS
  <2> QED BY <1>5, <2>2, <2>3, <2>4 DEF Place
<1>8. Follows(s, from, to)
  <2>1. Named(node.reps, node.litlen = 0, value, ip + at, n)
    BY <1>1, <1>3
  <2>2. /\ ip + at - node.litlen + node.litlen = ip + at
        /\ ip + at + n = ip + at - node.litlen + node.litlen + n
    BY <1>6
  <2> QED BY <1>5, <2>1, <2>2 DEF Follows
<1>9. from = PlaceOf(ip, nodes, at)
  BY <1>3, <1>5 DEF PlaceOf
<1>10. Leads(Append(path, s), Here, to)
  BY <1>4, <1>7, <1>8, <1>9, LeadsOn
<1>11. PICK more : more = Append(path, s) /\ more \in Seq(Step) /\ more # <<>>
  <2>1. Append(path, s) \in Seq(Step) /\ Len(Append(path, s)) = Len(path) + 1 /\ Len(path) \in Nat
    BY <1>4, <1>7
  <2>2. PICK more : more = Append(path, s)
    OBVIOUS
  <2>3. more \in Seq(Step) /\ Len(more) > 0
    BY <2>1, <2>2
  <2>4. more # <<>>
    BY <2>3
  <2> QED BY <2>2, <2>3, <2>4
<1>12. Emit(more, ip)
  <2>1. [literals |-> 0, value |-> value, length |-> n] # Nothing
    <3>1. DOMAIN [literals |-> 0, value |-> value, length |-> n] = {"literals", "value", "length"}
      OBVIOUS
    <3>2. DOMAIN Nothing = {}
      BY DEF Nothing
    <3> QED BY <3>1, <3>2
  <2>2. [[literals |-> 0, value |-> value, length |-> n] EXCEPT !.literals = node.litlen] = s
    BY <1>5
  <2> QED BY <1>1, <1>3, <1>11, <2>1, <2>2 DEF EndPath
<1> QED BY <1>2, <1>7, <1>10, <1>11, <1>12, EmitStep

\* On to the next node, or the end of the path.
LEMMA OnwardStep ==
  ASSUME ParserInv, pc = "path", NEW nodes, NEW last_pos,
         PathNodes(cur.ip, nodes, cur.at + 1, last_pos), Onward(nodes, last_pos)
  PROVE  ParserInv'
<1>1. CASE cur.at = last_pos
  BY <1>1, EndPathStep DEF Onward
<1>2. CASE cur.at # last_pos
  <2>1. /\ cur \in [ip : Int, nodes : [0..OPT_NUM -> Node], at : Int, last_pos : Int]
        /\ anchor <= cur.ip /\ cur.ip < seg.hi
    BY PathInHand
  <2>2. /\ cur.at <= last_pos /\ last_pos \in Int /\ cur.at \in Nat
        /\ BaseInv /\ ParseInv /\ Optimal /\ saved.inner = NothingAside
    BY AtHand
  <2>3. PICK c : c = [cur EXCEPT !.nodes = nodes, !.last_pos = last_pos, !.at = cur.at + 1]
    OBVIOUS
  <2>4. /\ c \in [ip : Int, nodes : [0..OPT_NUM -> Node], at : Int, last_pos : Int]
        /\ c.ip = cur.ip /\ c.nodes = nodes /\ c.last_pos = last_pos /\ c.at = cur.at + 1
    <3>1. nodes \in [0..OPT_NUM -> Node]
      BY DEF PathNodes
    <3>2. PICK S : S = [0..OPT_NUM -> Node]
      OBVIOUS
    <3>3. cur \in [ip : Int, nodes : S, at : Int, last_pos : Int] /\ nodes \in S
      BY <2>1, <3>1, <3>2
    <3>4. cur = [ip |-> cur.ip, nodes |-> cur.nodes, at |-> cur.at, last_pos |-> cur.last_pos]
      BY <3>3
    <3>5. c = [ip |-> cur.ip, nodes |-> nodes, at |-> cur.at + 1, last_pos |-> last_pos]
      BY <2>3, <3>4
    <3>6. cur.ip \in Int /\ cur.at + 1 \in Int /\ last_pos \in Int
      BY <2>1, <2>2
    <3> QED BY <3>2, <3>3, <3>5, <3>6
  <2>5. OptimalPlaced(c, "path")
    BY <1>2, <2>1, <2>2, <2>4 DEF OptimalPlaced
  <2>6. Search(c, "path") /\ "path" \in OptimalPhases
    BY <1>2, <2>3 DEF Onward, OptimalPhases
  <2> QED BY <2>2, <2>5, <2>6, OptimalMoves
<1> QED BY <1>1, <1>2

\* A search from the node at `at`: nothing found, a match that ends the path, or
\* matches that open further nodes.
LEMMA SearchFromStep ==
  ASSUME ParserInv, pc = "path", NEW nodes, NEW last_pos,
         PathNodes(cur.ip, nodes, cur.at + 1, last_pos), SearchFrom(nodes, last_pos)
  PROVE  ParserInv'
<1>1. PICK ip, at \in Int : ip = cur.ip /\ at = cur.at /\ ip \in Int /\ at \in Nat
  BY AtHand
<1>2. /\ last_pos \in Int /\ at <= last_pos /\ anchor \in Int /\ seg.hi \in Int /\ OPT_NUM \in Nat
      /\ Reach(ip) \in Int /\ horizon = Reach(ip) /\ Reach(ip) <= OPT_NUM /\ ip + at <= seg.hi
      /\ nodes[at].reps \in Triple /\ nodes[at].litlen \in Nat
      /\ BaseInv /\ ParseInv /\ Optimal /\ FrameInv
  BY <1>1, AtHand DEF BaseInv
<1>3. PICK offsets, ll_zero, v :
        offsets = nodes[at].reps /\ ll_zero = (nodes[at].litlen = 0) /\ v = ip + at
  OBVIOUS
<1>4. offsets \in Triple /\ ll_zero \in BOOLEAN /\ v \in Int /\ v <= seg.hi
  <2>1. ll_zero \in BOOLEAN
    BY <1>3, Zenon
  <2> QED BY <1>1, <1>2, <1>3, <2>1
<1>5. PICK list \in Collected(v, offsets, ll_zero) :
        IF list = <<>> THEN Onward(nodes, last_pos)
        ELSE IF Longest(list) > SUFFICIENT \/ cur.at + Longest(list) >= horizon
        THEN EndPath(nodes, cur.at, [literals |-> 0, value |-> list[Len(list)].value,
                                     length |-> Longest(list)])
        ELSE \E cheaper \in SUBSET ((cur.at + MIN_MATCH)..Lower(cur.at + Longest(list), last_pos)) :
               Onward(WithMatches(nodes, cur.at, last_pos, list, cheaper),
                      Higher(cur.at + Longest(list), last_pos))
  BY <1>1, <1>3, Zenon DEF SearchFrom
<1>6. Offered(list, v, offsets, ll_zero)
  BY <1>2, <1>4, CollectedOffered
<1>7. CASE list = <<>>
  BY <1>5, <1>7, OnwardStep
<1>8. CASE list # <<>>
  <2>1. /\ Longest(list) \in Int /\ Longest(list) >= MIN_MATCH /\ list[Len(list)] \in Listed
        /\ Named(offsets, ll_zero, list[Len(list)].value, v, Longest(list))
        /\ MIN_MATCH \in Nat
    BY <1>2, <1>6, <1>8, LongestIs, FrameTypes
  <2>2. PICK value, n \in Nat : value = list[Len(list)].value /\ n = Longest(list) /\ value \in Nat
    BY <2>1 DEF Listed
  <2>3. Named(nodes[at].reps, nodes[at].litlen = 0, value, ip + at, n)
    BY <1>3, <2>1, <2>2
  <2>4. CASE EndPath(nodes, cur.at, [literals |-> 0, value |-> value, length |-> n])
    BY <1>1, <2>2, <2>3, <2>4, EndPathWithStep
  <2>5. ASSUME NEW cheaper, at + n < Reach(ip),
               Onward(WithMatches(nodes, cur.at, last_pos, list, cheaper),
                      Higher(cur.at + Longest(list), last_pos))
        PROVE  ParserInv'
    <3>1. PICK more, further : /\ more = WithMatches(nodes, at, last_pos, list, cheaper)
                               /\ further = Higher(at + Longest(list), last_pos)
      OBVIOUS
    <3>2. Offered(list, ip + at, nodes[at].reps, nodes[at].litlen = 0)
      BY <1>3, <1>6
    <3>3. at + Longest(list) <= Reach(ip)
      BY <1>2, <2>2, <2>5
    <3>4. PathNodes(ip, nodes, at + 1, last_pos)
      BY <1>1
    <3>5. PathNodes(ip, more, at + 1, further)
      BY <1>1, <1>2, <1>8, <3>1, <3>2, <3>3, <3>4, MatchesHold
    <3>6. PathNodes(cur.ip, more, cur.at + 1, further) /\ Onward(more, further)
      BY <1>1, <2>5, <3>1, <3>5
    <3> QED BY <3>6, OnwardStep
  <2>6. CASE Longest(list) > SUFFICIENT \/ cur.at + Longest(list) >= horizon
    BY <1>5, <1>8, <2>2, <2>4, <2>6
  <2>7. CASE ~(Longest(list) > SUFFICIENT \/ cur.at + Longest(list) >= horizon)
    <3>1. at + n < Reach(ip)
      BY <1>1, <1>2, <2>2, <2>7
    <3> QED BY <1>5, <1>8, <2>5, <2>7, <3>1
  <2> QED BY <2>6, <2>7
<1> QED BY <1>7, <1>8

\* Searched or not.
LEMMA GoOnStep ==
  ASSUME ParserInv, pc = "path", NEW nodes, NEW last_pos,
         PathNodes(cur.ip, nodes, cur.at + 1, last_pos), GoOn(nodes, last_pos)
  PROVE  ParserInv'
<1>1. CASE Onward(nodes, last_pos)
  BY <1>1, OnwardStep
<1>2. CASE SearchFrom(nodes, last_pos)
  BY <1>2, SearchFromStep
<1> QED BY <1>1, <1>2 DEF GoOn

\* A node settled by a match or a literal.
LEMMA PathStepStep ==
  ASSUME ParserInv, PathStep
  PROVE  ParserInv'
<1>1. pc = "path"
  BY DEF PathStep
<1>2. PICK by_literal \in IF cur.nodes[cur.at].reached THEN BOOLEAN ELSE {TRUE} :
        GoOn([cur.nodes EXCEPT ![cur.at] = Settled(cur.nodes, cur.at, by_literal)], cur.last_pos)
  BY DEF PathStep
<1>3. PICK nodes, last_pos :
        /\ nodes = [cur.nodes EXCEPT ![cur.at] = Settled(cur.nodes, cur.at, by_literal)]
        /\ last_pos = cur.last_pos
  OBVIOUS
<1>4. PathNodes(cur.ip, nodes, cur.at + 1, last_pos)
  BY <1>1, <1>3, SettledHolds
<1>5. GoOn(nodes, last_pos)
  BY <1>2, <1>3
<1> QED BY <1>1, <1>4, <1>5, GoOnStep

\* A node settled by a literal, its match kept for the next.
LEMMA PathKeptStep ==
  ASSUME ParserInv, PathStepKept
  PROVE  ParserInv'
<1>1. pc = "path"
  BY DEF PathStepKept
<1>2. PICK settled, kept :
        /\ settled = [cur.nodes EXCEPT ![cur.at] = Literal(cur.nodes, cur.at)]
        /\ kept = [cur.nodes[cur.at] EXCEPT !.litlen = 1,
                     !.reps = EndReps(settled, cur.nodes[cur.at], cur.at)]
  OBVIOUS
<1>3. Settled(cur.nodes, cur.at, TRUE) = Literal(cur.nodes, cur.at)
  BY Zenon DEF Settled
<1>4. /\ cur.nodes[cur.at].reached /\ cur.nodes[cur.at].litlen = 0 /\ cur.at + 1 <= horizon
      /\ GoOn([settled EXCEPT ![cur.at + 1] = kept], Higher(cur.last_pos, cur.at + 1))
  BY <1>2, <1>3, Zenon DEF PathStepKept
<1>5. PICK nodes, last_pos : /\ nodes = [settled EXCEPT ![cur.at + 1] = kept]
                             /\ last_pos = Higher(cur.last_pos, cur.at + 1)
  OBVIOUS
<1>6. PathNodes(cur.ip, [settled EXCEPT ![cur.at + 1] = kept], cur.at + 1, Higher(cur.last_pos, cur.at + 1))
  BY <1>1, <1>2, <1>4, KeptHolds
<1>7. PathNodes(cur.ip, nodes, cur.at + 1, last_pos) /\ GoOn(nodes, last_pos)
  BY <1>4, <1>5, <1>6
<1> QED BY <1>1, <1>7, GoOnStep

\* What its steps have in hand while a path is emitted.
LEMMA EmitInHand ==
  ASSUME ParserInv, pc = "emit"
  PROVE  /\ pc \in OptimalPhases /\ cur \in [ip : Int, path : Seq(Step)]
         /\ cur.path = <<>> => anchor <= cur.ip
         /\ \E to \in Place : Leads(cur.path, Here, to)
         /\ BaseInv /\ ParseInv /\ Optimal /\ Third /\ saved.inner = NothingAside /\ RepsInv
         /\ ThirdAgrees(reps, hist) /\ anchor \in Int /\ reps \in Triple
<1>1. pc \in OptimalPhases
  BY DEF OptimalPhases
<1>2. OptimalCursors /\ BaseInv /\ ParseInv /\ Optimal /\ Third /\ saved.inner = NothingAside
      /\ anchor \in Int /\ reps \in Triple
  BY <1>1, OptimalInHand
<1> QED BY <1>1, <1>2 DEF OptimalCursors, OptimalPlaced, ParseInv

\* emit_optimal_sequence: the value means the distance it named when the path was
\* made, since the offsets are again those of the node it was made at.
LEMMA EmitSequenceStep ==
  ASSUME ParserInv, EmitSequence
  PROVE  ParserInv'
<1>1. pc = "emit" /\ cur.path # <<>> /\ UNCHANGED <<Segment, saved>>
  BY DEF EmitSequence
<1>2. /\ cur \in [ip : Int, path : Seq(Step)] /\ BaseInv /\ ParseInv /\ Optimal /\ Third
      /\ saved.inner = NothingAside /\ RepsInv /\ ThirdAgrees(reps, hist) /\ anchor \in Int
      /\ reps \in Triple
  BY <1>1, EmitInHand
<1>3. PICK path \in Seq(Step) : path = cur.path /\ path # <<>>
  BY <1>1, <1>2
<1>4. PICK to \in Place : Leads(path, Here, to)
  BY <1>1, <1>3, EmitInHand
<1>5. PICK mid \in Place : Follows(Head(path), Here, mid) /\ Leads(Tail(path), mid, to)
  BY <1>3, <1>4, LeadsBehind
<1>6. PICK s \in Step : s = Head(path)
  BY <1>3
<1>7. PICK literals, value, n \in Nat :
        literals = s.literals /\ value = s.value /\ n = s.length /\ literals \in Nat /\ value \in Nat
  BY DEF Step
<1>8. PICK start \in Int : start = anchor + literals /\ anchor <= start
  BY <1>2, <1>7
<1>9. PICK ll_zero : ll_zero = (start = anchor)
  OBVIOUS
<1>10. ll_zero \in BOOLEAN
  BY <1>9, Zenon
<1>11. ll_zero = (s.literals = 0)
  <2>1. start = anchor <=> literals = 0
    BY <1>2, <1>8
  <2> QED BY <1>7, <1>9, <2>1
<1>12. PICK d : d = resolve_values(reps, ll_zero, value).offset
  OBVIOUS
<1>13. /\ Sound(start, d, n) /\ mid.pos = start + n
       /\ mid.reps = resolve_values(reps, ll_zero, value).reps
  BY <1>5, <1>6, <1>7, <1>8, <1>11, <1>12 DEF Follows, Named, Here
<1>14. d \in Positive /\ Legal(start, d) /\ SameBytes(start, d, n) /\ n > 0 /\ start + n <= seg.hi
  BY <1>13 DEF Sound, Legal
<1>15. PICK q : q = [value |-> value, reps |-> resolve_values(reps, ll_zero, value).reps]
  OBVIOUS
<1>16. Meant(q, start = anchor, d)
  <2>1. Meant(q, ll_zero, d)
    BY <1>2, <1>7, <1>10, <1>12, <1>14, <1>15, ResolvedMeant
  <2> QED BY <1>9, <2>1
<1>17. by_value(start, value) = q
  BY <1>9, <1>15 DEF by_value
<1>18. Store(q, start, n)
  BY <1>3, <1>6, <1>7, <1>8, <1>17 DEF EmitSequence
<1>19. BaseInv' /\ ParseInv' /\ anchor' = start + n
  BY <1>1, <1>2, <1>8, <1>14, <1>16, <1>18, StoreKeeps
<1>20. reps' = mid.reps
  BY <1>13, <1>15, <1>18 DEF Store
<1>21. Here' = mid
  <2>1. Here' = [pos |-> anchor', reps |-> reps']
    BY DEF Here
  <2>2. mid = [pos |-> mid.pos, reps |-> mid.reps]
    BY DEF Place
  <2> QED BY <1>13, <1>19, <1>20, <2>1, <2>2
<1>22. Optimal' /\ saved'.inner = NothingAside'
  BY <1>1, <1>2, SegmentStays DEF Optimal, NothingAside
<1>23. CASE Len(path) > 1
  <2>1. pc' = "emit" /\ cur' = [cur EXCEPT !.path = Tail(cur.path)]
    BY <1>1, <1>3, <1>23 DEF EmitSequence
  <2>2. PICK rest : rest = Tail(path)
    OBVIOUS
  <2>3. rest \in Seq(Step) /\ Len(rest) > 0
    BY <1>3, <1>23, <2>2
  <2>4. rest # <<>>
    BY <2>3
  <2>5. cur' \in [ip : Int, path : Seq(Step)] /\ cur'.path = rest
    BY <1>2, <1>3, <2>1, <2>2, <2>3
  <2>6. \A step, from, next : Follows(step, from, next)' <=> Follows(step, from, next)
    BY <1>1, SoundStays DEF Follows
  <2>7. Leads(cur.path, Here, to)'
    BY <1>5, <1>21, <2>2, <2>5, <2>6 DEF Leads
  <2>8. OptimalCursors'
    BY <1>22, <2>1, <2>4, <2>5, <2>7 DEF OptimalCursors, OptimalPlaced, Step, Place, Triple
  <2> QED BY <1>19, <2>1, <2>8, OptimalGoesOn DEF OptimalPhases
<1>24. CASE ~(Len(path) > 1)
  <2>1. pc' = "optimal" /\ cur' = [ip |-> anchor']
    BY <1>1, <1>3, <1>24 DEF EmitSequence
  <2>2. anchor' \in Int
    BY <1>19
  <2>3. cur' \in [ip : Int] /\ anchor' <= cur'.ip
    BY <2>1, <2>2
  <2>4. OptimalCursors'
    BY <1>22, <2>1, <2>3 DEF OptimalCursors, OptimalPlaced
  <2> QED BY <1>19, <2>1, <2>4, OptimalGoesOn DEF OptimalPhases
<1> QED BY <1>23, <1>24

\* A path of literals only moves the parser over them.
LEMMA SkipLiteralsStep ==
  ASSUME ParserInv, SkipLiterals
  PROVE  ParserInv'
<1>1. pc = "emit" /\ cur.path = <<>> /\ Search([ip |-> cur.ip], "optimal")
  BY DEF SkipLiterals
<1>2. cur.ip \in Int /\ anchor <= cur.ip /\ BaseInv /\ ParseInv /\ Optimal /\ saved.inner = NothingAside
  BY <1>1, EmitInHand
<1>3. OptimalPlaced([ip |-> cur.ip], "optimal")
  BY <1>2 DEF OptimalPlaced
<1> QED BY <1>1, <1>2, <1>3, OptimalMoves DEF OptimalPhases

\* Every step of the optimal parser.
LEMMA OptimalNextStep ==
  ASSUME ParserInv, OptimalNext
  PROVE  ParserInv'
<1>1. ASSUME NEW ip \in {seg.lo, seg.lo + 1}, Optimal, EnterOptimal(ip) PROVE ParserInv'
  BY <1>1, EnterOptimalStep
<1>2. CASE OptEnter
  <2>1. Optimal /\ EnterOptimal(seg.lo)
    BY <1>2 DEF OptEnter, OptPlain
  <2> QED BY <1>1, <2>1
<1>3. CASE OptDictEnter
  <2>1. Optimal /\ EnterOptimal(seg.lo + (IF seg.lo = P THEN 1 ELSE 0))
    BY <1>3 DEF OptDictEnter, OptTwoPhase
  <2>2. PICK ip : ip = seg.lo + (IF seg.lo = P THEN 1 ELSE 0)
    OBVIOUS
  <2>3. ip \in {seg.lo, seg.lo + 1}
    <3>1. pc = "enter"
      BY <2>1 DEF EnterOptimal
    <3>2. seg.lo \in Int
      BY <3>1 DEF ParserInv, EnterInv, ParseInv, SegmentInv
    <3> QED BY <2>2, <3>2
  <2> QED BY <1>1, <2>1, <2>2, <2>3
<1>4. CASE OptStart \/ OptDictStart
  BY <1>4, StartPathStep DEF OptStart, OptDictStart
<1>5. CASE OptPath \/ OptDictPath
  BY <1>5, PathStepStep DEF OptPath, OptDictPath
<1>6. CASE OptKept \/ OptDictKept
  BY <1>6, PathKeptStep DEF OptKept, OptDictKept
<1>7. CASE OptEmit \/ OptDictEmit
  BY <1>7, EmitSequenceStep DEF OptEmit, OptDictEmit
<1>8. CASE OptSkip \/ OptDictSkip
  BY <1>8, SkipLiteralsStep DEF OptSkip, OptDictSkip
<1> QED BY <1>2, <1>3, <1>4, <1>5, <1>6, <1>7, <1>8 DEF OptimalNext

-----------------------------------------------------------------------------
\* The theorems.

\* Nothing happens.
LEMMA ParserStutter ==
  ASSUME ParserInv, UNCHANGED vars
  PROVE  ParserInv'
<1>1. UNCHANGED <<Segment, Storage, Offsets>> /\ UNCHANGED vars
  BY DEF vars, Segment, Frame, Storage, Offsets
<1>2. UNCHANGED Segment /\ UNCHANGED <<source, setup, block, undo, carried, seg, ldm, pc, cur, anchor,
                                       reps, saved, hist, last>>
  BY <1>1 DEF vars
<1>3. FrameInv' /\ EverySequenceDecodes'
  BY <1>2, FrameStays, SequenceStays DEF ParserInv
<1>4. /\ (UndoInv => UndoInv') /\ (LdmInv => LdmInv')
  BY <1>2, UndoStays, LdmStays
<1>5. /\ OffsetTypes' /\ (SegmentInv <=> SegmentInv') /\ (RepsInv <=> RepsInv')
      /\ (ThirdAgrees(reps, hist) <=> ThirdAgrees(reps, hist)')
      /\ (ThirdAgrees(carried, hist) <=> ThirdAgrees(carried, hist)')
      /\ (NothingSaved <=> NothingSaved') /\ (FrontsEqual(reps, hist) <=> FrontsEqual(reps, hist)')
      /\ (FrontsEqual(carried, hist) <=> FrontsEqual(carried, hist)')
  BY <1>2, SegmentStays
     DEF ParserInv, OffsetTypes, SegmentInv, RepsInv, ThirdAgrees, NothingSaved, FrontsEqual, InWindow
<1>6. Agreed(reps, hist, saved.outer) => Agreed(reps, hist, saved.outer)'
  BY <1>2 DEF Agreed
<1>7. Agreed(reps, hist, saved.inner) => Agreed(reps, hist, saved.inner)'
  BY <1>2 DEF Agreed
<1>8. ParseInv => ParseInv'
  BY <1>2, <1>5, <1>6, <1>7, SegmentStays DEF ParseInv, InWindow, NothingAside
<1>9. LeaveInv => LeaveInv'
  BY <1>5, <1>6 DEF LeaveInv
<1>10. EnterInv => EnterInv'
  <2>1. match_floor(seg.lo)' = match_floor(seg.lo)
    BY <1>2 DEF match_floor, prefix_low, rep_window_low, retired, P, H
  <2> QED BY <1>2, <1>6, <1>8, <2>1, SegmentStays DEF EnterInv, NothingAside
<1>11. BlockStartInv => BlockStartInv'
  BY <1>2, <1>5, SegmentStays DEF BlockStartInv
<1>12. FastCursors' /\ LazyCursors'
  <2>1. \A x : Close(x)' <=> Close(x)
    BY <1>2, SegmentStays DEF Close
  <2>2. (pair' <=> pair) /\ (Fast' <=> Fast)
    BY <1>2, SegmentStays DEF Fast
  <2>3. FastCursors'
    BY <1>2, <2>1, <2>2 DEF ParserInv, FastCursors, Placed, ClosedUp
  <2>4. \A v, d, n : Sound(v, d, n)' <=> Sound(v, d, n)
    BY <1>2, SoundStays
  <2>5. LazyCursors'
    BY <1>2, <2>4 DEF ParserInv, LazyCursors, LazyPlaced, Holds, Best_
  <2> QED BY <2>3, <2>5
<1>13. OptimalCursors'
  <2>1. CASE pc \in OptimalPhases
    <3>1. Search(cur, pc)
      BY <1>1, <1>2 DEF Search
    <3>2. ParserInv'
      BY <2>1, <3>1, OptimalInHand, OptimalMoves DEF OptimalCursors
    <3> QED BY <3>2 DEF ParserInv
  <2>2. CASE pc \notin OptimalPhases
    <3>1. pc' \notin {"optimal", "path", "emit"} /\ OptimalPhases' = OptimalPhases
      BY <1>2, <2>2 DEF OptimalPhases
    <3> QED BY <2>2, <3>1, <1>2 DEF OptimalCursors, OptimalPlaced
  <2> QED BY <2>1, <2>2
<1>14. pc' = pc /\ last' = last
  BY <1>2
<1> QED BY <1>3, <1>4, <1>5, <1>8, <1>9, <1>10, <1>11, <1>12, <1>13, <1>14 DEF ParserInv

\* The invariant holds of every state of every parser.
LEMMA ParserInductive ==
  ParserInv /\ [ParsersNext]_vars => ParserInv'
<1> SUFFICES ASSUME ParserInv, [ParsersNext]_vars PROVE ParserInv'
  OBVIOUS
<1>1. CASE ParserNext
  BY <1>1, NextBlockStep, NextSegmentStep, EndSegmentStep, CloseBlockStep DEF ParserNext
<1>2. CASE FastNext
  BY <1>2, FastNextStep
<1>3. CASE LazyNext
  BY <1>3, LazyNextStep
<1>4. CASE OptimalNext
  BY <1>4, OptimalNextStep
<1>5. CASE UNCHANGED vars
  BY <1>5, ParserStutter
<1> QED BY <1>1, <1>2, <1>3, <1>4, <1>5 DEF ParsersNext

\* The inductive invariant, for every source, block length, window, dictionary and
\* choice of the parsers' constants.
THEOREM ParsersKeepInv == ParsersSpec => []ParserInv
<1>1. ParserInit => ParserInv
  BY ParserInitInv
<1>2. ParserInv /\ [ParsersNext]_vars => ParserInv'
  BY ParserInductive
<1> QED BY <1>1, <1>2, PTL DEF ParsersSpec

\* Every sequence that one of the parsers stores the decoder resolves to a distance
\* it takes there, and at that distance lie the bytes the sequence stands for.
THEOREM EverySequenceIsRead == ParsersSpec => []EverySequenceDecodes
<1>1. ParserInv => EverySequenceDecodes
  BY ParserInvImplies
<1> QED BY <1>1, ParsersKeepInv, PTL

\* The offsets a parser holds are the decoder's or put aside, and between blocks those
\* carried on are the decoder's, whether the last plan was kept or dropped.
THEOREM OffsetsAreFollowed == ParsersSpec => []OffsetsFollowTheDecoder
<1>1. ParserInv => OffsetsFollowTheDecoder
  BY ParserInvImplies
<1> QED BY <1>1, ParsersKeepInv, PTL

\* The fast pair's repeat, read without a test of the window, lies in the source.
THEOREM RepeatReadsStayInside == ParsersSpec => []RepeatReadsInBounds
<1>1. ParserInv => RepeatReadsInBounds
  BY ParserInvImplies
<1> QED BY <1>1, ParsersKeepInv, PTL
=============================================================================
