------------------------- MODULE StreamEncoderProofs -------------------------
(***************************************************************************)
(* For every window, block size, cycle, pledge and dictionary, and every   *)
(* way a caller cuts its input:                                            *)
(*                                                                         *)
(*  - the encoder's buffer never outgrows the bounds its finders were      *)
(*    built for, and a contiguous finder is always rebased at a            *)
(*    compaction, never rebuilt;                                           *)
(*  - every byte goes into the frame once and in its order, the finished   *)
(*    frame is one a decoder accepts, and its blocks lie where the calls   *)
(*    put them;                                                            *)
(*  - the finder's tables name the bytes they were filed for however often *)
(*    the buffer moved, lose no byte between two blocks (but for the       *)
(*    parser over hash chains, which does), and outlive the dictionary's   *)
(*    reach; the slots of a tree's cycle follow as long as the cycle       *)
(*    reaches over what a block has to catch up on (CyclesBeyondLag);      *)
(*  - the long-distance table moves with the buffer too, and offers        *)
(*    nothing the decoder would refuse (under LdmBounded, and why is said  *)
(*    there).                                                              *)
(*                                                                         *)
(* The argument is arithmetic over EncoderGeometry (CompactionFits below)  *)
(* carried through the calls by EncoderInv, which adds to the first        *)
(* properties what push keeps true of buffered_input: at every block it    *)
(* holds no more than a block. BytesInv then says where every byte is, as  *)
(* runs of the stream that meet end to end; LayoutInv and OutputInv what   *)
(* became of them on the wire; TablesInv and LdmInv what tables over such  *)
(* a run say, and each of the last is a fact of two moves of the buffer,   *)
(* to grow at its end and to lose a multiple of the cycle at its front.    *)
(***************************************************************************)
EXTENDS StreamEncoder, SequenceTheorems, WellFoundedInduction, TLAPS

-----------------------------------------------------------------------------
\* Remainders by a divisor that is not a literal.

\* A remainder is below its divisor.
LEMMA ModRange ==
  ASSUME NEW w \in Nat, NEW d \in Nat \ {0}
  PROVE  w % d \in 0..(d - 1)
BY Z3

\* A remainder is no more than what was divided.
LEMMA ModBelow ==
  ASSUME NEW w \in Nat, NEW d \in Nat \ {0}
  PROVE  w % d <= w
BY ModRange, Z3

\* Quotient and remainder make up the dividend.
LEMMA DivMod ==
  ASSUME NEW w \in Nat, NEW d \in Nat \ {0}
  PROVE  w = d * (w \div d) + (w % d) /\ (w \div d) \in Nat
BY Z3

\* Two numbers less than a divisor apart leave different remainders.
LEMMA NearRemainders ==
  ASSUME NEW a \in Nat, NEW b \in Nat, NEW c \in Nat \ {0}, a < b, b - a < c
  PROVE  a % c # b % c
<1>1. PICK i \in Nat, r \in 0..(c - 1) : a = c * i + r /\ r = a % c
  BY DivMod, ModRange
<1>2. PICK j \in Nat, s \in 0..(c - 1) : b = c * j + s /\ s = b % c
  BY DivMod, ModRange
<1>3. CASE r = s
  <2>1. PICK x \in Nat, y \in Nat : x = c * i /\ y = c * j
    BY Z3
  <2>2. b - a = y - x
    <3>1. a = x + r
      BY <1>1, <2>1
    <3>2. b = y + s
      BY <1>2, <2>1
    <3> QED BY <1>3, <3>1, <3>2
  <2>3. j <= i => y <= x
    BY Z3, <2>1
  <2>4. j >= i + 1 => y >= x + c
    BY Z3, <2>1
  <2> QED BY <2>1, <2>2, <2>3, <2>4
<1> QED BY <1>1, <1>2, <1>3

\* A multiple leaves no remainder.
LEMMA MultipleMod ==
  ASSUME NEW k \in Nat, NEW d \in Nat \ {0}
  PROVE  (d * k) % d = 0
BY Z3

\* What aligned_drop drops is whole cycles.
LEMMA WholeCycles ==
  ASSUME NEW w \in Nat, NEW d \in Nat \ {0}
  PROVE  (w - (w % d)) % d = 0
<1>1. w - (w % d) = d * (w \div d)
  BY DivMod, ModRange, Z3
<1> QED
  BY <1>1, DivMod, MultipleMod

-----------------------------------------------------------------------------
\* The geometry.

\* The sizes are what their names say: a block is at least a byte and at most a
\* window, a chunk at most a block and a byte.
LEMMA Sizes ==
  ASSUME NEW o \in Setups
  PROVE  /\ history_limit_for(o) \in Nat \ {0}
         /\ block_size_for(o) \in Nat \ {0} /\ block_size_for(o) <= history_limit_for(o)
         /\ history_slack_for(o) \in Nat /\ history_slack_for(o) >= history_limit_for(o)
         /\ frame_capacity_for(o)
              = history_limit_for(o) + history_slack_for(o) + block_size_for(o)
         /\ push_target(o) \in {block_size_for(o), block_size_for(o) + 1}
<1>1. /\ o.block_size \in Nat \ {0} /\ o.max_history_bytes \in Nat \ {0}
      /\ o.rebase_period \in Nat \ {0} /\ o.pledged_src_size \in Nat \cup {None}
  BY SetupAssumption
<1>2. history_limit_for(o) \in Nat \ {0}
  BY <1>1, GeometryAssumption DEF history_limit_for, Least
<1>3. block_size_for(o) \in Nat \ {0} /\ block_size_for(o) <= history_limit_for(o)
  BY <1>1, <1>2, GeometryAssumption DEF block_size_for, Least, Greatest, None
<1>4. history_slack_for(o) \in Nat /\ history_slack_for(o) >= history_limit_for(o)
  BY <1>1, <1>2, <1>3 DEF history_slack_for, Greatest
<1>5. push_target(o) \in {block_size_for(o), block_size_for(o) + 1}
  BY <1>3 DEF push_target
<1> QED
  BY <1>2, <1>3, <1>4, <1>5 DEF frame_capacity_for

\* A compaction of a buffer within its capacity keeps a window, leaves room for a
\* block, and drops an amount the finder can be rebased by.  Either the cycle is
\* wider than the whole buffer, which then moves bodily, or the slack holds a cycle
\* and the drop is whole cycles.
LEMMA CompactionFits ==
  ASSUME NEW o \in Setups, NEW live_end \in Nat,
         must_compact(o, live_end), live_end <= frame_capacity_for(o)
  PROVE  /\ compact_drop(o, live_end) \in Nat
         /\ compact_drop(o, live_end) <= live_end - history_limit_for(o)
         /\ live_end - compact_drop(o, live_end)
              <= history_limit_for(o) + history_slack_for(o)
         /\ can_shift(o, compact_drop(o, live_end), live_end)
<1> DEFINE L == history_limit_for(o)
           S == history_slack_for(o)
           B == block_size_for(o)
           d == o.rebase_period
           want == live_end - L
<1>1. /\ L \in Nat \ {0} /\ B \in Nat \ {0} /\ S \in Nat /\ S >= L
      /\ live_end <= L + S + B /\ live_end > L + S
  BY Sizes DEF must_compact
<1>2. d \in Nat \ {0}
  BY SetupAssumption
<1>3. want \in Nat /\ want > S /\ want <= S + B
  BY <1>1
<1>4. compact_drop(o, live_end) = IF d > want THEN want ELSE want - (want % d)
  BY DEF compact_drop, aligned_drop
<1>5. want % d \in 0..(d - 1) /\ want % d <= want
  BY <1>2, <1>3, ModRange, ModBelow
<1>6. CASE d >= L * 2 + B
  <2>1. S = L
    BY <1>6 DEF history_slack_for
  <2>2. d > want /\ live_end <= d
    BY <1>1, <1>2, <1>6, <2>1
  <2> HIDE DEF L, S, B, d
  <2>3. by_slot(o, live_end)
    BY <2>2 DEF by_slot, d
  <2> QED
    BY <1>1, <1>3, <1>4, <2>2, <2>3 DEF can_shift, L, S, B
<1>7. CASE ~(d >= L * 2 + B)
  <2>1. S >= d
    BY <1>1, <1>2, <1>7 DEF history_slack_for, Greatest
  <2>2. compact_drop(o, live_end) = want - (want % d)
    BY <1>1, <1>2, <1>3, <1>4, <2>1
  <2>3. (want - (want % d)) % d = 0
    BY <1>2, <1>3, WholeCycles
  <2>4. can_shift(o, compact_drop(o, live_end), live_end)
    BY <2>2, <2>3 DEF can_shift
  <2> QED
    BY <1>1, <1>2, <1>3, <1>5, <2>1, <2>2, <2>4
<1> QED
  BY <1>6, <1>7

-----------------------------------------------------------------------------
\* The calls.

\* The inductive invariant.  What a push leaves in the buffer is short of a chunk,
\* what a split leaves is at most a block, and no byte is counted twice between
\* frame, buffered_input and src.
EncoderInv ==
  /\ p \in Setups
  /\ buffered_input \in Seq(Int) /\ src \in Seq(Int) /\ frame \in Seq(Int)
  /\ call \in {"none", "push", "chunk", "tail"}
  /\ content_len \in Nat /\ origin \in Nat
  /\ finished => call = "none"
  /\ call = "none" => src = << >>
  /\ Len(buffered_input) <= push_target(p)
  /\ call \in {"none", "push"} => Len(buffered_input) < push_target(p)
  /\ call = "chunk" => Len(buffered_input) = push_target(p)
  /\ call = "tail" => Len(buffered_input) <= block_size_for(p)
  /\ Len(frame) + Len(buffered_input) + Len(src) <= content_len
  /\ Len(frame) <= frame_capacity_for(p)
  /\ rebuilt = FALSE

\* A block begins, compaction done, with room for itself.
LEMMA BlockBeginsFits ==
  ASSUME EncoderInv
  PROVE  /\ BlockBegins.frame \in Seq(Int)
         /\ Len(BlockBegins.frame) <= Len(frame)
         /\ Len(BlockBegins.frame) <= history_limit_for(p) + history_slack_for(p)
         /\ BlockBegins.rebuilt = FALSE
<1> DEFINE at == [frame |-> frame, ldm |-> ldm, match_state |-> match_state, rebuilt |-> rebuilt]
           dropped == compact_drop(p, Len(frame))
           kept == SubSeq(frame, dropped + 1, Len(frame))
<1>1. p \in Setups /\ frame \in Seq(Int) /\ Len(frame) \in Nat
      /\ Len(frame) <= frame_capacity_for(p) /\ rebuilt = FALSE
  BY DEF EncoderInv
<1>2. /\ history_limit_for(p) \in Nat \ {0} /\ history_slack_for(p) \in Nat
  BY <1>1, Sizes
<1>3. CASE ~must_compact(p, Len(frame))
  <2>1. BlockBegins = at
    BY <1>3 DEF BlockBegins
  <2> QED
    BY <1>1, <1>2, <1>3, <2>1 DEF must_compact
<1>4. CASE must_compact(p, Len(frame))
  <2>1. /\ dropped \in Nat /\ dropped <= Len(frame) - history_limit_for(p)
        /\ Len(frame) - dropped <= history_limit_for(p) + history_slack_for(p)
        /\ can_shift(p, dropped, Len(frame))
    BY <1>1, <1>4, CompactionFits
  <2>2. BlockBegins = compact_frame(at)
    BY <1>4 DEF BlockBegins
  <2>3. compact_frame(at).frame = kept
    BY DEF compact_frame
  <2>4. compact_frame(at).rebuilt = FALSE
    BY <1>1, <2>1 DEF compact_frame
  <2> HIDE DEF dropped
  <2>5. kept \in Seq(Int) /\ Len(kept) = Len(frame) - dropped
    BY <1>1, <1>2, <2>1, SubSeqProperties
  <2> HIDE DEF kept
  <2> QED
    BY <1>1, <1>2, <2>1, <2>2, <2>3, <2>4, <2>5
<1> QED
  BY <1>3, <1>4

\* The frame after take buffered bytes were appended to it.
Grown(take) == BlockBegins.frame \o SubSeq(buffered_input, 1, take)

\* Encoding take buffered bytes, at most a block of them, moves them to frame and
\* keeps frame within its capacity.
LEMMA BlockFits ==
  ASSUME EncoderInv, NEW take \in Nat,
         take <= block_size_for(p), take <= Len(buffered_input)
  PROVE  /\ RestOfBuffer(take) \in Seq(Int)
         /\ Len(RestOfBuffer(take)) = Len(buffered_input) - take
         /\ Grown(take) \in Seq(Int) /\ Len(Grown(take)) <= Len(frame) + take
         /\ Len(Grown(take)) <= frame_capacity_for(p)
         /\ BlockBegins.rebuilt = FALSE
<1> DEFINE bytes == SubSeq(buffered_input, 1, take)
<1>1. p \in Setups /\ buffered_input \in Seq(Int) /\ frame \in Seq(Int)
  BY DEF EncoderInv
<1>2. bytes \in Seq(Int) /\ Len(bytes) = take
  BY <1>1, SubSeqProperties
<1>3. RestOfBuffer(take) \in Seq(Int) /\ Len(RestOfBuffer(take)) = Len(buffered_input) - take
  BY <1>1, SubSeqProperties DEF RestOfBuffer
<1>4. Grown(take) = BlockBegins.frame \o bytes
  BY DEF Grown
<1> HIDE DEF bytes
<1>5. Grown(take) \in Seq(Int) /\ Len(Grown(take)) = Len(BlockBegins.frame) + take
  <2>1. BlockBegins.frame \in Seq(Int)
    BY BlockBeginsFits
  <2>2. /\ BlockBegins.frame \o bytes \in Seq(Int)
        /\ Len(BlockBegins.frame \o bytes) = Len(BlockBegins.frame) + Len(bytes)
    BY <1>2, <2>1, ConcatProperties
  <2> QED
    BY <1>2, <1>4, <2>2
<1>6. /\ Len(BlockBegins.frame) \in Nat /\ Len(BlockBegins.frame) <= Len(frame)
      /\ Len(BlockBegins.frame) <= history_limit_for(p) + history_slack_for(p)
      /\ BlockBegins.rebuilt = FALSE
  BY BlockBeginsFits, LenProperties
<1>7. /\ history_limit_for(p) \in Nat /\ history_slack_for(p) \in Nat
      /\ block_size_for(p) \in Nat
      /\ frame_capacity_for(p) = history_limit_for(p) + history_slack_for(p) + block_size_for(p)
  BY <1>1, Sizes
<1>8. Len(frame) \in Nat
  BY <1>1, LenProperties
<1>9. Len(Grown(take)) <= Len(frame) + take /\ Len(Grown(take)) <= frame_capacity_for(p)
  BY <1>5, <1>6, <1>7, <1>8
<1> QED
  BY <1>3, <1>5, <1>6, <1>9

\* The split heuristic ends a chunk after at least a byte and at most a block.
LEMMA SplitInRange ==
  ASSUME EncoderInv, call = "chunk", NEW n \in next_block_sizes
  PROVE  /\ n \in Nat \ {0} /\ n <= block_size_for(p) /\ n <= Len(buffered_input)
<1>1. /\ p \in Setups /\ buffered_input \in Seq(Int)
      /\ Len(buffered_input) \in Nat \ {0}
  BY Sizes DEF EncoderInv
<1> QED
  BY <1>1, Sizes, SplitAssumption DEF next_block_sizes, Least

\* EncoderInv holds initially.
LEMMA InitInv == Init => EncoderInv
<1> SUFFICES ASSUME Init PROVE EncoderInv
  OBVIOUS
<1>1. p \in Setups
  BY DEF Init
<1>2. /\ history_limit_for(p) \in Nat /\ history_slack_for(p) \in Nat
      /\ block_size_for(p) \in Nat \ {0}
      /\ frame_capacity_for(p) = history_limit_for(p) + history_slack_for(p) + block_size_for(p)
      /\ push_target(p) \in Nat \ {0}
  BY <1>1, Sizes
<1> QED
  BY <1>1, <1>2 DEF Init, EncoderInv

\* A block that takes the whole buffer: the tail of a chunk, flush and finish.
LEMMA WholeBufferFits ==
  ASSUME EncoderInv, call \in {"none", "tail"}, NEW take \in Nat, take = Len(buffered_input)
  PROVE  /\ RestOfBuffer(take) \in Seq(Int) /\ Len(RestOfBuffer(take)) = 0
         /\ Grown(take) \in Seq(Int) /\ Len(Grown(take)) <= frame_capacity_for(p)
         /\ Len(Grown(take)) + Len(RestOfBuffer(take)) + Len(src) <= content_len
         /\ BlockBegins.rebuilt = FALSE
<1>1. /\ p \in Setups /\ Len(buffered_input) \in Nat /\ Len(src) \in Nat /\ Len(frame) \in Nat
      /\ content_len \in Nat /\ Len(frame) + Len(buffered_input) + Len(src) <= content_len
      /\ call = "none" => Len(buffered_input) < push_target(p)
      /\ call = "tail" => Len(buffered_input) <= block_size_for(p)
  BY LenProperties DEF EncoderInv
<1>2. block_size_for(p) \in Nat /\ push_target(p) \in {block_size_for(p), block_size_for(p) + 1}
  BY <1>1, Sizes
<1>3. take <= block_size_for(p) /\ take <= Len(buffered_input)
  BY <1>1, <1>2
<1>4. /\ RestOfBuffer(take) \in Seq(Int)
      /\ Len(RestOfBuffer(take)) = Len(buffered_input) - take
      /\ Grown(take) \in Seq(Int) /\ Len(Grown(take)) <= Len(frame) + take
      /\ Len(Grown(take)) <= frame_capacity_for(p) /\ BlockBegins.rebuilt = FALSE
  BY <1>3, BlockFits
<1>5. Len(Grown(take)) \in Nat
  BY <1>4, LenProperties
<1>6. Len(RestOfBuffer(take)) = 0
  BY <1>1, <1>4
<1>7. Len(Grown(take)) + Len(RestOfBuffer(take)) + Len(src) <= content_len
  BY <1>1, <1>4, <1>5, <1>6
<1> QED
  BY <1>4, <1>6, <1>7

\* Every call and every turn of push's loop preserves EncoderInv.
LEMMA StepInv == EncoderInv /\ [Next]_vars => EncoderInv'
<1> SUFFICES ASSUME EncoderInv, [Next]_vars PROVE EncoderInv'
  OBVIOUS
<1>1. /\ p \in Setups
      /\ buffered_input \in Seq(Int) /\ src \in Seq(Int) /\ frame \in Seq(Int)
      /\ Len(buffered_input) \in Nat /\ Len(src) \in Nat /\ Len(frame) \in Nat
      /\ content_len \in Nat /\ origin \in Nat
      /\ Len(frame) + Len(buffered_input) + Len(src) <= content_len
      /\ Len(buffered_input) <= push_target(p) /\ rebuilt = FALSE
  BY LenProperties DEF EncoderInv
<1>2. /\ block_size_for(p) \in Nat \ {0} /\ push_target(p) \in Nat \ {0}
      /\ push_target(p) \in {block_size_for(p), block_size_for(p) + 1}
      /\ frame_capacity_for(p) \in Nat
  BY <1>1, Sizes
<1>3. CASE push
  <2>1. PICK n \in p.chunks : /\ src' = [i \in 1..n |-> origin + content_len + i]
                              /\ content_len' = content_len + n
    BY <1>3 DEF push
  <2>2. n \in Nat
    BY <1>1, <2>1, SetupAssumption
  <2>3. src' \in Seq(Int) /\ Len(src') = n
    BY <1>1, <2>1, <2>2
  <2>4. src = << >> /\ Len(buffered_input) < push_target(p)
    BY <1>3 DEF push, EncoderInv
  <2>5. /\ call' = "push" /\ p' = p /\ buffered_input' = buffered_input /\ frame' = frame
        /\ finished' = finished /\ ~finished /\ origin' = origin /\ rebuilt' = rebuilt
    BY <1>3 DEF push, frameVars, historyVars
  <2> QED
    BY <1>1, <1>2, <2>1, <2>2, <2>3, <2>4, <2>5 DEF EncoderInv
<1>4. CASE top_up
  <2> DEFINE take == Least(push_target(p) - Len(buffered_input), Len(src))
  <2>1. /\ buffered_input' = buffered_input \o SubSeq(src, 1, take)
        /\ src' = SubSeq(src, take + 1, Len(src))
        /\ call' = IF Len(buffered_input) + take = push_target(p) THEN "chunk" ELSE "none"
        /\ call = "push"
    BY <1>4 DEF top_up
  <2>2. Len(buffered_input) < push_target(p) /\ ~finished
    BY <2>1 DEF EncoderInv
  <2>3. /\ take \in Nat /\ take <= Len(src) /\ take <= push_target(p) - Len(buffered_input)
        /\ take = Len(src) \/ take = push_target(p) - Len(buffered_input)
    BY <1>1, <1>2, <2>2 DEF Least
  <2> HIDE DEF take
  <2>4. /\ SubSeq(src, 1, take) \in Seq(Int) /\ Len(SubSeq(src, 1, take)) = take
        /\ SubSeq(src, take + 1, Len(src)) \in Seq(Int)
        /\ Len(SubSeq(src, take + 1, Len(src))) = Len(src) - take
    BY <1>1, <2>3, SubSeqProperties
  <2>5. buffered_input' \in Seq(Int) /\ Len(buffered_input') = Len(buffered_input) + take
    BY <1>1, <2>1, <2>4, ConcatProperties
  <2>6. src' \in Seq(Int) /\ Len(src') = Len(src) - take
    BY <2>1, <2>4
  <2>7. \/ call' = "chunk" /\ Len(buffered_input) + take = push_target(p)
        \/ /\ call' = "none" /\ Len(buffered_input) + take < push_target(p)
           /\ src' = << >>
    <3>1. CASE Len(buffered_input) + take = push_target(p)
      BY <2>1, <3>1
    <3>2. CASE Len(buffered_input) + take # push_target(p)
      <4>1. Len(buffered_input) + take < push_target(p) /\ take = Len(src)
        BY <1>1, <1>2, <2>3, <3>2
      <4>2. Len(src') = 0
        BY <1>1, <2>6, <4>1
      <4> QED
        BY <2>1, <2>6, <3>2, <4>1, <4>2, EmptySeq
    <3> QED
      BY <3>1, <3>2
  <2>8. /\ p' = p /\ frame' = frame /\ content_len' = content_len /\ origin' = origin
        /\ finished' = finished /\ rebuilt' = rebuilt
    BY <1>4 DEF top_up, frameVars, historyVars
  <2>9. Len(frame) + Len(buffered_input') + Len(src') <= content_len
    BY <1>1, <2>3, <2>5, <2>6
  <2>10. /\ Len(buffered_input') <= push_target(p)
         /\ call' = "none" => Len(buffered_input') < push_target(p)
         /\ call' = "chunk" => Len(buffered_input') = push_target(p)
         /\ call' \in {"none", "chunk"}
    BY <1>1, <1>2, <2>3, <2>5, <2>7
  <2> QED
    BY <1>1, <2>2, <2>5, <2>6, <2>7, <2>8, <2>9, <2>10 DEF EncoderInv
<1>5. CASE encode_buffered_chunk
  <2>1. /\ call = "chunk" /\ call' = AfterFirstBlock
        /\ p' = p /\ src' = src /\ content_len' = content_len /\ finished' = finished
        /\ origin' = origin
    BY <1>5 DEF encode_buffered_chunk, historyVars
  <2>2. PICK n \in next_block_sizes : encode_buffered_block(n, FALSE, << >>)
    BY <1>5 DEF encode_buffered_chunk
  <2>3. n \in Nat \ {0} /\ n <= block_size_for(p) /\ n <= Len(buffered_input)
    BY <2>1, SplitInRange
  <2>4. /\ buffered_input' \in Seq(Int) /\ Len(buffered_input') = Len(buffered_input) - n
        /\ frame' \in Seq(Int) /\ Len(frame') <= Len(frame) + n
        /\ Len(frame') <= frame_capacity_for(p) /\ rebuilt' = FALSE
    <3>1. frame' = Grown(n) /\ buffered_input' = RestOfBuffer(n) /\ rebuilt' = BlockBegins.rebuilt
      BY <2>2 DEF encode_buffered_block, Grown
    <3> QED
      BY <2>3, <3>1, BlockFits
  <2>5. Len(frame') \in Nat
    BY <2>4, LenProperties
  <2>6. ~finished
    BY <2>1 DEF EncoderInv
  <2>7. Len(buffered_input') <= block_size_for(p) /\ Len(buffered_input') < push_target(p)
    <3>1. Len(buffered_input) \in Nat /\ Len(buffered_input) <= push_target(p)
      BY <1>1
    <3>2. Len(buffered_input') = Len(buffered_input) - n
      BY <2>4
    <3> HIDE DEF push_target, block_size_for
    <3> QED BY <1>2, <2>3, <3>1, <3>2
  <2>8. call' \in {"none", "push", "tail"} /\ (call' = "none" => src = << >>)
    BY <2>1 DEF AfterFirstBlock, AfterChunk
  <2>9. Len(frame') + Len(buffered_input') + Len(src) <= content_len
    BY <1>1, <2>3, <2>4, <2>5
  <2> QED
    BY SMTT(30), <1>1, <1>2, <2>1, <2>4, <2>5, <2>6, <2>7, <2>8, <2>9 DEF EncoderInv
<1>6. CASE encode_chunk_tail
  <2>1. /\ call = "tail" /\ encode_buffered_block(Len(buffered_input), FALSE, << >>)
        /\ call' = AfterChunk
        /\ p' = p /\ src' = src /\ content_len' = content_len /\ finished' = finished
        /\ origin' = origin
    BY <1>6 DEF encode_chunk_tail, historyVars
  <2> PICK take \in Nat : take = Len(buffered_input)
    BY <1>1
  <2>2. frame' = Grown(take) /\ buffered_input' = RestOfBuffer(take) /\ rebuilt' = BlockBegins.rebuilt
    BY <2>1 DEF encode_buffered_block, Grown
  <2>3. /\ buffered_input' \in Seq(Int) /\ Len(buffered_input') = 0
        /\ frame' \in Seq(Int) /\ Len(frame') <= frame_capacity_for(p)
        /\ Len(frame') + Len(buffered_input') + Len(src) <= content_len
        /\ rebuilt' = FALSE
    BY <2>1, <2>2, WholeBufferFits
  <2>4. call' \in {"none", "push"} /\ (call' = "none" => src = << >>) /\ ~finished
    BY <2>1 DEF AfterChunk, EncoderInv
  <2> QED
    BY <1>1, <1>2, <2>1, <2>3, <2>4 DEF EncoderInv
<1>7. CASE flush \/ finish
  <2>1. /\ call = "none" /\ call' = call /\ src = << >>
        /\ \E l, x : encode_buffered_block(Len(buffered_input), l, x)
        /\ p' = p /\ src' = src /\ content_len' = content_len /\ origin' = origin
    BY <1>7 DEF flush, finish, historyVars, EncoderInv
  <2> PICK take \in Nat : take = Len(buffered_input)
    BY <1>1
  <2>2. frame' = Grown(take) /\ buffered_input' = RestOfBuffer(take) /\ rebuilt' = BlockBegins.rebuilt
    BY <2>1 DEF encode_buffered_block, Grown
  <2>3. /\ buffered_input' \in Seq(Int) /\ Len(buffered_input') = 0
        /\ frame' \in Seq(Int) /\ Len(frame') <= frame_capacity_for(p)
        /\ Len(frame') + Len(buffered_input') + Len(src) <= content_len
        /\ rebuilt' = FALSE
    BY <2>1, <2>2, WholeBufferFits
  <2> QED
    BY <1>1, <1>2, <2>1, <2>3 DEF EncoderInv
<1>8. CASE reset
  <2>1. /\ call' = call /\ p' = p /\ src' = src /\ buffered_input' = << >> /\ frame' = << >>
        /\ content_len' = 0 /\ origin' = origin + content_len /\ rebuilt' = FALSE
        /\ finished /\ finished' = FALSE
    BY <1>8 DEF reset
  <2>2. call = "none" /\ src = << >>
    BY <2>1 DEF EncoderInv
  <2> QED
    BY <1>1, <1>2, <2>1, <2>2 DEF EncoderInv
<1>9. CASE read \/ take_output \/ UNCHANGED vars
  <2>1. /\ p' = p /\ buffered_input' = buffered_input /\ src' = src /\ call' = call
        /\ frame' = frame /\ content_len' = content_len /\ finished' = finished
        /\ origin' = origin /\ rebuilt' = rebuilt
    BY <1>9 DEF read, take_output, vars, frameVars, historyVars
  <2> QED
    BY <2>1 DEF EncoderInv
<1> QED
  BY <1>3, <1>4, <1>5, <1>6, <1>7, <1>8, <1>9 DEF Next

\* EncoderInv is an invariant of the encoder.
THEOREM EncoderInvariance == Spec => []EncoderInv
BY InitInv, StepInv, PTL DEF Spec

\* The buffer never outgrows frame_capacity_for, nor, while the pledge is kept, the
\* positions the finder's tables were built to hold.
THEOREM CapacitySufficient == Spec => []FrameWithinCapacity
<1>1. EncoderInv => FrameWithinCapacity
  <2> SUFFICES ASSUME EncoderInv PROVE FrameWithinCapacity
    OBVIOUS
  <2>1. /\ p \in Setups /\ Len(frame) <= frame_capacity_for(p) /\ Len(frame) \in Nat
        /\ Len(buffered_input) \in Nat /\ Len(src) \in Nat /\ content_len \in Nat
        /\ Len(frame) + Len(buffered_input) + Len(src) <= content_len
    BY LenProperties DEF EncoderInv
  <2>2. p.pledged_src_size \in Nat \cup {None} /\ frame_capacity_for(p) \in Nat
    BY <2>1, SetupAssumption, Sizes
  <2> QED
    BY <2>1, <2>2
    DEF FrameWithinCapacity, PledgeNotExceeded, match_position_limit_for, Least, None
<1> QED
  BY <1>1, EncoderInvariance, PTL

\* A compaction never finds a contiguous finder it cannot rebase: compact_frame's
\* rebuild is reached from a prefixed state only.
THEOREM ContiguousAlwaysRebases == Spec => []AlwaysRebases
<1>1. EncoderInv => AlwaysRebases
  BY DEF EncoderInv, AlwaysRebases
<1> QED
  BY <1>1, EncoderInvariance, PTL

-----------------------------------------------------------------------------
\* Bytes in a row.

\* The n bytes of the stream behind the first `from`.
Run(from, n) == [i \in 1..n |-> from + i]

\* A run is a sequence of its length.
LEMMA RunIs ==
  ASSUME NEW from \in Int, NEW n \in Nat
  PROVE  /\ Run(from, n) \in Seq(Int) /\ Len(Run(from, n)) = n
         /\ \A i \in 1..n : Run(from, n)[i] = from + i
BY DEF Run

\* What is a run is the run of its length.
LEMMA IsRun ==
  ASSUME NEW from \in Int, NEW n \in Nat, NEW s \in Seq(Int), Len(s) = n,
         \A i \in 1..n : s[i] = from + i
  PROVE  s = Run(from, n)
BY DEF Run

\* Runs that follow each other make one.
LEMMA RunOfRuns ==
  ASSUME NEW from \in Int, NEW n \in Nat, NEW m \in Nat
  PROVE  Run(from, n) \o Run(from + n, m) = Run(from, n + m)
<1> DEFINE a == Run(from, n)
           b == Run(from + n, m)
           s == a \o b
<1>1. /\ a \in Seq(Int) /\ Len(a) = n /\ \A i \in 1..n : a[i] = from + i
  BY RunIs
<1>2. /\ b \in Seq(Int) /\ Len(b) = m /\ \A i \in 1..m : b[i] = from + n + i
  BY RunIs
<1> HIDE DEF a, b
<1>3. s \in Seq(Int) /\ Len(s) = n + m
  BY <1>1, <1>2, ConcatProperties
<1>4. ASSUME NEW i \in 1..(n + m) PROVE s[i] = from + i
  <2>1. CASE i <= n
    <3>1. i \in 1..n /\ s[i] = a[i]
      BY <2>1, <1>1, <1>2
    <3> QED BY <3>1, <1>1
  <2>2. CASE i > n
    <3>1. i - n \in 1..m /\ s[i] = b[i - n]
      BY <2>2, <1>1, <1>2
    <3> QED BY <3>1, <1>2
  <2> HIDE DEF s
  <2> QED BY <2>1, <2>2
<1> HIDE DEF s
<1>5. s = Run(from, n + m)
  BY <1>3, <1>4, IsRun
<1> QED BY <1>5 DEF s, a, b

\* The parts of a run are runs.
LEMMA RunCut ==
  ASSUME NEW from \in Int, NEW n \in Nat, NEW k \in 0..n
  PROVE  /\ SubSeq(Run(from, n), 1, k) = Run(from, k)
         /\ SubSeq(Run(from, n), k + 1, n) = Run(from + k, n - k)
<1> DEFINE s == Run(from, n)
           a == SubSeq(s, 1, k)
           b == SubSeq(s, k + 1, n)
<1>1. s \in Seq(Int) /\ Len(s) = n /\ \A i \in 1..n : s[i] = from + i
  BY RunIs
<1> HIDE DEF s
<1>2. a \in Seq(Int) /\ Len(a) = k /\ \A i \in 1..k : a[i] = from + i
  BY <1>1
<1>3. b \in Seq(Int) /\ Len(b) = n - k /\ \A i \in 1..(n - k) : b[i] = from + k + i
  BY <1>1
<1> HIDE DEF a, b
<1>4. a = Run(from, k)
  BY <1>2, IsRun
<1>5. b = Run(from + k, n - k)
  BY <1>3, IsRun
<1> QED BY <1>4, <1>5 DEF a, b, s

\* An empty run.
LEMMA RunOfNone == ASSUME NEW from \in Int PROVE Run(from, 0) = << >>
<1>1. Run(from, 0) \in Seq(Int) /\ Len(Run(from, 0)) = 0
  BY RunIs
<1> QED BY <1>1

-----------------------------------------------------------------------------
\* Where every byte of the frame is.

\* The frame's bytes that went out in blocks, and those that wait for one.
emitted == Len(wire.content)
waiting == Len(buffered_input)

\* What went out, what waits in buffered_input and what push still holds are one run,
\* the frame's content; the kept history is the end of what went out, a window of it.
BytesInv ==
  /\ wire = [header |-> wire.header, blocks |-> wire.blocks, content |-> wire.content,
             digest |-> wire.digest]
  /\ emitted \in Nat /\ wire.content = Run(origin, emitted)
  /\ buffered_input = Run(origin + emitted, waiting)
  /\ src = Run(origin + emitted + waiting, Len(src))
  /\ emitted + waiting + Len(src) = content_len
  /\ Len(frame) <= emitted /\ frame = Run(origin + emitted - Len(frame), Len(frame))
  /\ Len(frame) >= Least(emitted, history_limit_for(p))
  /\ wire.header = FrameHeader(p)
  /\ p.checksum => checksum = FrameContent
  /\ finished => buffered_input = << >>
  /\ content_len <= p.max_content

\* The digest that goes out with a block, or none.
Digests == {<< >>, <<checksum>>}

\* One block goes out: take bytes of the buffer, all of it when it is the frame's last
\* or the rest of a chunk.
Emits(take, last_block, digest) ==
  /\ take <= block_size_for(p) /\ take <= waiting
  /\ encode_buffered_block(take, last_block, digest)
  /\ UNCHANGED <<p, src, checksum, content_len, output_pos, taken, historyVars>>
  /\ ~finished /\ (finished' <=> last_block)
  /\ IF last_block
     THEN /\ take = waiting /\ PledgeKept /\ src = << >> /\ call' = call
          /\ digest = IF p.checksum THEN <<checksum>> ELSE << >>
     ELSE digest = << >>
  /\ \/ call = "chunk" /\ ~last_block /\ call' = AfterFirstBlock /\ flushed' = flushed
     \/ call = "tail" /\ ~last_block /\ take = waiting /\ call' = AfterChunk /\ flushed' = flushed
     \/ call = "none" /\ ~last_block /\ flushed'
     \/ call = "none" /\ last_block /\ flushed' = flushed

\* chunk, tail, flush and finish are that.
LEMMA EmittingSteps ==
  ASSUME EncoderInv, encode_buffered_chunk \/ encode_chunk_tail \/ flush \/ finish
  PROVE  \E take \in Nat, last_block \in BOOLEAN, digest \in Digests : Emits(take, last_block, digest)
<1>0. /\ p \in Setups /\ waiting \in Nat
      /\ block_size_for(p) \in Nat /\ push_target(p) \in {block_size_for(p), block_size_for(p) + 1}
  BY Sizes, LenProperties DEF EncoderInv, waiting
<1>d. << >> \in Digests /\ <<checksum>> \in Digests
  BY DEF Digests
<1>1. CASE encode_buffered_chunk
  <2>1. PICK n \in next_block_sizes : encode_buffered_block(n, FALSE, << >>)
    BY <1>1 DEF encode_buffered_chunk
  <2>2. n \in Nat /\ n <= block_size_for(p) /\ n <= waiting
    BY <1>1, <2>1, SplitInRange DEF encode_buffered_chunk, waiting
  <2>3. ~finished /\ ~finished' /\ call = "chunk"
    BY <1>1 DEF encode_buffered_chunk, EncoderInv
  <2>4. Emits(n, FALSE, << >>)
    BY <1>1, <2>1, <2>2, <2>3 DEF Emits, encode_buffered_chunk
  <2> QED BY <1>d, <2>2, <2>4
<1>2. waiting <= waiting
  BY <1>0
<1>3. CASE encode_chunk_tail
  <2>1. waiting <= block_size_for(p) /\ ~finished /\ ~finished' /\ call = "tail"
    BY <1>3 DEF encode_chunk_tail, EncoderInv, waiting
  <2>2. encode_buffered_block(waiting, FALSE, << >>)
    BY <1>3 DEF encode_chunk_tail, waiting
  <2>3. /\ UNCHANGED <<p, src, checksum, content_len, output_pos, taken, historyVars>>
        /\ call' = AfterChunk /\ flushed' = flushed
    BY <1>3 DEF encode_chunk_tail
  <2>4. Emits(waiting, FALSE, << >>)
    BY <1>2, <2>1, <2>2, <2>3 DEF Emits
  <2> QED BY <1>0, <1>d, <2>4
<1>4. CASE flush
  <2>1. waiting <= block_size_for(p) /\ ~finished /\ ~finished' /\ call = "none"
    <3>1. waiting < push_target(p) /\ ~finished /\ ~finished' /\ call = "none"
      BY <1>4 DEF flush, EncoderInv, waiting
    <3> QED BY <1>0, <3>1
  <2>2. encode_buffered_block(waiting, FALSE, << >>)
    BY <1>4 DEF flush, waiting
  <2>3. /\ UNCHANGED <<p, src, checksum, content_len, output_pos, taken, historyVars>>
        /\ flushed'
    BY <1>4 DEF flush
  <2>4. Emits(waiting, FALSE, << >>)
    BY <1>2, <2>1, <2>2, <2>3 DEF Emits
  <2> QED BY <1>0, <1>d, <2>4
<1>5. CASE finish
  <2> DEFINE digest == IF p.checksum THEN <<checksum>> ELSE << >>
  <2>1. waiting <= block_size_for(p) /\ ~finished /\ finished' /\ call = "none" /\ src = << >>
    <3>1. waiting < push_target(p) /\ ~finished /\ finished' /\ call = "none" /\ src = << >>
      BY <1>5 DEF finish, EncoderInv, waiting
    <3> QED BY <1>0, <3>1
  <2>2. encode_buffered_block(waiting, TRUE, digest)
    BY <1>5 DEF finish, waiting
  <2>3. /\ UNCHANGED <<p, src, checksum, content_len, output_pos, taken, historyVars>>
        /\ call' = call /\ flushed' = flushed /\ PledgeKept
    BY <1>5 DEF finish
  <2>4. Emits(waiting, TRUE, digest)
    BY <1>2, <2>1, <2>2, <2>3 DEF Emits
  <2>5. digest \in Digests
    BY <1>d
  <2> QED BY <1>0, <2>4, <2>5
<1> QED BY <1>1, <1>3, <1>4, <1>5

\* What a block that goes out does.
LEMMA EmitsIs ==
  ASSUME BytesInv, NEW take \in Nat, NEW last_block \in BOOLEAN, NEW digest,
         Emits(take, last_block, digest)
  PROVE  /\ frame' = Grown(take) /\ buffered_input' = RestOfBuffer(take)
         /\ ldm' = LdmAfter(BlockBegins, Grown(take), Len(BlockBegins.frame))
         /\ output_len' = output_len + FrameBytes(wire') - FrameBytes(wire)
         /\ \E r \in Routes(take) :
              /\ match_state' \in AfterBlock(p, BlockBegins.match_state, Grown(take),
                                             Len(BlockBegins.frame), r.route)
              /\ wire' = [header |-> wire.header,
                          blocks |-> wire.blocks \o Emitted(take, r.kind, last_block),
                          content |-> wire.content \o SubSeq(buffered_input, 1, take),
                          digest |-> digest]
<1>1. encode_buffered_block(take, last_block, digest)
  BY DEF Emits
<1>2. PICK r \in Routes(take) :
        /\ match_state' \in AfterBlock(p, BlockBegins.match_state, Grown(take),
                                       Len(BlockBegins.frame), r.route)
        /\ wire' = [wire EXCEPT !.blocks = @ \o Emitted(take, r.kind, last_block),
                                !.digest = digest,
                                !.content = @ \o SubSeq(buffered_input, 1, take)]
  BY <1>1 DEF encode_buffered_block, Grown
<1>3. wire' = [header |-> wire.header,
               blocks |-> wire.blocks \o Emitted(take, r.kind, last_block),
               content |-> wire.content \o SubSeq(buffered_input, 1, take),
               digest |-> digest]
  BY <1>2 DEF BytesInv
<1> QED BY <1>1, <1>2, <1>3 DEF encode_buffered_block, Grown

\* The history a block begins behind is still the end of what went out, and a window.
LEMMA BeginsRun ==
  ASSUME EncoderInv, BytesInv
  PROVE  /\ BlockBegins.frame \in Seq(Int) /\ Len(BlockBegins.frame) \in Nat
         /\ Len(BlockBegins.frame) <= emitted
         /\ Len(BlockBegins.frame) >= Least(emitted, history_limit_for(p))
         /\ BlockBegins.frame
              = Run(origin + emitted - Len(BlockBegins.frame), Len(BlockBegins.frame))
<1> PICK n \in Nat : n = Len(frame)
  BY LenProperties DEF EncoderInv
<1> PICK L \in Nat \ {0} : L = history_limit_for(p)
  BY Sizes DEF EncoderInv
<1>1. /\ p \in Setups /\ frame \in Seq(Int) /\ n <= frame_capacity_for(p)
      /\ origin \in Int /\ emitted \in Nat
      /\ n <= emitted /\ frame = Run(origin + emitted - n, n) /\ n >= Least(emitted, L)
  BY DEF EncoderInv, BytesInv
<1>5. origin \in Int /\ emitted \in Nat /\ n <= emitted
  BY <1>1
<1>2. BlockBegins.frame \in Seq(Int)
  BY BlockBeginsFits
<1>3. CASE ~must_compact(p, n)
  <2>1. BlockBegins.frame = frame
    BY <1>3 DEF BlockBegins
  <2> QED BY <1>1, <2>1
<1>4. CASE must_compact(p, n)
  <2>1. PICK dropped \in Nat : dropped = compact_drop(p, n)
    BY <1>1, <1>4, CompactionFits
  <2>2. dropped <= n - L
    BY <1>1, <1>4, <2>1, CompactionFits
  <2>3. BlockBegins.frame = SubSeq(frame, dropped + 1, n)
    BY <1>4, <2>1 DEF BlockBegins, compact_frame
  <2>4. BlockBegins.frame = Run(origin + emitted - n + dropped, n - dropped)
    <3>1. PICK from \in Int : from = origin + emitted - n
      BY <1>5
    <3>2. dropped \in 0..n
      BY <2>2
    <3>3. SubSeq(Run(from, n), dropped + 1, n) = Run(from + dropped, n - dropped)
      BY <3>2, RunCut
    <3> QED BY <1>1, <2>3, <3>1, <3>3
  <2>5. Len(BlockBegins.frame) = n - dropped
    <3>1. PICK from : from = origin + emitted - n + dropped
      OBVIOUS
    <3>2. from \in Int
      BY <1>5, <3>1
    <3>3. n - dropped \in Nat
      BY <2>2
    <3>4. Len(Run(from, n - dropped)) = n - dropped
      BY <3>2, <3>3, RunIs
    <3> QED BY <2>4, <3>1, <3>4
  <2>6. origin + emitted - n + dropped = origin + emitted - (n - dropped)
    BY <1>1, <2>2
  <2>7. n - dropped \in Nat /\ n - dropped <= emitted /\ n - dropped >= Least(emitted, L)
    BY <1>1, <2>2 DEF Least
  <2> QED BY <1>2, <2>4, <2>5, <2>6, <2>7
<1> QED BY <1>3, <1>4

\* A block moves its bytes from the buffer to what went out and to the history.
LEMMA EmitMoves ==
  ASSUME EncoderInv, BytesInv, NEW take \in Nat, NEW last_block \in BOOLEAN, NEW digest,
         Emits(take, last_block, digest)
  PROVE  /\ emitted' = emitted + take /\ waiting' = waiting - take
         /\ wire'.content = Run(origin, emitted + take)
         /\ buffered_input' = Run(origin + emitted + take, waiting - take)
         /\ frame' \in Seq(Int) /\ Len(frame') = Len(BlockBegins.frame) + take
         /\ frame' = Run(origin + emitted + take - Len(frame'), Len(frame'))
<1> DEFINE old == BlockBegins.frame
<1>0. /\ emitted \in Nat /\ waiting \in Nat /\ origin \in Int /\ take <= waiting
      /\ buffered_input = Run(origin + emitted, waiting) /\ wire.content = Run(origin, emitted)
  BY LenProperties DEF EncoderInv, BytesInv, waiting, Emits
<1>1. PICK e \in Int : e = origin + emitted
  BY <1>0
<1>2. /\ SubSeq(buffered_input, 1, take) = Run(e, take)
      /\ SubSeq(buffered_input, take + 1, waiting) = Run(e + take, waiting - take)
  <2>1. take \in 0..waiting
    BY <1>0
  <2> QED BY <1>0, <1>1, <2>1, RunCut
<1>3. buffered_input' = Run(e + take, waiting - take)
  BY <1>2, EmitsIs DEF RestOfBuffer, waiting
<1>4. wire'.content = Run(origin, emitted + take)
  <2>1. wire'.content = wire.content \o SubSeq(buffered_input, 1, take)
    <3>1. PICK r \in Routes(take) :
            wire' = [header |-> wire.header,
                     blocks |-> wire.blocks \o Emitted(take, r.kind, last_block),
                     content |-> wire.content \o SubSeq(buffered_input, 1, take),
                     digest |-> digest]
      BY EmitsIs
    <3> QED BY <3>1
  <2>2. Run(origin, emitted) \o Run(origin + emitted, take) = Run(origin, emitted + take)
    BY <1>0, RunOfRuns
  <2> QED BY <1>0, <1>1, <1>2, <2>1, <2>2
<1>5. emitted' = emitted + take
  <2>1. PICK m \in Nat : m = emitted + take
    BY <1>0
  <2>2. Len(Run(origin, m)) = m
    BY <1>0, RunIs
  <2> QED BY <1>4, <2>1, <2>2 DEF emitted
<1>6. waiting' = waiting - take
  <2>1. PICK m \in Nat : m = waiting - take
    BY <1>0
  <2>2. PICK f \in Int : f = e + take
    BY <1>1
  <2>3. Len(Run(f, m)) = m
    BY RunIs
  <2> QED BY <1>3, <2>1, <2>2, <2>3 DEF waiting
<1>7. PICK n \in Nat : n = Len(old)
  BY BeginsRun
<1>8. frame' = Run(e - n, n + take)
  <2>1. frame' = old \o Run(e, take)
    BY <1>2, EmitsIs DEF Grown
  <2>2. old = Run(e - n, n)
    <3>1. old = Run(origin + emitted - n, n)
      BY <1>7, BeginsRun
    <3>2. origin + emitted - n = e - n
      BY <1>0, <1>1
    <3> QED BY <3>1, <3>2
  <2>3. PICK f \in Int : f = e - n
    BY <1>1
  <2>4. Run(f, n) \o Run(f + n, take) = Run(f, n + take)
    BY RunOfRuns
  <2>5. f + n = e
    BY <1>1, <2>3
  <2> QED BY <2>1, <2>2, <2>3, <2>4, <2>5
<1>9. frame' \in Seq(Int) /\ Len(frame') = n + take
  <2>1. PICK m \in Nat : m = n + take
    OBVIOUS
  <2>2. PICK f \in Int : f = e - n
    BY <1>1
  <2> QED BY <1>8, <2>1, <2>2, RunIs
<1>10. frame' = Run(e + take - Len(frame'), Len(frame'))
  <2>1. e - n = e + take - (n + take)
    BY <1>1
  <2> QED BY <1>8, <1>9, <2>1
<1> QED BY <1>1, <1>3, <1>4, <1>5, <1>6, <1>7, <1>9, <1>10

\* push takes its bytes.
LEMMA PushBytes == ASSUME EncoderInv, BytesInv, push PROVE BytesInv'
<1>1. PICK n \in p.chunks : /\ content_len + n <= p.max_content
                            /\ src' = [i \in 1..n |-> origin + content_len + i]
                            /\ checksum' = IF p.checksum THEN checksum \o src' ELSE checksum
                            /\ content_len' = content_len + n
  BY DEF push
<1>2. n \in Nat /\ content_len \in Nat /\ origin \in Int /\ waiting \in Nat /\ emitted \in Nat
  <2>1. n \in Nat
    BY <1>1, SetupAssumption DEF EncoderInv
  <2>2. content_len \in Nat /\ origin \in Int /\ waiting \in Nat /\ emitted \in Nat
    BY LenProperties DEF EncoderInv, BytesInv, waiting
  <2> QED BY <2>1, <2>2
<1>3. src' = Run(origin + content_len, n)
  BY <1>1 DEF Run
<1>4. Len(src') = n
  <2>1. PICK f : f = origin + content_len
    OBVIOUS
  <2>2. f \in Int
    BY <1>2, <2>1
  <2> QED BY <1>2, <1>3, <2>1, <2>2, RunIs
<1>5. emitted + waiting = content_len
  <2>1. src = << >> /\ emitted + waiting + Len(src) = content_len
    BY DEF push, EncoderInv, BytesInv
  <2>2. Len(src) = 0
    BY <2>1
  <2> QED BY <1>2, <2>1, <2>2
<1>6. /\ p' = p /\ buffered_input' = buffered_input /\ frame' = frame /\ wire' = wire
      /\ finished' = finished /\ origin' = origin /\ ~finished
  BY DEF push, frameVars, historyVars
<1>7. emitted' = emitted /\ waiting' = waiting
  BY <1>6 DEF emitted, waiting
<1>8. p.checksum => checksum' = FrameContent'
  <2> SUFFICES ASSUME p.checksum PROVE checksum' = FrameContent'
    OBVIOUS
  <2>1. checksum = Run(origin, content_len)
    BY DEF BytesInv, FrameContent, Run
  <2>2. Run(origin, content_len) \o Run(origin + content_len, n) = Run(origin, content_len + n)
    BY <1>2, RunOfRuns
  <2>3. FrameContent' = Run(origin, content_len + n)
    BY <1>1, <1>6 DEF FrameContent, Run
  <2> QED BY <1>1, <1>3, <2>1, <2>2, <2>3
<1>9. src' = Run(origin + emitted + waiting, Len(src'))
  BY <1>2, <1>3, <1>4, <1>5
<1>10. emitted + waiting + Len(src') = content_len' /\ content_len' <= p.max_content
  BY <1>1, <1>2, <1>4, <1>5
<1> QED BY <1>6, <1>7, <1>8, <1>9, <1>10 DEF BytesInv

\* push fills the buffer.
LEMMA TopUpBytes == ASSUME EncoderInv, BytesInv, top_up PROVE BytesInv'
<1>1. /\ emitted \in Nat /\ waiting \in Nat /\ origin \in Int
      /\ Len(src) \in Nat /\ waiting < push_target(p) /\ push_target(p) \in Nat /\ ~finished
  <2>1. p \in Setups /\ push_target(p) \in {block_size_for(p), block_size_for(p) + 1}
        /\ block_size_for(p) \in Nat
    BY Sizes DEF EncoderInv
  <2>2. push_target(p) \in Nat
    BY <2>1
  <2> QED BY <2>2, LenProperties DEF EncoderInv, BytesInv, waiting, top_up
<1>2. PICK take \in 0..Len(src) : /\ take = Least(push_target(p) - Len(buffered_input), Len(src))
  <2>1. Least(push_target(p) - Len(buffered_input), Len(src)) \in 0..Len(src)
    BY <1>1 DEF Least, waiting
  <2> QED BY <2>1
<1>3. /\ buffered_input' = buffered_input \o SubSeq(src, 1, take)
      /\ src' = SubSeq(src, take + 1, Len(src))
  BY <1>2 DEF top_up
<1>4. /\ p' = p /\ frame' = frame /\ wire' = wire /\ finished' = finished /\ origin' = origin
      /\ content_len' = content_len /\ checksum' = checksum
  BY DEF top_up, frameVars, historyVars
<1>5. PICK e : e = origin + emitted
  OBVIOUS
<1>6. PICK n \in Nat : n = Len(src)
  BY <1>1
<1>7. e \in Int /\ e + waiting \in Int /\ take \in 0..n /\ take \in Nat
  BY <1>1, <1>2, <1>5, <1>6
<1>8. buffered_input = Run(e, waiting) /\ src = Run(e + waiting, n)
      /\ emitted + waiting + n = content_len
  BY <1>5, <1>6 DEF BytesInv
<1>9. SubSeq(src, 1, take) = Run(e + waiting, take) /\ src' = Run(e + waiting + take, n - take)
  <2>1. PICK f : f = e + waiting
    OBVIOUS
  <2>2. /\ SubSeq(Run(f, n), 1, take) = Run(f, take)
        /\ SubSeq(Run(f, n), take + 1, n) = Run(f + take, n - take)
    BY <1>7, <2>1, RunCut
  <2> QED BY <1>3, <1>6, <1>8, <2>1, <2>2
<1>10. buffered_input' = Run(e, waiting + take)
  <2>1. Run(e, waiting) \o Run(e + waiting, take) = Run(e, waiting + take)
    BY <1>1, <1>7, RunOfRuns
  <2> QED BY <1>3, <1>8, <1>9, <2>1
<1>11. waiting' = waiting + take
  <2>1. Len(Run(e, waiting + take)) = waiting + take
    BY <1>1, <1>7, RunIs
  <2> QED BY <1>10, <2>1 DEF waiting
<1>12. Len(src') = n - take
  <2>1. e + waiting + take \in Int /\ n - take \in Nat
    BY <1>1, <1>7
  <2>2. Len(Run(e + waiting + take, n - take)) = n - take
    BY <2>1, RunIs
  <2> QED BY <1>9, <2>2
<1>13. emitted' = emitted /\ FrameContent' = FrameContent
  BY <1>4 DEF emitted, FrameContent
<1>14. src' = Run(e + waiting', Len(src'))
  <2>1. e + waiting + take = e + (waiting + take)
    BY <1>1, <1>7
  <2> QED BY <1>9, <1>11, <1>12, <2>1
<1>15. emitted + waiting' + Len(src') = content_len
  BY <1>1, <1>7, <1>8, <1>11, <1>12
<1>16. e + waiting' = origin + emitted + waiting'
  BY <1>5
<1> QED BY <1>1, <1>4, <1>5, <1>10, <1>11, <1>13, <1>14, <1>15, <1>16 DEF BytesInv

\* A block goes out.
LEMMA EmitBytes ==
  ASSUME EncoderInv, BytesInv, NEW take \in Nat, NEW last_block \in BOOLEAN, NEW digest,
         Emits(take, last_block, digest)
  PROVE  BytesInv'
<1>1. /\ p' = p /\ src' = src /\ checksum' = checksum /\ content_len' = content_len
      /\ origin' = origin
  BY DEF Emits, historyVars
<1>2. /\ emitted \in Nat /\ waiting \in Nat /\ origin \in Int /\ take <= waiting /\ Len(src) \in Nat
      /\ src = Run(origin + emitted + waiting, Len(src))
      /\ emitted + waiting + Len(src) = content_len
  BY LenProperties DEF EncoderInv, BytesInv, waiting, Emits
<1>3. /\ emitted' = emitted + take /\ waiting' = waiting - take
      /\ wire'.content = Run(origin, emitted + take)
      /\ buffered_input' = Run(origin + emitted + take, waiting - take)
      /\ frame' = Run(origin + emitted + take - Len(frame'), Len(frame'))
  BY EmitMoves
<1>4. /\ wire' = [header |-> wire'.header, blocks |-> wire'.blocks, content |-> wire'.content,
                  digest |-> wire'.digest]
      /\ wire'.header = wire.header
  <2>1. PICK r \in Routes(take) :
          wire' = [header |-> wire.header,
                   blocks |-> wire.blocks \o Emitted(take, r.kind, last_block),
                   content |-> wire.content \o SubSeq(buffered_input, 1, take),
                   digest |-> digest]
    BY EmitsIs
  <2> QED BY <2>1
<1>5. /\ Len(frame') <= emitted + take
      /\ Len(frame') >= Least(emitted + take, history_limit_for(p))
  <2>1. PICK m \in Nat : m = Len(BlockBegins.frame)
    BY BeginsRun
  <2>2. m <= emitted /\ m >= Least(emitted, history_limit_for(p)) /\ Len(frame') = m + take
    BY <2>1, BeginsRun, EmitMoves
  <2>3. history_limit_for(p) \in Nat
    BY Sizes DEF EncoderInv
  <2> QED BY <1>2, <2>2, <2>3 DEF Least
<1>6. finished' => buffered_input' = << >>
  <2> SUFFICES ASSUME finished' PROVE buffered_input' = << >>
    OBVIOUS
  <2>1. PICK f : f = origin + emitted + take
    OBVIOUS
  <2>2. f \in Int /\ waiting - take = 0
    <3>1. take = waiting
      BY DEF Emits
    <3> QED BY <1>2, <2>1, <3>1
  <2> QED BY <1>3, <2>1, <2>2, RunOfNone
<1>7. wire'.header = FrameHeader(p) /\ content_len <= p.max_content
      /\ (p.checksum => checksum = FrameContent) /\ FrameContent' = FrameContent
  BY <1>1, <1>4 DEF BytesInv, FrameContent
<1>8. emitted' \in Nat /\ src = Run(origin + emitted' + waiting', Len(src))
      /\ emitted' + waiting' + Len(src) = content_len
  <2>1. origin + emitted + waiting = origin + (emitted + take) + (waiting - take)
    BY <1>2
  <2> QED BY <1>2, <1>3, <2>1
<1>9. /\ origin + emitted + take - Len(frame') = origin + emitted' - Len(frame')
      /\ origin + emitted + take = origin + emitted'
  <2>1. origin + emitted + take = origin + emitted'
    BY <1>2, <1>3
  <2>2. Len(frame') \in Nat
    BY EmitMoves, LenProperties
  <2>3. origin + emitted + take - Len(frame') = origin + emitted' - Len(frame')
    BY <1>2, <1>3, <2>2
  <2> QED BY <2>1, <2>3
<1>10. /\ wire'.content = Run(origin, emitted')
       /\ buffered_input' = Run(origin + emitted', waiting')
       /\ frame' = Run(origin + emitted' - Len(frame'), Len(frame'))
       /\ Len(frame') <= emitted' /\ Len(frame') >= Least(emitted', history_limit_for(p))
  BY <1>3, <1>5, <1>9
<1> QED BY <1>1, <1>4, <1>6, <1>7, <1>8, <1>10 DEF BytesInv

\* A frame as it begins.
FrameBegins ==
  /\ p \in Setups /\ origin \in Int /\ wire = EmptyWire(p) /\ buffered_input = << >>
  /\ src = << >> /\ frame = << >> /\ checksum = << >> /\ content_len = 0 /\ ~finished

\* A frame that begins has none of its bytes anywhere.
LEMMA FreshBytes == FrameBegins => BytesInv
<1> SUFFICES ASSUME FrameBegins PROVE BytesInv
  OBVIOUS
<1> USE DEF FrameBegins
<1> PICK o \in Int : o = origin
  OBVIOUS
<1>1. emitted = 0 /\ waiting = 0 /\ Len(src) = 0 /\ Len(frame) = 0
  BY DEF emitted, waiting, EmptyWire
<1>2. Run(o, 0) = << >>
  BY RunOfNone
<1>3. FrameContent = << >>
  BY <1>2 DEF FrameContent, Run
<1>4. history_limit_for(p) \in Nat /\ p.max_content \in Nat
  BY Sizes, SetupAssumption
<1>5. origin + emitted = o /\ origin + emitted + waiting = o /\ origin + emitted - Len(frame) = o
  BY <1>1
<1>6. wire.content = << >> /\ wire.header = FrameHeader(p)
      /\ wire = [header |-> wire.header, blocks |-> wire.blocks, content |-> wire.content,
                 digest |-> wire.digest]
  BY DEF EmptyWire
<1> QED BY <1>1, <1>2, <1>3, <1>4, <1>5, <1>6 DEF BytesInv, Least

\* Nothing but the output queue moves.
LEMMA IdleSteps ==
  ASSUME read \/ take_output \/ UNCHANGED vars
  PROVE  UNCHANGED <<p, buffered_input, src, call, frame, match_state, ldm, checksum, savings,
                     content_len, finished, wire, behind, origin, frames, flushed, rebuilt>>
BY DEF read, take_output, vars, frameVars, historyVars

\* Every step keeps the bytes in a row.
LEMMA BytesStep == EncoderInv /\ BytesInv /\ [Next]_vars => BytesInv'
<1> SUFFICES ASSUME EncoderInv, BytesInv, [Next]_vars PROVE BytesInv'
  OBVIOUS
<1>1. CASE encode_buffered_chunk \/ encode_chunk_tail \/ flush \/ finish
  <2>1. PICK take \in Nat, last_block \in BOOLEAN, digest \in Digests : Emits(take, last_block, digest)
    BY <1>1, EmittingSteps
  <2> QED BY <2>1, EmitBytes
<1>2. CASE reset
  <2>1. /\ p' = p /\ wire' = EmptyWire(p) /\ buffered_input' = << >> /\ src' = src
        /\ frame' = << >> /\ checksum' = << >> /\ content_len' = 0 /\ ~finished'
        /\ origin' = origin + content_len
    BY <1>2 DEF reset
  <2>2. src = << >> /\ p \in Setups /\ origin + content_len \in Int
    BY <1>2 DEF reset, EncoderInv
  <2>3. EmptyWire(p)' = EmptyWire(p)
    BY <2>1 DEF EmptyWire, FrameHeader, history_limit_for
  <2>4. FrameBegins'
    BY <2>1, <2>2, <2>3 DEF FrameBegins
  <2> QED BY <2>4, FreshBytes, PTL
<1>3. CASE read \/ take_output \/ UNCHANGED vars
  <2>1. UNCHANGED <<p, buffered_input, src, frame, checksum, content_len, finished, wire, origin>>
    BY <1>3, IdleSteps
  <2>2. emitted' = emitted /\ waiting' = waiting /\ FrameContent' = FrameContent
    BY <2>1 DEF emitted, waiting, FrameContent
  <2> QED BY <2>1, <2>2 DEF BytesInv
<1> QED BY <1>1, <1>2, <1>3, PushBytes, TopUpBytes DEF Next

\* And so they are at first.
LEMMA BytesInit == Init => BytesInv
<1> SUFFICES ASSUME Init PROVE BytesInv
  OBVIOUS
<1>1. /\ p \in Setups /\ wire = EmptyWire(p) /\ buffered_input = << >>
      /\ src = << >> /\ frame = << >> /\ checksum = << >> /\ content_len = 0 /\ ~finished
      /\ origin = 0
  BY DEF Init
<1> QED BY <1>1, FreshBytes DEF FrameBegins

\* Every byte that write was given is in one place, and in its order: sent, waiting in
\* buffered_input, or still in the hands of push.
THEOREM BytesInvariance == Spec => [](EncoderInv /\ BytesInv)
BY InitInv, StepInv, BytesInit, BytesStep, PTL DEF Spec

\* The kept history is the end of what went out, never less of it than a window.
THEOREM WindowIsKept == Spec => []HistoryKept
<1>1. EncoderInv /\ BytesInv => HistoryKept
  <2> SUFFICES ASSUME EncoderInv, BytesInv PROVE HistoryKept
    OBVIOUS
  <2>1. PICK n \in Nat : n = Len(frame)
    BY LenProperties DEF EncoderInv
  <2>2. PICK e \in Nat : e = emitted
    BY DEF BytesInv
  <2>3. origin \in Int /\ n <= e /\ wire.content = Run(origin, e)
        /\ frame = Run(origin + e - n, n) /\ n >= Least(e, history_limit_for(p))
    BY <2>1, <2>2 DEF EncoderInv, BytesInv
  <2>4. PICK k \in 0..e : k = e - n
    <3>1. e - n \in 0..e
      BY <2>3
    <3> QED BY <3>1
  <2>5. SubSeq(Run(origin, e), k + 1, e) = Run(origin + k, e - k)
    BY <2>3, RunCut
  <2>6. k + 1 = e - n + 1 /\ origin + k = origin + e - n /\ e - k = n
    BY <2>3, <2>4
  <2> QED BY <2>1, <2>2, <2>3, <2>5, <2>6 DEF HistoryKept, emitted
<1> QED BY <1>1, BytesInvariance, PTL

-----------------------------------------------------------------------------
\* What the blocks take on the wire.

\* A block as it is kept of the wire.
Block == [len : Nat, last : BOOLEAN, kind : {"Raw", "Rle", "Compressed"}]

\* A block takes a natural number of bytes.
LEMMA BlockBytesIs == ASSUME NEW b \in Block PROVE BlockBytes(b) \in Nat
BY WireAssumption DEF Block, BlockBytes

\* f adds up the first n blocks of s, one more at every step: the function behind TotalBytes.
Sums(f, s, n) == f = [i \in 0..n |-> IF i = 0 THEN 0 ELSE f[i - 1] + BlockBytes(s[i])]

\* A nonempty set of naturals has a least member.
LEMMA LeastOf ==
  ASSUME NEW S \in SUBSET Nat, S # {}
  PROVE  \E n \in S : \A m \in S : n <= m
<1>1. PICK n \in S : \A m \in S : ~(<<m, n>> \in OpToRel(<, Nat))
  BY Zenon, NatLessThanWellFounded, WFMin
<1>2. \A m \in S : ~(m < n)
  BY <1>1 DEF OpToRel
<1> QED BY <1>2

\* What a sum function gives, place by place.
LEMMA SumsIs ==
  ASSUME NEW f, NEW s, NEW n \in Nat, Sums(f, s, n)
  PROVE  f[0] = 0 /\ \A i \in 1..n : f[i] = f[i - 1] + BlockBytes(s[i])
<1>1. \A i \in 0..n : f[i] = IF i = 0 THEN 0 ELSE f[i - 1] + BlockBytes(s[i])
  BY DEF Sums
<1>2. f[0] = 0
  BY <1>1
<1>3. ASSUME NEW i \in 1..n PROVE f[i] = f[i - 1] + BlockBytes(s[i])
  <2>1. i \in 0..n /\ i # 0
    OBVIOUS
  <2> QED BY <1>1, <2>1
<1> QED BY <1>2, <1>3

\* There is such a function, however many the blocks.
LEMMA SumsExists ==
  ASSUME NEW s, NEW N \in Nat
  PROVE  \E f : Sums(f, s, N)
<1> DEFINE Bad == {n \in Nat : ~\E f : Sums(f, s, n)}
<1>1. SUFFICES ASSUME Bad # {} PROVE FALSE
  OBVIOUS
<1>2. PICK n \in Bad : \A m \in Bad : n <= m
  BY <1>1, LeastOf
<1>3. n # 0
  <2>1. Sums([i \in 0..0 |-> 0], s, 0)
    BY DEF Sums
  <2> QED BY <2>1
<1>4. PICK g : Sums(g, s, n - 1)
  BY <1>2, <1>3
<1> DEFINE h == [i \in 0..n |-> IF i < n THEN g[i] ELSE g[n - 1] + BlockBytes(s[n])]
<1>5. Sums(h, s, n)
  <2>1. \A i \in 0..n : h[i] = IF i = 0 THEN 0 ELSE h[i - 1] + BlockBytes(s[i])
    <3>1. \A i \in 0..n-1 : g[i] = IF i = 0 THEN 0 ELSE g[i - 1] + BlockBytes(s[i])
      BY <1>3, <1>4 DEF Sums
    <3> QED BY <1>3, <3>1
  <2>2. h = [i \in 0..n |-> h[i]]
    OBVIOUS
  <2> QED BY <2>1, <2>2 DEF Sums
<1> QED BY <1>5

\* TotalBytes is the last value of one.
LEMMA TotalIs ==
  ASSUME NEW s, Len(s) \in Nat
  PROVE  \E f : Sums(f, s, Len(s)) /\ TotalBytes(s) = f[Len(s)]
<1>1. \E f : Sums(f, s, Len(s))
  BY SumsExists
<1> QED BY <1>1 DEF TotalBytes, Sums

\* Sums are natural, and those over the same blocks are the same.
LEMMA SumsAgree ==
  \A s, t, f, g : \A n, m \in Nat :
    /\ n <= m /\ \A i \in 1..n : s[i] = t[i] /\ BlockBytes(s[i]) \in Nat
    /\ Sums(f, s, n) /\ Sums(g, t, m)
    => \A i \in 0..n : f[i] \in Nat /\ g[i] = f[i]
<1> SUFFICES
      ASSUME NEW s, NEW t, NEW f, NEW g, NEW n \in Nat, NEW m \in Nat, n <= m,
             \A i \in 1..n : s[i] = t[i] /\ BlockBytes(s[i]) \in Nat,
             Sums(f, s, n), Sums(g, t, m)
      PROVE  \A i \in 0..n : f[i] \in Nat /\ g[i] = f[i]
  OBVIOUS
<1> DEFINE Bad == {i \in 0..n : ~(f[i] \in Nat /\ g[i] = f[i])}
<1>1. SUFFICES ASSUME Bad # {} PROVE FALSE
  OBVIOUS
<1>2. PICK k \in Bad : \A i \in Bad : k <= i
  <2>1. Bad \subseteq Nat
    OBVIOUS
  <2> HIDE DEF Bad
  <2> QED BY <1>1, <2>1, LeastOf
<1>3. /\ f[0] = 0 /\ \A i \in 1..n : f[i] = f[i - 1] + BlockBytes(s[i])
      /\ g[0] = 0 /\ \A i \in 1..m : g[i] = g[i - 1] + BlockBytes(t[i])
  BY SumsIs
<1>4. k \in 1..n /\ k \in 1..m
  BY <1>2, <1>3
<1>5. f[k - 1] \in Nat /\ g[k - 1] = f[k - 1]
  BY <1>2, <1>4
<1>6. s[k] = t[k] /\ BlockBytes(s[k]) \in Nat
  BY <1>4
<1>7. f[k] = f[k - 1] + BlockBytes(s[k]) /\ g[k] = f[k - 1] + BlockBytes(s[k])
  BY <1>3, <1>4, <1>5, <1>6
<1> QED BY <1>2, <1>5, <1>6, <1>7

\* Any blocks take a natural number of bytes, and one more block its own.
LEMMA TotalOfAppend ==
  ASSUME NEW s \in Seq(Block), NEW b \in Block
  PROVE  /\ TotalBytes(s) \in Nat
         /\ TotalBytes(Append(s, b)) = TotalBytes(s) + BlockBytes(b)
<1>1. PICK t : t = Append(s, b)
  OBVIOUS
<1>2. PICK n : n = Len(s)
  OBVIOUS
<1>3. PICK m : m = n + 1
  OBVIOUS
<1>4. /\ n \in Nat /\ m \in Nat /\ n <= m
      /\ t \in Seq(Block) /\ Len(t) = m /\ t[m] = b /\ \A i \in 1..n : s[i] = t[i]
  BY <1>1, <1>2, <1>3
<1>5. PICK f : Sums(f, s, n) /\ TotalBytes(s) = f[n]
  BY <1>2, TotalIs
<1>6. PICK g : Sums(g, t, m) /\ TotalBytes(t) = g[m]
  BY <1>4, TotalIs
<1>7. \A i \in 1..n : s[i] = t[i] /\ BlockBytes(s[i]) \in Nat
  <2>1. \A i \in 1..n : s[i] \in Block
    BY <1>2
  <2> QED BY <1>4, <2>1, BlockBytesIs
<1>8. f[n] \in Nat /\ g[n] = f[n]
  <2>1. \A i \in 0..n : f[i] \in Nat /\ g[i] = f[i]
    BY <1>4, <1>5, <1>6, <1>7, SumsAgree
  <2>2. n \in 0..n
    BY <1>4
  <2> QED BY <2>1, <2>2
<1>9. g[m] = g[m - 1] + BlockBytes(t[m])
  <2>1. \A i \in 1..m : g[i] = g[i - 1] + BlockBytes(t[i])
    BY <1>4, <1>6, SumsIs
  <2>2. m \in 1..m
    BY <1>3, <1>4
  <2> QED BY <2>1, <2>2
<1>10. m - 1 = n
  BY <1>3, <1>4
<1> QED BY <1>1, <1>4, <1>5, <1>6, <1>8, <1>9, <1>10

\* No blocks take no bytes.
LEMMA TotalOfNone == TotalBytes(<< >>) = 0
<1>1. PICK f : Sums(f, << >>, Len(<< >>)) /\ TotalBytes(<< >>) = f[Len(<< >>)]
  BY TotalIs
<1> QED BY <1>1 DEF Sums

-----------------------------------------------------------------------------
\* The blocks of a frame.

\* What n bytes go out as: one block that carries the flag, or one before it that does not.
LEMMA EmittedBlocks ==
  ASSUME p \in Setups, NEW n \in Nat, NEW last_block \in BOOLEAN, NEW r \in Routes(n)
  PROVE  \E b \in Block :
           /\ b.last = last_block /\ b.len <= n /\ (b.len = 0 => n = 0)
           /\ \/ Emitted(n, r.kind, last_block) = <<b>>
              \/ \E a \in Block : /\ ~a.last /\ a.len <= n
                                  /\ Emitted(n, r.kind, last_block) = <<a, b>>
<1>1. r.kind \in {"Raw", "Rle", "Compressed", "Split"} /\ (r.kind = "Split" => n # 0)
  <2>1. p.kinds \subseteq {"Raw", "Rle", "Compressed", "Split"}
    BY SetupAssumption
  <2> QED BY <2>1 DEF Routes
<1>2. CASE r.kind = "Split"
  <2> DEFINE a == [len |-> n - 1, last |-> FALSE, kind |-> "Compressed"]
             b == [len |-> 1, last |-> last_block, kind |-> "Raw"]
  <2>1. n \in Nat \ {0}
    BY <1>1, <1>2
  <2>2. a \in Block /\ ~a.last /\ a.len <= n /\ b \in Block /\ b.last = last_block /\ b.len <= n
        /\ b.len # 0
    BY <2>1 DEF Block
  <2>3. Emitted(n, r.kind, last_block) = <<a, b>>
    BY <1>2 DEF Emitted
  <2> QED BY <2>2, <2>3
<1>3. CASE r.kind # "Split"
  <2> DEFINE b == [len |-> n, last |-> last_block, kind |-> r.kind]
  <2>1. b \in Block /\ b.last = last_block /\ b.len <= n /\ (b.len = 0 => n = 0)
    BY <1>1, <1>3 DEF Block
  <2>2. Emitted(n, r.kind, last_block) = <<b>>
    BY <1>3 DEF Emitted
  <2> QED BY <2>1, <2>2
<1> QED BY <1>2, <1>3

\* t is s and one or two blocks more, of at most n bytes each; only the very last one may
\* carry the flag.
Behind(s, t, n) ==
  /\ t \in Seq(Block) /\ Len(t) > Len(s)
  /\ TotalBytes(s) \in Nat /\ TotalBytes(t) \in Nat /\ TotalBytes(t) >= TotalBytes(s)
  /\ \A i \in 1..Len(s) : t[i] = s[i]
  /\ \A i \in 1..Len(t) :
       i > Len(s) => t[i].len <= n /\ (i # Len(t) => ~t[i].last)
  /\ t[Len(t)].len = 0 => n = 0

\* That is what a block's worth of bytes adds to the blocks before it.
LEMMA EmittedBehind ==
  ASSUME p \in Setups, NEW n \in Nat, NEW last_block \in BOOLEAN, NEW r \in Routes(n),
         NEW s \in Seq(Block), NEW t, t = s \o Emitted(n, r.kind, last_block)
  PROVE  Behind(s, t, n) /\ t[Len(t)].last \in {last_block}
<1>1. PICK b \in Block :
        /\ b.last = last_block /\ b.len <= n /\ (b.len = 0 => n = 0)
        /\ \/ Emitted(n, r.kind, last_block) = <<b>>
           \/ \E a \in Block : /\ ~a.last /\ a.len <= n
                               /\ Emitted(n, r.kind, last_block) = <<a, b>>
  BY EmittedBlocks
<1>2. CASE Emitted(n, r.kind, last_block) = <<b>>
  <2>1. t = Append(s, b)
    BY <1>2
  <2>2. /\ t \in Seq(Block) /\ Len(t) = Len(s) + 1 /\ t[Len(s) + 1] = b
        /\ \A i \in 1..Len(s) : t[i] = s[i]
    BY <2>1
  <2>3. TotalBytes(t) = TotalBytes(s) + BlockBytes(b) /\ TotalBytes(s) \in Nat
    BY <2>1, TotalOfAppend
  <2>4. BlockBytes(b) \in Nat
    BY BlockBytesIs
  <2> QED BY <1>1, <2>2, <2>3, <2>4 DEF Behind
<1>3. CASE \E a \in Block : /\ ~a.last /\ a.len <= n
                            /\ Emitted(n, r.kind, last_block) = <<a, b>>
  <2>1. PICK a \in Block : ~a.last /\ a.len <= n /\ Emitted(n, r.kind, last_block) = <<a, b>>
    BY <1>3
  <2>2. PICK u : u = Append(s, a)
    OBVIOUS
  <2>3. /\ u \in Seq(Block) /\ Len(u) = Len(s) + 1 /\ u[Len(s) + 1] = a
        /\ \A i \in 1..Len(s) : u[i] = s[i]
    BY <2>1, <2>2
  <2>4. t = Append(u, b)
    BY <2>1, <2>2
  <2>5. /\ t \in Seq(Block) /\ Len(t) = Len(s) + 2 /\ t[Len(s) + 1] = a /\ t[Len(s) + 2] = b
        /\ \A i \in 1..Len(s) : t[i] = s[i]
    BY <2>3, <2>4
  <2>6. TotalBytes(u) = TotalBytes(s) + BlockBytes(a) /\ TotalBytes(s) \in Nat
    BY <2>1, <2>2, TotalOfAppend
  <2>7. TotalBytes(t) = TotalBytes(u) + BlockBytes(b) /\ TotalBytes(u) \in Nat
    BY <2>3, <2>4, TotalOfAppend
  <2>8. BlockBytes(b) \in Nat /\ BlockBytes(a) \in Nat
    BY <2>1, BlockBytesIs
  <2>9. ASSUME NEW i \in 1..Len(t), i > Len(s)
        PROVE  t[i].len <= n /\ (i # Len(t) => ~t[i].last)
    <3>1. i = Len(s) + 1 \/ i = Len(s) + 2
      BY <2>5, <2>9
    <3>2. Len(s) + 1 # Len(s) + 2
      OBVIOUS
    <3> QED BY <1>1, <2>1, <2>5, <3>1, <3>2
  <2> QED BY SMTT(30), <1>1, <2>5, <2>6, <2>7, <2>8, <2>9 DEF Behind
<1> QED BY <1>1, <1>2, <1>3

\* Between chunks a frame has taken a multiple of push_target, within one what is left
\* of it makes it so.
ChunksInv ==
  ~finished /\ ~flushed =>
    /\ call \in {"none", "push", "chunk"} => emitted % push_target(p) = 0
    /\ call = "tail" => (emitted + waiting) % push_target(p) = 0

\* Only a finished frame has a last block, and a digest; no block is larger than a block may
\* be, or than the content.
LayoutInv ==
  /\ wire.blocks \in Seq(Block)
  /\ \A i \in 1..Len(wire.blocks) :
       /\ wire.blocks[i].len <= block_size_for(p) /\ wire.blocks[i].len <= emitted
       /\ wire.blocks[i].last <=> (finished /\ i = Len(wire.blocks))
  /\ ~finished => wire.digest = << >>
  /\ finished => /\ wire.blocks # << >> /\ PledgeKept
                 /\ wire.digest = IF p.checksum THEN <<FrameContent>> ELSE << >>
  /\ ChunksInv
  /\ EmptyTrailerOnlyWhenAligned

\* Compressed bytes queued and taken are those written.
OutputInv ==
  /\ output_len \in Nat /\ output_pos \in Nat /\ taken \in Int /\ behind \in Int
  /\ OutputOnce

\* A whole chunk more is still whole chunks.
LEMMA OneMoreChunk ==
  ASSUME NEW a \in Nat, NEW t \in Nat \ {0}, a % t = 0
  PROVE  (a + t) % t = 0
<1>1. a = t * (a \div t) /\ (a \div t) \in Nat
  BY DivMod
<1>2. a + t = t * ((a \div t) + 1) /\ (a \div t) + 1 \in Nat
  BY <1>1
<1> QED BY <1>2, MultipleMod

\* What is short of a divisor is its own remainder.
LEMMA ShortMod ==
  ASSUME NEW a \in Nat, NEW t \in Nat, a < t
  PROVE  a % t = a
BY Z3

\* A block keeps the chunks whole.
LEMMA EmitChunks ==
  ASSUME EncoderInv, BytesInv, ChunksInv,
         NEW take \in Nat, NEW last_block \in BOOLEAN, NEW digest, Emits(take, last_block, digest)
  PROVE  ChunksInv'
<1> SUFFICES ASSUME ~finished', ~flushed' PROVE
      /\ call' \in {"none", "push", "chunk"} => emitted' % push_target(p)' = 0
      /\ call' = "tail" => (emitted' + waiting') % push_target(p)' = 0
  BY DEF ChunksInv
<1>1. p' = p /\ ~finished /\ ~last_block
  BY DEF Emits
<1>2. push_target(p)' = push_target(p)
  BY <1>1
<1>3. PICK t : t = push_target(p)
  OBVIOUS
<1>4. emitted \in Nat /\ waiting \in Nat /\ t \in Nat \ {0} /\ take <= waiting
  <2>1. p \in Setups /\ push_target(p) \in {block_size_for(p), block_size_for(p) + 1}
        /\ block_size_for(p) \in Nat \ {0}
    BY Sizes DEF EncoderInv
  <2> QED BY SMTT(30), <1>3, <2>1, LenProperties DEF EncoderInv, BytesInv, waiting, Emits
<1>5. emitted' = emitted + take /\ waiting' = waiting - take
  BY EmitMoves
<1>6. CASE call = "chunk" /\ call' = AfterFirstBlock /\ flushed' = flushed
  <2>1. waiting = t /\ emitted % t = 0
    BY <1>1, <1>3, <1>6 DEF EncoderInv, ChunksInv, waiting
  <2>2. (emitted + t) % t = 0
    BY <1>4, <2>1, OneMoreChunk
  <2>3. emitted' + waiting' = emitted + t
    BY <1>4, <1>5, <2>1
  <2>4. CASE buffered_input' = << >>
    <3>1. waiting' = 0 /\ call' \in {"none", "push"}
      BY <1>6, <2>4 DEF waiting, AfterFirstBlock, AfterChunk
    <3>2. emitted' = emitted + t
      BY <1>4, <1>5, <2>3, <3>1
    <3> QED BY <1>2, <1>3, <2>2, <3>1, <3>2
  <2>5. CASE buffered_input' # << >>
    <3>1. call' = "tail"
      BY <1>6, <2>5 DEF AfterFirstBlock
    <3> QED BY <1>2, <1>3, <2>2, <2>3, <3>1
  <2> QED BY <2>4, <2>5
<1>7. CASE call = "tail" /\ take = waiting /\ call' = AfterChunk /\ flushed' = flushed
  <2>1. (emitted + waiting) % t = 0
    BY <1>1, <1>3, <1>7 DEF ChunksInv
  <2>2. call' \in {"none", "push"}
    BY <1>7 DEF AfterChunk
  <2> QED BY <1>2, <1>3, <1>5, <1>7, <2>1, <2>2
<1> QED BY <1>1, <1>6, <1>7 DEF Emits

\* The last block of a frame is empty only where the comment on finish says.
LEMMA EmitTrailer ==
  ASSUME EncoderInv, BytesInv, ChunksInv,
         NEW take \in Nat, NEW digest, Emits(take, TRUE, digest), ~flushed, take = 0
  PROVE  /\ content_len % block_size_for(p) = 0
         /\ content_len = block_size_for(p) => p.pledged_src_size # content_len
<1>1. PICK b : b = block_size_for(p)
  OBVIOUS
<1>2. /\ p \in Setups /\ b \in Nat \ {0} /\ PledgeKept /\ src = << >> /\ waiting = 0 /\ call = "none"
      /\ push_target(p) = b + (IF p.pledged_src_size = b THEN 1 ELSE 0) /\ ~finished
  <2>1. p \in Setups /\ b \in Nat \ {0}
    BY <1>1, Sizes DEF EncoderInv
  <2>2. push_target(p) = b + (IF p.pledged_src_size = b THEN 1 ELSE 0)
    BY <1>1 DEF push_target
  <2>3. PledgeKept /\ src = << >> /\ waiting = 0 /\ ~finished /\ call \in {"chunk", "tail", "none"}
    BY DEF Emits
  <2>4. call = "none"
    BY <2>3 DEF Emits
  <2> QED BY <2>1, <2>2, <2>3, <2>4
<1>3. emitted \in Nat /\ content_len = emitted
  <2>1. Len(src) = 0
    BY <1>2
  <2>2. emitted \in Nat /\ emitted + waiting + Len(src) = content_len
    BY DEF BytesInv
  <2> QED BY <1>2, <2>1, <2>2
<1>4. emitted % push_target(p) = 0
  BY <1>2 DEF ChunksInv
<1>5. CASE p.pledged_src_size # b
  BY <1>1, <1>2, <1>3, <1>4, <1>5
<1>6. CASE p.pledged_src_size = b
  <2>1. content_len = b
    BY <1>2, <1>6 DEF PledgeKept, None
  <2>2. b % (b + 1) = 0
    BY <1>2, <1>3, <1>4, <1>6, <2>1
  <2>3. b % (b + 1) = b
    <3>1. PICK t : t = b + 1
      OBVIOUS
    <3>2. t \in Nat /\ b \in Nat /\ b < t
      BY <1>2, <3>1
    <3> QED BY <3>1, <3>2, ShortMod
  <2> QED BY <1>2, <2>2, <2>3
<1> QED BY <1>5, <1>6

\* A block keeps the layout.
LEMMA EmitLayout ==
  ASSUME EncoderInv, BytesInv, LayoutInv,
         NEW take \in Nat, NEW last_block \in BOOLEAN, NEW digest, Emits(take, last_block, digest)
  PROVE  LayoutInv'
<1>0. PICK s \in Seq(Block) : s = wire.blocks
  BY DEF LayoutInv
<1>1. PICK r \in Routes(take) :
        wire' = [header |-> wire.header,
                 blocks |-> s \o Emitted(take, r.kind, last_block),
                 content |-> wire.content \o SubSeq(buffered_input, 1, take),
                 digest |-> digest]
  BY <1>0, EmitsIs
<1>2. PICK t : t = s \o Emitted(take, r.kind, last_block)
  OBVIOUS
<1>3. p \in Setups /\ emitted \in Nat /\ block_size_for(p) \in Nat /\ take <= block_size_for(p)
  BY Sizes DEF EncoderInv, BytesInv, Emits
<1>4. /\ t \in Seq(Block) /\ Len(t) > Len(s)
      /\ \A i \in 1..Len(s) : t[i] = s[i]
      /\ \A i \in 1..Len(t) :
           i > Len(s) => t[i].len <= take /\ (i # Len(t) => ~t[i].last)
      /\ t[Len(t)].last <=> last_block
      /\ t[Len(t)].len = 0 => take = 0
  <2>1. p \in Setups /\ s \in Seq(Block) /\ r \in Routes(take)
    BY <1>0, <1>1, <1>3
  <2>2. Behind(s, t, take) /\ t[Len(t)].last \in {last_block}
    BY <1>2, <2>1, EmittedBehind
  <2> QED BY <2>2 DEF Behind
<1>5. wire'.blocks = t /\ wire'.digest = digest /\ emitted' = emitted + take
  BY <1>1, <1>2, EmitMoves
<1>6. /\ p' = p /\ ~finished /\ (finished' <=> last_block) /\ content_len' = content_len
      /\ origin' = origin /\ block_size_for(p)' = block_size_for(p)
  BY DEF Emits, historyVars
<1>7. ASSUME NEW i \in 1..Len(t)
      PROVE  /\ t[i].len <= block_size_for(p) /\ t[i].len <= emitted + take
             /\ t[i].last <=> (finished' /\ i = Len(t))
  <2>1. t[i].len \in Nat
    <3>1. t[i] \in Block
      BY <1>4
    <3> QED BY <3>1 DEF Block
  <2>2. CASE i <= Len(s)
    <3>1. i \in 1..Len(s)
      BY <2>2
    <3>2. /\ s[i].len <= block_size_for(p) /\ s[i].len <= emitted /\ ~s[i].last /\ t[i] = s[i]
      BY <1>0, <1>4, <1>6, <3>1 DEF LayoutInv
    <3>3. i # Len(t)
      BY <1>4, <2>2
    <3> QED BY <1>3, <2>1, <3>2, <3>3
  <2>3. CASE i > Len(s)
    <3>1. t[i].len <= take
      BY <1>4, <2>3
    <3>2. CASE i = Len(t)
      <4>1. t[i].last <=> last_block
        BY <1>4, <3>2
      <4> QED BY <1>3, <1>6, <2>1, <3>1, <3>2, <4>1
    <3>3. CASE i # Len(t)
      <4>1. ~t[i].last
        BY <1>4, <2>3, <3>3
      <4> QED BY <1>3, <1>6, <2>1, <3>1, <3>3, <4>1
    <3> QED BY <3>2, <3>3
  <2> QED BY <2>2, <2>3
<1>8. ~finished' => wire'.digest = << >>
  BY <1>5, <1>6 DEF Emits
<1>9. finished' => /\ wire'.blocks # << >> /\ PledgeKept'
                   /\ wire'.digest = IF p.checksum THEN <<FrameContent>> ELSE << >>
  <2> SUFFICES ASSUME last_block
      PROVE /\ wire'.blocks # << >> /\ PledgeKept'
            /\ wire'.digest = IF p.checksum THEN <<FrameContent>> ELSE << >>
    BY <1>6
  <2>1. Len(t) # 0
    BY <1>4
  <2>2. digest = (IF p.checksum THEN <<checksum>> ELSE << >>) /\ PledgeKept
    BY DEF Emits
  <2>3. digest = IF p.checksum THEN <<FrameContent>> ELSE << >>
    BY <2>2 DEF BytesInv
  <2>4. PledgeKept'
    BY <1>6, <2>2 DEF PledgeKept
  <2>5. t # << >>
    BY <2>1
  <2> QED BY <1>5, <2>3, <2>4, <2>5
<1>10. FrameContent' = FrameContent
  BY <1>6 DEF FrameContent
<1>11. EmptyTrailerOnlyWhenAligned'
  <2> SUFFICES ASSUME last_block, ~flushed', t[Len(t)].len = 0
      PROVE  /\ content_len % block_size_for(p) = 0
             /\ content_len = block_size_for(p) => p.pledged_src_size # content_len
    BY <1>5, <1>6 DEF EmptyTrailerOnlyWhenAligned
  <2>1. ~flushed /\ take = 0
    BY <1>4 DEF Emits
  <2>2. Emits(take, TRUE, digest)
    OBVIOUS
  <2> QED BY <2>1, <2>2, EmitTrailer DEF LayoutInv
<1>12. ChunksInv'
  BY EmitChunks DEF LayoutInv
<1> QED BY <1>4, <1>5, <1>6, <1>7, <1>8, <1>9, <1>10, <1>11, <1>12 DEF LayoutInv

\* A frame that begins has no blocks.
LEMMA FreshLayout ==
  (p \in Setups /\ wire = EmptyWire(p) /\ ~finished /\ call = "none") => LayoutInv
<1> SUFFICES ASSUME p \in Setups, wire = EmptyWire(p), ~finished, call = "none" PROVE LayoutInv
  OBVIOUS
<1>1. emitted = 0 /\ wire.blocks = << >> /\ wire.digest = << >>
  BY DEF emitted, EmptyWire
<1>2. 0 % push_target(p) = 0
  <2>1. push_target(p) \in {block_size_for(p), block_size_for(p) + 1}
        /\ block_size_for(p) \in Nat \ {0}
    BY Sizes
  <2>2. PICK t \in Nat : t = push_target(p) /\ t > 0
    BY <2>1
  <2>3. PICK z \in Nat : z = 0
    OBVIOUS
  <2>4. z % t = z
    BY <2>2, <2>3, ShortMod
  <2> QED BY <2>2, <2>3, <2>4
<1>3. << >> \in Seq(Block) /\ Len(<< >>) = 0
  OBVIOUS
<1> QED BY <1>1, <1>2, <1>3 DEF LayoutInv, ChunksInv, EmptyTrailerOnlyWhenAligned

-----------------------------------------------------------------------------
\* The output queue.

\* A frame takes a natural number of bytes, so far.
LEMMA FrameBytesIs ==
  ASSUME NEW w, w.blocks \in Seq(Block)
  PROVE  /\ FrameBytes(w) \in Nat
         /\ FrameBytes(w) = HeaderBytes + TotalBytes(w.blocks)
                              + (IF w.digest = << >> THEN 0 ELSE ChecksumBytes)
<1>1. [len |-> 0, last |-> FALSE, kind |-> "Raw"] \in Block
  BY DEF Block
<1>2. TotalBytes(w.blocks) \in Nat
  BY <1>1, TotalOfAppend
<1> QED BY <1>2, WireAssumption DEF FrameBytes

\* A block that goes out puts its bytes behind those queued.
LEMMA EmitOutput ==
  ASSUME EncoderInv, BytesInv, LayoutInv, OutputInv,
         NEW take \in Nat, NEW last_block \in BOOLEAN, NEW digest, Emits(take, last_block, digest)
  PROVE  OutputInv'
<1>1. PICK r \in Routes(take) :
        wire' = [header |-> wire.header,
                 blocks |-> wire.blocks \o Emitted(take, r.kind, last_block),
                 content |-> wire.content \o SubSeq(buffered_input, 1, take),
                 digest |-> digest]
  BY EmitsIs
<1>2. PICK s \in Seq(Block) : s = wire.blocks
  BY DEF LayoutInv
<1>3. PICK t : t = s \o Emitted(take, r.kind, last_block)
  OBVIOUS
<1>4. Behind(s, t, take)
  <2>1. p \in Setups /\ r \in Routes(take)
    BY <1>1 DEF EncoderInv
  <2> QED BY <1>2, <1>3, <2>1, EmittedBehind
<1>5. wire'.blocks = t /\ t \in Seq(Block)
  BY <1>1, <1>2, <1>3, <1>4 DEF Behind
<1>6. wire.digest = << >>
  BY DEF LayoutInv, Emits
<1>7. PICK before \in Nat : before = FrameBytes(wire) /\ before = HeaderBytes + TotalBytes(s)
  <2>1. FrameBytes(wire) = HeaderBytes + TotalBytes(s) + 0 /\ FrameBytes(wire) \in Nat
    BY <1>2, <1>6, FrameBytesIs
  <2>2. TotalBytes(s) \in Nat
    BY <1>4 DEF Behind
  <2> QED BY <2>1, <2>2, WireAssumption
<1>8. PICK after \in Nat : after = FrameBytes(wire)' /\ after >= HeaderBytes + TotalBytes(t)
  <2>1. PICK w : w = wire'
    OBVIOUS
  <2>2. /\ FrameBytes(w) \in Nat
        /\ FrameBytes(w) = HeaderBytes + TotalBytes(w.blocks)
                             + (IF w.digest = << >> THEN 0 ELSE ChecksumBytes)
    BY <1>5, <2>1, FrameBytesIs
  <2>3. FrameBytes(wire)' = FrameBytes(w)
    BY <2>1 DEF FrameBytes
  <2>4. TotalBytes(t) \in Nat /\ w.blocks = t
    BY <1>4, <1>5, <2>1 DEF Behind
  <2> QED BY <2>2, <2>3, <2>4, WireAssumption
<1>9. before <= after
  <2>1. TotalBytes(s) \in Nat /\ TotalBytes(t) \in Nat /\ TotalBytes(t) >= TotalBytes(s)
    BY <1>4 DEF Behind
  <2> QED BY <1>7, <1>8, <2>1, WireAssumption
<1>10. output_len' = output_len + after - before
  <2>1. FrameBytes(wire') = FrameBytes(wire)'
    BY DEF FrameBytes
  <2> QED BY <1>7, <1>8, <2>1, EmitsIs
<1>11. output_pos' = output_pos /\ taken' = taken /\ behind' = behind
  BY DEF Emits, historyVars
<1>12. /\ output_len \in Nat /\ output_pos \in Nat /\ taken \in Int /\ behind \in Int
       /\ output_pos <= output_len /\ taken + output_len - output_pos = behind + before
  BY <1>7 DEF OutputInv, OutputOnce
<1>13. output_len' \in Nat /\ output_len' >= output_len
  BY <1>9, <1>10, <1>12
<1>14. taken' + output_len' - output_pos' = behind' + after
  BY <1>9, <1>10, <1>11, <1>12
<1>15. output_pos' <= output_len'
  BY <1>11, <1>12, <1>13
<1> QED BY <1>8, <1>11, <1>12, <1>13, <1>14, <1>15 DEF OutputInv, OutputOnce

\* The caller takes some of what is queued.
LEMMA TakeOutput == ASSUME EncoderInv, OutputInv, read \/ take_output PROVE OutputInv'
<1>1. wire' = wire /\ behind' = behind
  BY IdleSteps
<1>2. FrameBytes(wire)' = FrameBytes(wire)
  BY <1>1 DEF FrameBytes
<1>3. /\ output_len \in Nat /\ output_pos \in Nat /\ taken \in Int /\ behind \in Int
      /\ output_pos <= output_len
      /\ taken + output_len - output_pos = behind + FrameBytes(wire)
  BY DEF OutputInv, OutputOnce
<1>4. CASE read
  <2>1. PICK n \in p.drains :
          LET count == Least(n, output_len - output_pos)
              pos   == output_pos + count
          IN  /\ output_len' = output_len - ReclaimedPrefix(pos)
              /\ output_pos' = IF ReclaimedPrefix(pos) = 0 THEN pos ELSE 0
              /\ taken' = taken + count
    BY <1>4 DEF read
  <2>2. n \in Nat
    BY <2>1, SetupAssumption DEF EncoderInv
  <2>3. PICK count \in Nat : /\ count = Least(n, output_len - output_pos)
                             /\ count <= output_len - output_pos
    <3>1. output_len - output_pos \in Nat
      BY <1>3
    <3>2. Least(n, output_len - output_pos) \in Nat
          /\ Least(n, output_len - output_pos) <= output_len - output_pos
      BY <2>2, <3>1 DEF Least
    <3> QED BY <3>2
  <2>4. PICK pos \in Nat : pos = output_pos + count
    BY <1>3
  <2>5. PICK dropped : dropped = ReclaimedPrefix(pos)
    OBVIOUS
  <2>6. dropped \in {0, pos} /\ pos <= output_len
    BY <1>3, <2>3, <2>4, <2>5 DEF ReclaimedPrefix
  <2>7. /\ output_len' = output_len - dropped /\ output_pos' = (IF dropped = 0 THEN pos ELSE 0)
        /\ taken' = taken + count
    BY <2>1, <2>3, <2>4, <2>5
  <2>8. /\ output_len' \in Nat /\ output_pos' = pos - dropped /\ output_pos' \in Nat
        /\ output_pos' <= output_len'
    BY <1>3, <2>6, <2>7
  <2>9. taken' + output_len' - output_pos' = taken + output_len - output_pos /\ taken' \in Int
    BY <1>3, <2>3, <2>4, <2>6, <2>7, <2>8
  <2> QED BY <1>1, <1>2, <1>3, <2>8, <2>9 DEF OutputInv, OutputOnce
<1>5. CASE take_output
  <2>1. /\ taken' = taken + output_len - output_pos /\ output_len' = 0 /\ output_pos' = 0
    BY <1>5 DEF take_output
  <2>2. taken' + output_len' - output_pos' = taken + output_len - output_pos /\ taken' \in Int
    BY <1>3, <2>1
  <2> QED BY <1>1, <1>2, <1>3, <2>1, <2>2 DEF OutputInv, OutputOnce
<1> QED BY <1>4, <1>5

\* The first bytes of a frame are its header.
LEMMA FreshFrameBytes ==
  ASSUME NEW w, w.blocks = << >>, w.digest = << >>
  PROVE  FrameBytes(w) = HeaderBytes
BY TotalOfNone, WireAssumption DEF FrameBytes

-----------------------------------------------------------------------------
\* The frame as a whole.

\* All that holds of the frame being written.
FrameInv == EncoderInv /\ BytesInv /\ LayoutInv /\ OutputInv

\* The first frame begins with its bytes, its blocks and its queue in order.
LEMMA FrameInit == Init => FrameInv
<1> SUFFICES ASSUME Init PROVE FrameInv
  OBVIOUS
<1>1. p \in Setups /\ wire = EmptyWire(p) /\ ~finished /\ call = "none" /\ output_len = HeaderBytes
      /\ output_pos = 0 /\ taken = 0 /\ behind = 0
  BY DEF Init
<1>2. FrameBytes(wire) = HeaderBytes
  <2>1. wire.blocks = << >> /\ wire.digest = << >>
    BY <1>1 DEF EmptyWire
  <2> QED BY <2>1, FreshFrameBytes
<1>3. OutputInv
  BY <1>1, <1>2, WireAssumption DEF OutputInv, OutputOnce
<1> QED BY <1>1, <1>3, InitInv, BytesInit, FreshLayout DEF FrameInv

\* A push moves bytes only from its argument to the buffer.
LEMMA PushLayout == ASSUME EncoderInv, BytesInv, LayoutInv, push \/ top_up PROVE LayoutInv'
<1>1. p' = p /\ wire' = wire /\ ~finished /\ ~finished' /\ flushed' = flushed /\ call # "tail"
  BY DEF push, top_up, EncoderInv
<1>2. call \in {"none", "push"} /\ call' \in {"none", "push", "chunk"}
  BY DEF push, top_up
<1>3. emitted' = emitted /\ block_size_for(p)' = block_size_for(p) /\ push_target(p)' = push_target(p)
  BY <1>1 DEF emitted
<1>4. ChunksInv'
  <2>1. ~flushed => emitted % push_target(p) = 0
    BY <1>1, <1>2 DEF LayoutInv, ChunksInv
  <2> QED BY <1>1, <1>2, <1>3, <2>1 DEF ChunksInv
<1> QED BY <1>1, <1>3, <1>4 DEF LayoutInv, EmptyTrailerOnlyWhenAligned

\* A finished frame gives way to the next.
LEMMA ResetFrame == ASSUME FrameInv, reset PROVE LayoutInv' /\ OutputInv'
<1>1. /\ p' = p /\ wire' = EmptyWire(p) /\ call' = call /\ ~finished' /\ finished
      /\ output_len' = output_len + HeaderBytes /\ output_pos' = output_pos /\ taken' = taken
      /\ behind' = behind + FrameBytes(wire)
  BY DEF reset
<1>2. p \in Setups /\ call = "none" /\ EmptyWire(p)' = EmptyWire(p)
  BY <1>1 DEF FrameInv, EncoderInv, EmptyWire, FrameHeader, history_limit_for
<1>3. (p \in Setups /\ wire = EmptyWire(p) /\ ~finished /\ call = "none")'
  BY <1>1, <1>2
<1>4. LayoutInv'
  BY <1>3, FreshLayout, PTL
<1>5. FrameBytes(wire)' = HeaderBytes
  <2>1. PICK w : w = wire'
    OBVIOUS
  <2>2. w.blocks = << >> /\ w.digest = << >>
    BY <1>1, <2>1 DEF EmptyWire
  <2>3. FrameBytes(w) = HeaderBytes
    BY <2>2, FreshFrameBytes
  <2> QED BY <2>1, <2>3 DEF FrameBytes
<1>6. PICK b \in Nat : b = FrameBytes(wire)
  BY FrameBytesIs DEF FrameInv, LayoutInv
<1>7. /\ output_len \in Nat /\ output_pos \in Nat /\ taken \in Int /\ behind \in Int
      /\ output_pos <= output_len /\ taken + output_len - output_pos = behind + b
  BY <1>6 DEF FrameInv, OutputInv, OutputOnce
<1>8. OutputInv'
  BY <1>1, <1>5, <1>6, <1>7, WireAssumption DEF OutputInv, OutputOnce
<1> QED BY <1>4, <1>8

\* Every step keeps them in order.
LEMMA FrameStep == FrameInv /\ [Next]_vars => FrameInv'
<1> SUFFICES ASSUME FrameInv, [Next]_vars PROVE LayoutInv' /\ OutputInv'
  BY StepInv, BytesStep DEF FrameInv
<1>0. EncoderInv /\ BytesInv /\ LayoutInv /\ OutputInv
  BY DEF FrameInv
<1>1. CASE encode_buffered_chunk \/ encode_chunk_tail \/ flush \/ finish
  <2>1. PICK take \in Nat, last_block \in BOOLEAN, digest \in Digests : Emits(take, last_block, digest)
    BY <1>0, <1>1, EmittingSteps
  <2> QED BY <1>0, <2>1, EmitLayout, EmitOutput
<1>2. CASE push \/ top_up
  <2>1. LayoutInv'
    BY <1>0, <1>2, PushLayout
  <2>2. wire' = wire /\ behind' = behind /\ UNCHANGED queueVars
    BY <1>2 DEF push, top_up, historyVars
  <2>3. OutputInv'
    BY <1>0, <2>2 DEF OutputInv, OutputOnce, FrameBytes, queueVars
  <2> QED BY <2>1, <2>3
<1>3. CASE read \/ take_output \/ UNCHANGED vars
  <2>1. /\ p' = p /\ wire' = wire /\ call' = call /\ finished' = finished /\ flushed' = flushed
        /\ content_len' = content_len /\ origin' = origin /\ buffered_input' = buffered_input
        /\ behind' = behind
    BY <1>3, IdleSteps
  <2>2. emitted' = emitted /\ waiting' = waiting /\ FrameContent' = FrameContent
        /\ PledgeKept' = PledgeKept
    BY <2>1 DEF emitted, waiting, FrameContent, PledgeKept
  <2>3. ChunksInv'
    BY <1>0, <2>1, <2>2 DEF LayoutInv, ChunksInv
  <2>4. LayoutInv'
    BY <1>0, <2>1, <2>2, <2>3 DEF LayoutInv, EmptyTrailerOnlyWhenAligned
  <2>5. CASE UNCHANGED vars
    <3>1. UNCHANGED queueVars
      BY <2>5 DEF vars, queueVars
    <3>2. OutputInv'
      BY <1>0, <2>1, <3>1 DEF OutputInv, OutputOnce, FrameBytes, queueVars
    <3> QED BY <2>4, <3>2
  <2> QED BY <1>0, <1>3, <2>4, <2>5, TakeOutput
<1>4. CASE reset
  BY <1>4, ResetFrame
<1> QED BY <1>1, <1>2, <1>3, <1>4 DEF Next

\* The bytes, the blocks cut from them and the queue of what they take on the wire stay
\* in order, through every call and every reset.
THEOREM FrameInvariance == Spec => []FrameInv
BY FrameInit, FrameStep, PTL DEF Spec

\* No byte is lost, repeated or reordered, on its way in or on its way out.
THEOREM BytesOnce == Spec => []EveryByteOnce
<1>1. FrameInv => EveryByteOnce
  <2> SUFFICES ASSUME FrameInv PROVE EveryByteOnce
    OBVIOUS
  <2>1. PICK n \in Nat : n = Len(src)
    BY LenProperties DEF FrameInv, EncoderInv
  <2>2. PICK w \in Nat : w = waiting
    BY LenProperties DEF FrameInv, EncoderInv, waiting
  <2>3. PICK e \in Nat : e = emitted
    BY DEF FrameInv, BytesInv
  <2>4. /\ origin \in Int /\ wire.content = Run(origin, e) /\ buffered_input = Run(origin + e, w)
        /\ src = Run(origin + e + w, n) /\ e + w + n = content_len
    BY <2>1, <2>2, <2>3 DEF FrameInv, EncoderInv, BytesInv
  <2>5. Run(origin, e) \o Run(origin + e, w) = Run(origin, e + w)
    BY <2>4, RunOfRuns
  <2>6. Run(origin, e + w) \o Run(origin + (e + w), n) = Run(origin, (e + w) + n)
    <3>1. PICK m : m = e + w
      OBVIOUS
    <3>2. m \in Nat
      BY <3>1
    <3>3. Run(origin, m) \o Run(origin + m, n) = Run(origin, m + n)
      BY <2>4, <3>2, RunOfRuns
    <3> QED BY <3>1, <3>3
  <2>7. origin + (e + w) = origin + e + w /\ (e + w) + n = content_len
    BY <2>4
  <2>8. wire.content \o buffered_input \o src = Run(origin, content_len)
    BY <2>4, <2>5, <2>6, <2>7
  <2> QED BY <2>8 DEF EveryByteOnce, InputOnce, FrameContent, Run, FrameInv, OutputInv
<1> QED BY <1>1, FrameInvariance, PTL

\* What is left when nothing waits is the content.
LEMMA AllOut ==
  ASSUME EncoderInv, BytesInv, finished
  PROVE  wire.content = FrameContent /\ emitted = content_len
<1>1. src = << >> /\ buffered_input = << >>
  BY DEF EncoderInv, BytesInv
<1>2. Len(src) = 0 /\ waiting = 0
  BY <1>1 DEF waiting
<1>3. emitted = content_len
  BY <1>2 DEF BytesInv
<1> QED BY <1>3 DEF BytesInv, FrameContent, Run

\* A frame is closed once, by the block that says so, under a header and a digest of its
\* own content.
THEOREM FrameClosed == Spec => []FinishedFrameDecodes
<1>1. FrameInv => FinishedFrameDecodes
  <2> SUFFICES ASSUME FrameInv PROVE FinishedFrameDecodes
    OBVIOUS
  <2>1. \A i \in DOMAIN wire.blocks : wire.blocks[i].last <=> (finished /\ i = Len(wire.blocks))
    <3>1. DOMAIN wire.blocks = 1..Len(wire.blocks)
      BY DEF FrameInv, LayoutInv
    <3> QED BY <3>1 DEF FrameInv, LayoutInv
  <2>2. finished => wire.content = FrameContent
    BY AllOut DEF FrameInv
  <2>3. finished => wire.header.content_size \in {None, content_len}
    <3>1. wire.header.content_size \in {None, p.pledged_src_size}
      BY DEF FrameInv, BytesInv, FrameHeader
    <3> QED BY <3>1 DEF FrameInv, LayoutInv, PledgeKept
  <2> QED BY <2>1, <2>2, <2>3 DEF FinishedFrameDecodes, FrameInv, LayoutInv
<1> QED BY <1>1, FrameInvariance, PTL

\* No block is wider than the window the header declares; between chunks whole chunks have
\* gone out; an empty last block is spent only where it must be.
THEOREM LayoutKept == Spec => []BlockLayout
<1>1. FrameInv => BlocksFitTheWindow
  <2> SUFFICES ASSUME FrameInv, PledgeNotExceeded, NEW i \in DOMAIN wire.blocks
               PROVE  wire.blocks[i].len <= wire.header.window_size
    BY DEF BlocksFitTheWindow
  <2>1. /\ wire.blocks[i].len <= block_size_for(p) /\ wire.blocks[i].len <= emitted
        /\ wire.blocks[i].len \in Nat
    <3>1. i \in 1..Len(wire.blocks) /\ wire.blocks[i] \in Block
      BY DEF FrameInv, LayoutInv
    <3> QED BY <3>1 DEF FrameInv, LayoutInv, Block
  <2>2. /\ emitted \in Nat /\ emitted <= content_len /\ content_len \in Nat /\ p \in Setups
    <3>1. Len(src) \in Nat /\ waiting \in Nat
      BY LenProperties DEF FrameInv, EncoderInv, waiting
    <3> QED BY <3>1 DEF FrameInv, EncoderInv, BytesInv
  <2>3. block_size_for(p) \in Nat /\ history_limit_for(p) \in Nat
        /\ block_size_for(p) <= history_limit_for(p)
    BY <2>2, Sizes
  <2>4. wire.header.window_size = history_limit_for(p)
        \/ (p.pledged_src_size # None /\ wire.header.window_size = p.pledged_src_size)
    BY DEF FrameInv, BytesInv, FrameHeader
  <2>5. CASE wire.header.window_size = history_limit_for(p)
    BY <2>1, <2>2, <2>3, <2>5
  <2>6. CASE p.pledged_src_size # None /\ wire.header.window_size = p.pledged_src_size
    <3>1. content_len <= p.pledged_src_size /\ p.pledged_src_size \in Nat
      BY <2>2, <2>6, SetupAssumption DEF PledgeNotExceeded
    <3> QED BY <2>1, <2>2, <2>6, <3>1
  <2> QED BY <2>4, <2>5, <2>6
<1>2. FrameInv => StreamingLayout
  BY DEF FrameInv, LayoutInv, ChunksInv, StreamingLayout, emitted
<1>3. FrameInv => BlockLayout
  BY <1>1, <1>2 DEF BlockLayout, FrameInv, LayoutInv
<1> QED BY <1>3, FrameInvariance, PTL

-----------------------------------------------------------------------------
\* The finder's tables over a buffer.

\* What a finder keeps: the tables of the encoder o.
Entry == [pos : Nat, byte : Int]

Tables(o) ==
  [state : {"Contiguous", "Prefixed"}, filed : SUBSET Entry, skipped : SUBSET Int,
   next_to_update : Nat, slots : [0..(o.rebase_period - 1) -> Int]]

\* Every entry was filed for the byte at its position, and far enough from the end to hash.
FiledIn(f, s) ==
  \A e \in f.filed : e.pos < hash_insert_end(Len(s)) /\ At(s, e.pos) = e.byte

\* A tree's cycle reaches over all that a block may have to catch up on.
CycleBeyondLag(o) ==
  o.family = "tree" => UpdateLag <= o.rebase_period /\ UpdateSpan <= o.rebase_period

\* A slot of the cycle holds the latest position filed of its residue.
SlotsLatest(o, f) ==
  Indexed(o) /\ CycleBeyondLag(o) =>
    \A e \in f.filed :
      (\A g \in f.filed : g.pos % o.rebase_period = e.pos % o.rebase_period => g.pos <= e.pos)
        => f.slots[e.pos % o.rebase_period] = e.byte

\* What the cursor passed was filed or, but by the parser over hash chains, passed over
\* on purpose.
CursorPassed(o, f, s) ==
  HasCursor(o) =>
    \A q \in FirstPosition(o)..(f.next_to_update - 1) :
      /\ q < Len(s)
      /\ o.family # "chain" =>
           [pos |-> q, byte |-> At(s, q)] \in f.filed \/ At(s, q) \in f.skipped

\* The tables f are over the buffer s.
TablesOver(o, f, s) ==
  f \in Tables(o) /\ FiledIn(f, s) /\ SlotsLatest(o, f) /\ CursorPassed(o, f, s)

\* Where hashing ends, in a buffer and in a longer one.
LEMMA HashEnd ==
  ASSUME NEW n \in Nat, NEW m \in Nat, n <= m
  PROVE  /\ hash_insert_end(n) \in Nat /\ hash_insert_end(n) <= n
         /\ hash_insert_end(n) <= hash_insert_end(m)
         /\ \A q \in Nat : q < hash_insert_end(n) <=> q + HashTail < n
BY TablesAssumption DEF hash_insert_end, saturating_sub

\* Hashing ends inside the buffer.
LEMMA HashEndWithin ==
  ASSUME NEW n \in Nat
  PROVE  hash_insert_end(n) \in Nat /\ hash_insert_end(n) <= n
BY HashEnd

\* A buffer that grows leaves the tables as they are.
LEMMA TablesGrow ==
  ASSUME NEW o, NEW f, NEW s \in Seq(Int), NEW t \in Seq(Int), Len(s) <= Len(t),
         \A i \in 1..Len(s) : t[i] = s[i], TablesOver(o, f, s)
  PROVE  TablesOver(o, f, t)
<1> PICK n \in Nat : n = Len(s)
  BY LenProperties
<1> PICK m \in Nat : m = Len(t)
  BY LenProperties
<1>1. \A q \in Nat : q < n => At(t, q) = At(s, q)
  <2> SUFFICES ASSUME NEW q \in Nat, q < n PROVE At(t, q) = At(s, q)
    OBVIOUS
  <2>1. q + 1 \in 1..n
    OBVIOUS
  <2> QED BY <2>1 DEF At
<1>2. /\ hash_insert_end(n) \in Nat /\ hash_insert_end(n) <= n
      /\ hash_insert_end(m) \in Nat /\ hash_insert_end(n) <= hash_insert_end(m)
  BY HashEnd
<1>3. FiledIn(f, t)
  <2> SUFFICES ASSUME NEW e \in f.filed
               PROVE  e.pos < hash_insert_end(m) /\ At(t, e.pos) = e.byte
    BY DEF FiledIn
  <2>1. e.pos \in Nat
    BY DEF TablesOver, Tables, Entry
  <2>2. e.pos < hash_insert_end(n) /\ At(s, e.pos) = e.byte
    BY DEF TablesOver, FiledIn
  <2> QED BY <1>1, <1>2, <2>1, <2>2
<1>4. CursorPassed(o, f, t)
  <2> SUFFICES ASSUME HasCursor(o), NEW q \in FirstPosition(o)..(f.next_to_update - 1)
               PROVE  /\ q < m
                      /\ o.family # "chain" =>
                           [pos |-> q, byte |-> At(t, q)] \in f.filed \/ At(t, q) \in f.skipped
    BY DEF CursorPassed
  <2>1. q \in Nat
    BY DEF FirstPosition, TablesOver, Tables
  <2>2. /\ q < n
        /\ o.family # "chain" =>
             [pos |-> q, byte |-> At(s, q)] \in f.filed \/ At(s, q) \in f.skipped
    BY DEF TablesOver, CursorPassed
  <2> QED BY <1>1, <2>1, <2>2
<1> QED BY <1>3, <1>4 DEF TablesOver

\* A nonempty set of positions in a range has a last one.
LEMMA LastOf ==
  ASSUME NEW a \in Int, NEW b \in Int, NEW S \in SUBSET (a..b), S # {}
  PROVE  \E n \in S : \A m \in S : m <= n
<1> DEFINE R == {b - q : q \in S}
<1>1. R \in SUBSET Nat /\ R # {}
  <2>1. \A q \in S : b - q \in Nat
    OBVIOUS
  <2>2. PICK q : q \in S
    OBVIOUS
  <2>3. b - q \in R
    BY <2>2
  <2> QED BY <2>1, <2>3
<1>2. PICK r \in R : \A k \in R : r <= k
  <2> HIDE DEF R
  <2> QED BY <1>1, LeastOf
<1>3. PICK n \in S : r = b - n
  BY <1>2
<1>4. \A m \in S : b - m \in R
  OBVIOUS
<1>5. \A m \in S : b - n <= b - m
  BY <1>2, <1>3, <1>4
<1> QED BY <1>3, <1>5

\* What filing the positions of S does.
Filing(o, f, t, S, g) ==
  /\ g = [state |-> f.state, filed |-> g.filed, skipped |-> f.skipped,
          next_to_update |-> f.next_to_update, slots |-> g.slots]
  /\ g.filed = f.filed \cup {[pos |-> q, byte |-> At(t, q)] : q \in S}
  /\ g.slots = [i \in 0..(o.rebase_period - 1) |->
                  LET hits == {q \in S : q % o.rebase_period = i}
                  IN  IF Indexed(o) /\ hits # {}
                      THEN At(t, CHOOSE q \in hits : \A r \in hits : r <= q)
                      ELSE f.slots[i]]

\* File does that.
LEMMA FileIs ==
  ASSUME NEW o \in Setups, NEW f \in Tables(o), NEW t, NEW S
  PROVE  Filing(o, f, t, S, File(o, f, t, S))
<1> PICK slots : slots =
       [i \in 0..(o.rebase_period - 1) |->
          LET hits == {q \in S : q % o.rebase_period = i}
          IN  IF Indexed(o) /\ hits # {}
              THEN At(t, CHOOSE q \in hits : \A r \in hits : r <= q)
              ELSE f.slots[i]]
  OBVIOUS
<1>1. DOMAIN f.slots = 0..(o.rebase_period - 1)
  BY DEF Tables
<1>2. File(o, f, t, S)
        = [f EXCEPT !.filed = f.filed \cup {[pos |-> q, byte |-> At(t, q)] : q \in S},
                    !.slots = slots]
  BY <1>1 DEF File
<1>3. f = [state |-> f.state, filed |-> f.filed, skipped |-> f.skipped,
           next_to_update |-> f.next_to_update, slots |-> f.slots]
  BY DEF Tables
<1> QED BY <1>2, <1>3 DEF Filing

\* No entry of f sits in the slot of a position of S before it, unless it is filed again.
InOrder(o, f, S) ==
  Indexed(o) /\ CycleBeyondLag(o) =>
    \A e \in f.filed : \A q \in S :
      q % o.rebase_period = e.pos % o.rebase_period => e.pos <= q \/ e.pos \in S

\* Filing keeps the entries, and the slots when it is in order.
LEMMA FileKeeps ==
  ASSUME NEW o \in Setups, NEW f \in Tables(o), NEW t \in Seq(Int), NEW S \in SUBSET Nat,
         FiledIn(f, t), SlotsLatest(o, f), InOrder(o, f, S),
         \A q \in S : q < hash_insert_end(Len(t)),
         NEW g, Filing(o, f, t, S, g)
  PROVE  g \in Tables(o) /\ FiledIn(g, t) /\ SlotsLatest(o, g)
<1> PICK n \in Nat : n = Len(t)
  BY LenProperties
<1> DEFINE c == o.rebase_period
           new == {[pos |-> q, byte |-> At(t, q)] : q \in S}
           hits(i) == {q \in S : q % c = i}
<1>0. c \in Nat \ {0}
  BY SetupAssumption
<1>1. /\ g = [state |-> f.state, filed |-> g.filed, skipped |-> f.skipped,
              next_to_update |-> f.next_to_update, slots |-> g.slots]
      /\ g.filed = f.filed \cup new
      /\ g.slots = [i \in 0..(c - 1) |->
                      IF Indexed(o) /\ hits(i) # {}
                      THEN At(t, CHOOSE q \in hits(i) : \A r \in hits(i) : r <= q)
                      ELSE f.slots[i]]
  BY Zenon DEF Filing
<1>2. hash_insert_end(n) \in Nat /\ hash_insert_end(n) <= n
  BY HashEnd
<1>3. \A q \in S : q \in Nat /\ q < hash_insert_end(n) /\ q < n /\ At(t, q) \in Int
  <2> SUFFICES ASSUME NEW q \in S
               PROVE  q \in Nat /\ q < hash_insert_end(n) /\ q < n /\ At(t, q) \in Int
    OBVIOUS
  <2>1. q \in Nat /\ q < hash_insert_end(n) /\ q < n
    BY <1>2
  <2>2. q + 1 \in 1..Len(t)
    BY <2>1
  <2> QED BY <2>1, <2>2 DEF At
<1>4. /\ f.filed \subseteq Entry /\ f.state \in {"Contiguous", "Prefixed"} /\ f.skipped \subseteq Int
      /\ f.next_to_update \in Nat /\ f.slots \in [0..(c - 1) -> Int]
  BY DEF Tables
<1>5. new \subseteq Entry /\ \A e \in new : e.pos \in S /\ e.byte = At(t, e.pos)
  BY <1>3 DEF Entry
<1>6. \A i : hits(i) # {} =>
        LET last == CHOOSE q \in hits(i) : \A r \in hits(i) : r <= q
        IN  last \in hits(i) /\ \A r \in hits(i) : r <= last
  <2> SUFFICES ASSUME NEW i, hits(i) # {}
               PROVE  \E q \in hits(i) : \A r \in hits(i) : r <= q
    BY Zenon
  <2>1. \A q \in hits(i) : q \in 0..n
    BY <1>3
  <2>2. PICK R : R = hits(i)
    OBVIOUS
  <2>3. R \in SUBSET (0..n) /\ R # {}
    BY <2>1, <2>2
  <2>4. \E q \in R : \A r \in R : r <= q
    <3>1. PICK a \in Int, b \in Int : a = 0 /\ b = n
      OBVIOUS
    <3>2. R \in SUBSET (a..b) /\ R # {}
      BY <2>3, <3>1
    <3> QED BY <3>2, LastOf
  <2> QED BY <2>2, <2>4
<1> HIDE DEF hits, new, c
<1>7. \A q \in S : q \in hits(q % c)
  BY DEF hits
<1>8. \A i : hits(i) \subseteq S /\ \A q \in hits(i) : q % c = i
  BY DEF hits
<1>9. g.slots \in [0..(c - 1) -> Int]
  <2>1. \A i \in 0..(c - 1) : g.slots[i] \in Int
    <3> SUFFICES ASSUME NEW i \in 0..(c - 1) PROVE g.slots[i] \in Int
      OBVIOUS
    <3>1. CASE Indexed(o) /\ hits(i) # {}
      <4>1. PICK last \in hits(i) : last = CHOOSE q \in hits(i) : \A r \in hits(i) : r <= q
        BY <1>6, <3>1
      <4>2. g.slots[i] = At(t, last)
        BY <1>1, <3>1, <4>1
      <4>3. last \in S
        BY <1>8, <4>1
      <4> QED BY <1>3, <4>2, <4>3
    <3>2. CASE ~(Indexed(o) /\ hits(i) # {})
      <4>1. g.slots[i] = f.slots[i]
        BY <1>1, <3>2
      <4> QED BY <1>4, <4>1
    <3> QED BY <3>1, <3>2
  <2> QED BY <1>1, <2>1
<1>10. g \in Tables(o)
  <2>1. g.filed \in SUBSET Entry /\ f.skipped \in SUBSET Int
    BY <1>1, <1>4, <1>5
  <2>2. g = [state |-> f.state, filed |-> g.filed, skipped |-> f.skipped,
             next_to_update |-> f.next_to_update, slots |-> g.slots]
    BY <1>1
  <2> QED BY <1>4, <1>9, <2>1, <2>2 DEF Tables, c
<1>11. FiledIn(g, t)
  BY <1>1, <1>3, <1>5 DEF FiledIn
<1>12. SlotsLatest(o, g)
  <2> SUFFICES ASSUME Indexed(o), CycleBeyondLag(o), NEW e \in g.filed,
                      \A d \in g.filed : d.pos % c = e.pos % c => d.pos <= e.pos
               PROVE  g.slots[e.pos % c] = e.byte
    BY DEF SlotsLatest, c
  <2>1. PICK i \in 0..(c - 1) : i = e.pos % c
    <3>1. e.pos \in Nat
      BY <1>1, <1>4, <1>5 DEF Entry
    <3> QED BY <1>0, <3>1, ModRange
  <2>2. e.pos \in Nat /\ e.byte = At(t, e.pos)
    BY <1>1, <1>4, <1>5, <1>11 DEF Entry, FiledIn
  <2>3. CASE hits(i) # {}
    <3>1. PICK last \in hits(i) : /\ last = (CHOOSE q \in hits(i) : \A r \in hits(i) : r <= q)
                                  /\ \A r \in hits(i) : r <= last
      BY <1>6, <2>3
    <3>2. g.slots[i] = At(t, last)
      BY <1>1, <2>3, <3>1
    <3>3. last \in S /\ last % c = i
      BY <1>8, <3>1
    <3>4. last <= e.pos
      <4>1. PICK d \in new : d.pos = last
        <5>1. [pos |-> last, byte |-> At(t, last)] \in new
          BY <3>3 DEF new
        <5> QED BY <5>1
      <4>2. d \in g.filed
        BY <1>1, <4>1
      <4> QED BY <2>1, <3>3, <4>1, <4>2
    <3>5. e.pos \in S
      <4>1. CASE e \in new
        BY <1>5, <4>1
      <4>2. CASE e \in f.filed
        <5>1. e.pos <= last \/ e.pos \in S
          BY <2>1, <3>3, <4>2 DEF InOrder, c
        <5>2. last \in Nat
          BY <1>3, <3>3
        <5> QED BY <2>2, <3>3, <3>4, <5>1, <5>2
      <4> QED BY <1>1, <4>1, <4>2
    <3>6. e.pos <= last
      BY <1>7, <2>1, <3>1, <3>5
    <3>7. e.pos = last
      <4>1. last \in Nat
        BY <1>3, <3>3
      <4> QED BY <2>2, <3>4, <3>6, <4>1
    <3> QED BY <2>1, <2>2, <3>2, <3>7
  <2>4. CASE hits(i) = {}
    <3>1. g.slots[i] = f.slots[i]
      BY <1>1, <2>4
    <3>2. e \in f.filed
      <4>1. e \notin new
        BY <1>5, <1>7, <2>1, <2>4
      <4> QED BY <1>1, <4>1
    <3>3. \A d \in f.filed : d.pos % c = e.pos % c => d.pos <= e.pos
      BY <1>1
    <3>4. f.slots[e.pos % c] = e.byte
      BY <3>2, <3>3 DEF SlotsLatest, c
    <3> QED BY <2>1, <3>1, <3>4
  <2> QED BY <2>3, <2>4
<1> QED BY <1>10, <1>11, <1>12

\* Every entry of f lies less than a cycle beyond from.
EntriesNear(o, f, from) ==
  CycleBeyondLag(o) => \A e \in f.filed : e.pos < from + o.rebase_period

\* Then whatever is filed from there on is in order.
LEMMA NearInOrder ==
  ASSUME NEW o \in Setups, NEW f \in Tables(o), NEW from \in Nat, EntriesNear(o, f, from),
         NEW S \in SUBSET Nat, \A q \in S : q >= from
  PROVE  InOrder(o, f, S)
<1> SUFFICES ASSUME CycleBeyondLag(o), NEW e \in f.filed, NEW q \in S,
                    q % o.rebase_period = e.pos % o.rebase_period
             PROVE  e.pos <= q
  BY DEF InOrder
<1>1. PICK c \in Nat \ {0} : c = o.rebase_period
  BY SetupAssumption
<1>2. PICK at \in Nat : at = e.pos
  BY DEF Tables, Entry
<1>3. at < from + c
  BY <1>1, <1>2 DEF EntriesNear
<1>4. q \in Nat /\ q >= from /\ q % c = at % c
  BY <1>1, <1>2
<1>5. CASE q < at
  <2>1. at - q < c
    BY <1>3, <1>4, <1>5
  <2> QED BY <1>4, <1>5, <2>1, NearRemainders
<1> QED BY <1>2, <1>4, <1>5

\* Inserting from the cursor, or before it, to the end of the buffer.
LEMMA InsertKeeps ==
  ASSUME NEW o \in Setups, NEW t \in Seq(Int), NEW f, TablesOver(o, f, t), NEW start \in Nat,
         HasCursor(o) => start <= f.next_to_update,
         o.family = "tree" => EntriesNear(o, f, start),
         NEW passed, NEW g, g = insert_range(o, f, t, start, Len(t), passed)
  PROVE  TablesOver(o, g, t) /\ g.state = f.state
<1> PICK n \in Nat : n = Len(t)
  BY LenProperties
<1>1. PICK to \in Nat : to = hash_insert_end(n) /\ to <= n
  BY HashEnd
<1>2. Least(Len(t), hash_insert_end(Len(t))) = to
  BY <1>1 DEF Least
<1>3. /\ f \in Tables(o) /\ FiledIn(f, t) /\ SlotsLatest(o, f) /\ CursorPassed(o, f, t)
      /\ f.next_to_update \in Nat /\ f.filed \in SUBSET Entry
  BY DEF TablesOver, Tables
<1>4. \A e \in f.filed : e.pos < to
  BY <1>1, <1>3 DEF FiledIn
<1>5. CASE o.family \in {"fast", "tree"}
  <2>0. PICK S \in SUBSET Nat : S = (start..(to - 1)) \ passed
    <3>1. (start..(to - 1)) \ passed \in SUBSET Nat
      OBVIOUS
    <3> QED BY <3>1
  <2>1. g = File(o, f, t, S)
    BY <1>2, <1>5, <2>0 DEF insert_range
  <2>2. Filing(o, f, t, S, g)
    BY <1>3, <2>1, FileIs
  <2>3. g \in Tables(o) /\ FiledIn(g, t) /\ SlotsLatest(o, g)
    <3>1. \A q \in S : q >= start /\ q < to
      BY <2>0
    <3>2. InOrder(o, f, S)
      <4>1. CASE o.family = "fast"
        <5>1. ~Indexed(o)
          BY <4>1 DEF Indexed
        <5> QED BY <5>1 DEF InOrder
      <4>2. CASE o.family = "tree"
        BY <1>3, <3>1, <4>2, NearInOrder
      <4> QED BY <1>5, <4>1, <4>2
    <3> QED BY <1>1, <1>3, <2>2, <3>1, <3>2, FileKeeps
  <2>4. /\ g.state = f.state /\ g.skipped = f.skipped /\ g.next_to_update = f.next_to_update
        /\ f.filed \subseteq g.filed
    <3>1. g = [state |-> f.state, filed |-> g.filed, skipped |-> f.skipped,
               next_to_update |-> f.next_to_update, slots |-> g.slots]
      BY <2>2 DEF Filing
    <3>2. f.filed \subseteq g.filed
      BY <2>2 DEF Filing
    <3> QED BY <3>1, <3>2
  <2>5. CursorPassed(o, g, t)
    BY <1>3, <2>4 DEF CursorPassed
  <2> QED BY <2>3, <2>4, <2>5 DEF TablesOver
<1>6. CASE o.family \notin {"fast", "tree"}
  <2>1. HasCursor(o) /\ start <= f.next_to_update
    BY <1>6 DEF HasCursor
  <2>2. PICK from \in Nat : from = Least(Greatest(start, f.next_to_update), to)
                            /\ from = Least(f.next_to_update, to)
    BY <1>1, <1>3, <2>1 DEF Least, Greatest
  <2>0. PICK S \in SUBSET Nat : S = from..(to - 1)
    OBVIOUS
  <2>3. PICK h : h = File(o, f, t, S)
    OBVIOUS
  <2>4. g = [h EXCEPT !.next_to_update = Greatest(f.next_to_update, to)]
    BY <1>2, <1>6, <2>0, <2>2, <2>3 DEF insert_range
  <2>5. Filing(o, f, t, S, h)
    BY <1>3, <2>3, FileIs
  <2>6. h \in Tables(o) /\ FiledIn(h, t) /\ SlotsLatest(o, h)
    <3>1. InOrder(o, f, S)
      <4> SUFFICES ASSUME NEW e \in f.filed, NEW q \in S PROVE e.pos <= q \/ e.pos \in S
        BY DEF InOrder
      <4>1. e.pos \in Nat /\ e.pos < to /\ q \in Nat /\ q >= from
        BY <1>3, <1>4, <2>0 DEF Entry
      <4> QED BY <2>0, <4>1
    <3>2. \A q \in S : q < to
      BY <2>0
    <3> QED BY <1>1, <1>3, <2>5, <3>1, <3>2, FileKeeps
  <2>7. PICK next \in Nat : next = Greatest(f.next_to_update, to)
    BY <1>1, <1>3 DEF Greatest
  <2>8. /\ h = [state |-> f.state, filed |-> h.filed, skipped |-> f.skipped,
                next_to_update |-> f.next_to_update, slots |-> h.slots]
        /\ f.filed \subseteq h.filed
        /\ \A q \in from..(to - 1) : [pos |-> q, byte |-> At(t, q)] \in h.filed
    BY <2>0, <2>5 DEF Filing
  <2>9. g = [state |-> f.state, filed |-> h.filed, skipped |-> f.skipped,
             next_to_update |-> next, slots |-> h.slots]
    BY <2>4, <2>7, <2>8
  <2>10. g \in Tables(o)
    BY <2>6, <2>7, <2>8, <2>9 DEF Tables
  <2>11. FiledIn(g, t) /\ SlotsLatest(o, g)
    BY <2>6, <2>9 DEF FiledIn, SlotsLatest
  <2>12. CursorPassed(o, g, t)
    <3> SUFFICES ASSUME NEW q \in FirstPosition(o)..(next - 1)
                 PROVE  /\ q < n
                        /\ o.family # "chain" =>
                             [pos |-> q, byte |-> At(t, q)] \in h.filed \/ At(t, q) \in f.skipped
      BY <2>9 DEF CursorPassed
    <3>1. q \in Nat
      BY DEF FirstPosition
    <3>2. CASE q < f.next_to_update
      <4>1. q \in FirstPosition(o)..(f.next_to_update - 1)
        BY <1>3, <3>1, <3>2 DEF FirstPosition
      <4> QED BY <1>3, <2>1, <2>8, <4>1 DEF CursorPassed
    <3>3. CASE ~(q < f.next_to_update)
      <4>1. q \in from..(to - 1) /\ q < n
        BY SMTT(30), <1>1, <1>3, <2>2, <2>7, <3>1, <3>3 DEF Least, Greatest
      <4> QED BY <2>8, <4>1
    <3> QED BY <3>2, <3>3
  <2> QED BY <2>9, <2>10, <2>11, <2>12 DEF TablesOver
<1> QED BY <1>5, <1>6

\* The clamp of a long match moves the cursor only, near the block, and keeps what it
\* passes.
LEMMA LimitKeeps ==
  ASSUME NEW o \in Setups, NEW t \in Seq(Int), NEW f, TablesOver(o, f, t),
         NEW block_start \in Nat, block_start <= Len(t),
         NEW g, g = limit_update_after_long_match(o, f, t, block_start)
  PROVE  /\ TablesOver(o, g, t) /\ g.state = f.state /\ g.filed = f.filed
         /\ HasCursor(o) => \/ block_start <= g.next_to_update + UpdateLag
                            \/ block_start <= g.next_to_update + UpdateSpan
<1> PICK n \in Nat : n = Len(t)
  BY LenProperties
<1> PICK lag \in Int : lag = block_start - f.next_to_update - UpdateLag
  BY TablesAssumption DEF TablesOver, Tables
<1>1. CASE ~HasCursor(o)
  BY <1>1 DEF limit_update_after_long_match
<1>2. CASE HasCursor(o)
  <2>1. PICK next \in Nat :
          /\ next = IF lag <= 0 THEN f.next_to_update ELSE block_start - Least(UpdateSpan, lag)
          /\ next # f.next_to_update => next <= block_start
          /\ block_start <= next + UpdateLag \/ block_start <= next + UpdateSpan
    <3>1. f.next_to_update \in Nat
      BY DEF TablesOver, Tables
    <3>2. CASE lag <= 0
      BY <3>1, <3>2, TablesAssumption
    <3>3. CASE ~(lag <= 0)
      <4>1. PICK back \in Nat : /\ back = Least(UpdateSpan, lag)
                                /\ back <= lag /\ back <= UpdateSpan
        BY <3>3, TablesAssumption DEF Least
      <4>2. block_start - back \in Nat
        BY <3>1, <4>1, TablesAssumption
      <4> QED BY <3>3, <4>1, <4>2, TablesAssumption
    <3> QED BY <3>2, <3>3
  <2>2. PICK more : more = {At(t, q) : q \in f.next_to_update..(next - 1)}
    OBVIOUS
  <2>3. g = [f EXCEPT !.next_to_update = next, !.skipped = f.skipped \cup more]
    BY <1>2, <2>1, <2>2 DEF limit_update_after_long_match
  <2>4. /\ f = [state |-> f.state, filed |-> f.filed, skipped |-> f.skipped,
                next_to_update |-> f.next_to_update, slots |-> f.slots]
        /\ f.next_to_update \in Nat /\ f.skipped \in SUBSET Int
    BY DEF TablesOver, Tables
  <2>5. g = [state |-> f.state, filed |-> f.filed, skipped |-> f.skipped \cup more,
             next_to_update |-> next, slots |-> f.slots]
    BY <2>3, <2>4
  <2>6. \A q \in f.next_to_update..(next - 1) : q \in Nat /\ q < n /\ At(t, q) \in Int
    <3> SUFFICES ASSUME NEW q \in f.next_to_update..(next - 1)
                 PROVE  q \in Nat /\ q < n /\ At(t, q) \in Int
      OBVIOUS
    <3>1. q \in Nat /\ q < n
      BY <2>1, <2>4
    <3>2. q + 1 \in 1..Len(t)
      BY <3>1
    <3> QED BY <3>1, <3>2 DEF At
  <2>7. g \in Tables(o)
    <3>1. f.skipped \cup more \in SUBSET Int
      BY <2>2, <2>4, <2>6
    <3> QED BY <2>1, <2>5, <3>1 DEF TablesOver, Tables
  <2>8. FiledIn(g, t) /\ SlotsLatest(o, g)
    BY <2>5 DEF TablesOver, FiledIn, SlotsLatest
  <2>9. CursorPassed(o, g, t)
    <3> SUFFICES ASSUME NEW q \in FirstPosition(o)..(next - 1)
                 PROVE  /\ q < n
                        /\ o.family # "chain" =>
                             \/ [pos |-> q, byte |-> At(t, q)] \in f.filed
                             \/ At(t, q) \in f.skipped \cup more
      BY <2>5 DEF CursorPassed
    <3>1. q \in Nat
      BY DEF FirstPosition
    <3>2. CASE q < f.next_to_update
      <4>1. q \in FirstPosition(o)..(f.next_to_update - 1)
        BY <2>4, <3>1, <3>2 DEF FirstPosition
      <4> QED BY <1>2, <4>1 DEF TablesOver, CursorPassed
    <3>3. CASE ~(q < f.next_to_update)
      <4>1. q \in f.next_to_update..(next - 1)
        BY <2>1, <2>4, <3>1, <3>3
      <4> QED BY <2>2, <2>6, <4>1
    <3> QED BY <3>2, <3>3
  <2>10. block_start <= g.next_to_update + UpdateLag \/ block_start <= g.next_to_update + UpdateSpan
    BY <2>1, <2>5
  <2> QED BY <2>5, <2>7, <2>8, <2>9, <2>10 DEF TablesOver
<1> QED BY <1>1, <1>2

\* However far the parser of a block goes, and whatever it passes over.
LEMMA ParsedKeeps ==
  ASSUME NEW o \in Setups, NEW t \in Seq(Int), NEW f, TablesOver(o, f, t),
         NEW block_start \in Nat, block_start <= Len(t), \A e \in f.filed : e.pos < block_start,
         o.family = "tree" => EntriesNear(o, f, f.next_to_update),
         NEW g \in Parsed(o, f, t, block_start)
  PROVE  TablesOver(o, g, t) /\ g.state = f.state
<1> PICK n \in Nat : n = Len(t)
  BY LenProperties
<1>1. PICK he \in Nat : he = hash_insert_end(n) /\ he <= n
  BY HashEnd
<1> PICK stop \in Stops(o, f, t, block_start) :
      \E passed \in SUBSET MayPass(o, f, block_start, stop) :
        g = ParseTo(o, f, t, block_start, stop, passed)
  BY Zenon DEF Parsed
<1>2. PICK passed \in SUBSET MayPass(o, f, block_start, stop) :
        g = ParseTo(o, f, t, block_start, stop, passed)
  OBVIOUS
<1>3. PICK from : from = CatchUpFrom(o, f, block_start)
  OBVIOUS
<1> PICK S : S = (from..(stop - 1)) \ passed
  OBVIOUS
<1>4. /\ f \in Tables(o) /\ FiledIn(f, t) /\ SlotsLatest(o, f) /\ CursorPassed(o, f, t)
      /\ f.next_to_update \in Nat /\ f.skipped \in SUBSET Int
  BY DEF TablesOver, Tables
<1>5. CASE ~HasCursor(o)
  <2>1. from = block_start /\ stop = he
    BY <1>1, <1>2, <1>3, <1>5 DEF CatchUpFrom, Stops, HasCursor
  <2>2. g = File(o, f, t, S)
    BY <1>2, <1>3, <1>5 DEF ParseTo
  <2>3. Filing(o, f, t, S, g)
    BY <1>4, <2>2, FileIs
  <2>4. S \in SUBSET Nat /\ \A q \in S : q < he
    BY <1>1, <2>1
  <2>5. g \in Tables(o) /\ FiledIn(g, t) /\ SlotsLatest(o, g)
    <3>1. InOrder(o, f, S)
      BY <1>5 DEF InOrder, Indexed, HasCursor
    <3> QED BY <1>1, <1>4, <2>3, <2>4, <3>1, FileKeeps
  <2>6. g.state = f.state
    <3>1. g = [state |-> f.state, filed |-> g.filed, skipped |-> f.skipped,
               next_to_update |-> f.next_to_update, slots |-> g.slots]
      BY <2>3 DEF Filing
    <3> QED BY <3>1
  <2> QED BY <1>5, <2>5, <2>6 DEF TablesOver, CursorPassed
<1>6. CASE HasCursor(o)
  <2>1. /\ from \in Nat /\ from >= f.next_to_update
        /\ o.family = "chain" => from >= block_start
        /\ o.family # "chain" => from = f.next_to_update
        /\ stop \in Nat /\ stop >= f.next_to_update
        /\ stop > f.next_to_update => stop <= he
    <3>1. from = IF o.family = "chain" THEN Greatest(f.next_to_update, block_start)
                 ELSE f.next_to_update
      <4>1. CASE o.family = "chain"
        BY <1>3, <4>1 DEF CatchUpFrom
      <4>2. CASE o.family # "chain"
        BY <1>3, <1>6, <4>2 DEF CatchUpFrom, HasCursor
      <4> QED BY <4>1, <4>2
    <3>2. \/ stop = f.next_to_update
          \/ \E q \in block_start..(he - 1) : stop = Greatest(f.next_to_update, q + 1)
      BY <1>1, <1>2, <1>6 DEF Stops
    <3>3. from \in Nat /\ from >= f.next_to_update /\ (o.family = "chain" => from >= block_start)
      BY <1>4, <3>1 DEF Greatest
    <3>4. stop \in Nat /\ stop >= f.next_to_update /\ (stop > f.next_to_update => stop <= he)
      BY <1>1, <1>4, <3>2 DEF Greatest
    <3> QED BY <3>1, <3>3, <3>4
  <2>2. PICK h : h = File(o, f, t, S)
    OBVIOUS
  <2>3. PICK more : more = {At(t, q) : q \in passed}
    OBVIOUS
  <2>4. g = [h EXCEPT !.next_to_update = stop, !.skipped = h.skipped \cup more]
    BY <1>2, <1>3, <1>6, <2>2, <2>3 DEF ParseTo
  <2>5. Filing(o, f, t, S, h)
    BY <1>4, <2>2, FileIs
  <2>6. S \in SUBSET Nat /\ \A q \in S : q < he /\ q >= from
    BY <1>1, <1>4, <2>1
  <2>7. h \in Tables(o) /\ FiledIn(h, t) /\ SlotsLatest(o, h)
    <3>1. InOrder(o, f, S)
      <4>1. CASE ~Indexed(o)
        BY <4>1 DEF InOrder
      <4>2. CASE o.family = "tree"
        <5>1. EntriesNear(o, f, from)
          BY <2>1, <4>2
        <5> QED BY <1>4, <2>1, <2>6, <5>1, NearInOrder
      <4>3. CASE o.family = "chain"
        <5>1. \A e \in f.filed : e.pos \in Nat
          BY <1>4 DEF Tables, Entry
        <5>2. \A e \in f.filed, q \in S : e.pos <= q
          BY <2>1, <2>6, <4>3, <5>1
        <5> QED BY <5>2 DEF InOrder
      <4> QED BY <4>1, <4>2, <4>3 DEF Indexed
    <3> QED BY <1>1, <1>4, <2>5, <2>6, <3>1, FileKeeps
  <2>8. /\ h = [state |-> f.state, filed |-> h.filed, skipped |-> f.skipped,
                next_to_update |-> f.next_to_update, slots |-> h.slots]
        /\ f.filed \subseteq h.filed
        /\ \A q \in (from..(stop - 1)) \ passed : [pos |-> q, byte |-> At(t, q)] \in h.filed
    BY <2>5 DEF Filing
  <2>9. g = [state |-> f.state, filed |-> h.filed, skipped |-> f.skipped \cup more,
             next_to_update |-> stop, slots |-> h.slots]
    <3>1. h.skipped = f.skipped /\ h.state = f.state
      BY <2>8
    <3>2. g = [h EXCEPT !.next_to_update = stop, !.skipped = f.skipped \cup more]
      BY <2>4, <3>1
    <3>3. PICK skipped : skipped = f.skipped \cup more
      OBVIOUS
    <3>4. g = [h EXCEPT !.next_to_update = stop, !.skipped = skipped]
      BY <3>2, <3>3
    <3>5. h = [state |-> f.state, filed |-> h.filed, skipped |-> f.skipped,
               next_to_update |-> f.next_to_update, slots |-> h.slots]
      BY <2>8
    <3>6. g = [state |-> f.state, filed |-> h.filed, skipped |-> skipped,
               next_to_update |-> stop, slots |-> h.slots]
      <4>1. PICK state, filed, left, next, slots :
              /\ state = f.state /\ filed = h.filed /\ left = f.skipped
              /\ next = f.next_to_update /\ slots = h.slots
        OBVIOUS
      <4>2. h = [state |-> state, filed |-> filed, skipped |-> left,
                 next_to_update |-> next, slots |-> slots]
        BY <3>5, <4>1
      <4>3. g = [state |-> state, filed |-> filed, skipped |-> skipped,
                 next_to_update |-> stop, slots |-> slots]
        BY <3>4, <4>2
      <4> QED BY <4>1, <4>3
    <3> QED BY <3>3, <3>6
  <2>10. \A q \in f.next_to_update..(stop - 1) : q \in Nat /\ q < n /\ At(t, q) \in Int
    <3> SUFFICES ASSUME NEW q \in f.next_to_update..(stop - 1)
                 PROVE  q \in Nat /\ q < n /\ At(t, q) \in Int
      OBVIOUS
    <3>1. q \in Nat /\ q < n
      BY <1>1, <1>4, <2>1
    <3>2. q + 1 \in 1..Len(t)
      BY <3>1
    <3> QED BY <3>1, <3>2 DEF At
  <2>11. g \in Tables(o)
    <3>1. \A q \in passed : q \in f.next_to_update..(stop - 1)
      BY <1>3, <1>4, <2>1 DEF MayPass
    <3>2. f.skipped \cup more \in SUBSET Int
      BY <1>4, <2>3, <2>10, <3>1
    <3> QED BY <2>1, <2>7, <2>8, <2>9, <3>2 DEF Tables
  <2>12. FiledIn(g, t) /\ SlotsLatest(o, g)
    BY <2>7, <2>9 DEF FiledIn, SlotsLatest
  <2>13. CursorPassed(o, g, t)
    <3> SUFFICES ASSUME NEW q \in FirstPosition(o)..(stop - 1)
                 PROVE  /\ q < n
                        /\ o.family # "chain" =>
                             \/ [pos |-> q, byte |-> At(t, q)] \in h.filed
                             \/ At(t, q) \in f.skipped \cup more
      BY <2>9 DEF CursorPassed
    <3>1. q \in Nat
      BY DEF FirstPosition
    <3>2. CASE q < f.next_to_update
      <4>1. q \in FirstPosition(o)..(f.next_to_update - 1)
        BY <1>4, <3>1, <3>2 DEF FirstPosition
      <4> QED BY <1>4, <1>6, <2>8, <4>1 DEF CursorPassed
    <3>3. CASE ~(q < f.next_to_update)
      <4>1. q \in f.next_to_update..(stop - 1)
        BY <1>4, <2>1, <3>1, <3>3
      <4>2. CASE q \in passed
        BY <2>3, <2>10, <4>1, <4>2
      <4>3. CASE q \notin passed /\ o.family # "chain"
        <5>1. q \in (from..(stop - 1)) \ passed
          BY <1>4, <2>1, <4>1, <4>3
        <5> QED BY <2>8, <2>10, <4>1, <5>1
      <4> QED BY <2>10, <4>1, <4>2, <4>3
    <3> QED BY <3>2, <3>3
  <2> QED BY <2>9, <2>11, <2>12, <2>13 DEF TablesOver
<1> QED BY <1>5, <1>6

\* A block that goes out, whichever way, keeps the tables.
LEMMA AfterBlockKeeps ==
  ASSUME NEW o \in Setups, NEW s \in Seq(Int), NEW t \in Seq(Int), Len(s) <= Len(t),
         \A i \in 1..Len(s) : t[i] = s[i], NEW f, TablesOver(o, f, s), NEW route,
         NEW g \in AfterBlock(o, f, t, Len(s), route)
  PROVE  TablesOver(o, g, t) /\ g.state = f.state /\ (f.state = "Prefixed" => g = f)
<1>1. TablesOver(o, f, t)
  BY TablesGrow
<1>2. PICK m \in Nat : m = Len(s) /\ m <= Len(t)
  BY LenProperties
<1>3. \A e \in f.filed : e.pos < m
  <2>1. hash_insert_end(m) \in Nat /\ hash_insert_end(m) <= m
    BY HashEnd
  <2>2. \A e \in f.filed : e.pos \in Nat /\ e.pos < hash_insert_end(m)
    BY <1>2 DEF TablesOver, FiledIn, Tables, Entry
  <2> QED BY <2>1, <2>2
<1>4. CASE f.state = "Prefixed" \/ m = Len(t)
  BY <1>1, <1>2, <1>4 DEF AfterBlock
<1>5. CASE ~(f.state = "Prefixed" \/ m = Len(t))
  <2>1. ASSUME NEW h, TablesOver(o, h, t)
        PROVE  /\ bypassed_insert_start(o, h, m) \in Nat
               /\ HasCursor(o) => bypassed_insert_start(o, h, m) <= h.next_to_update
    <3>1. h.next_to_update \in Nat
      BY <2>1 DEF TablesOver, Tables
    <3> QED BY <3>1 DEF bypassed_insert_start, Least
  <2>2. CASE route = "small"
    <3>1. g = insert_uncompressed(o, f, t, m)
      BY <1>2, <1>5, <2>2 DEF AfterBlock
    <3>2. \/ g = f
          \/ /\ o.family # "tree"
             /\ g = insert_range(o, f, t, bypassed_insert_start(o, f, m), Len(t), {})
      BY <3>1 DEF insert_uncompressed
    <3>3. CASE /\ o.family # "tree"
               /\ g = insert_range(o, f, t, bypassed_insert_start(o, f, m), Len(t), {})
      <4>1. PICK start \in Nat : start = bypassed_insert_start(o, f, m)
        BY <1>1, <2>1
      <4>2. HasCursor(o) => start <= f.next_to_update
        BY <1>1, <2>1, <4>1
      <4>3. g = insert_range(o, f, t, start, Len(t), {})
        BY <3>3, <4>1
      <4>4. TablesOver(o, g, t) /\ g.state = f.state
        BY SMTT(30), <1>1, <3>3, <4>2, <4>3, InsertKeeps
      <4> QED BY <1>5, <4>4
    <3> QED BY <1>1, <1>5, <3>2, <3>3
  <2>3. PICK h : h = limit_update_after_long_match(o, f, t, m)
    OBVIOUS
  <2>4. TablesOver(o, h, t) /\ h.state = f.state /\ h.filed = f.filed
    BY <1>1, <1>2, <2>3, LimitKeeps
  <2>7. o.family = "tree" => /\ EntriesNear(o, h, h.next_to_update)
                             /\ EntriesNear(o, h, bypassed_insert_start(o, h, m))
    <3> SUFFICES ASSUME o.family = "tree", CycleBeyondLag(o), NEW e \in h.filed
                 PROVE  /\ e.pos < h.next_to_update + o.rebase_period
                        /\ e.pos < bypassed_insert_start(o, h, m) + o.rebase_period
      BY DEF EntriesNear
    <3>1. e.pos \in Nat /\ e.pos < m /\ h.next_to_update \in Nat
      BY <1>3, <2>4 DEF TablesOver, Tables, Entry
    <3>2. m <= h.next_to_update + UpdateLag \/ m <= h.next_to_update + UpdateSpan
      BY <1>1, <1>2, <2>3, LimitKeeps DEF HasCursor
    <3>3. PICK c \in Nat \ {0} : c = o.rebase_period /\ UpdateLag <= c /\ UpdateSpan <= c
      BY SetupAssumption DEF CycleBeyondLag
    <3>4. bypassed_insert_start(o, h, m) = Least(h.next_to_update, m)
      BY DEF bypassed_insert_start, HasCursor
    <3>5. PICK next \in Nat : next = h.next_to_update
      BY <3>1
    <3>6. m <= next + c
      BY <3>2, <3>3, <3>5, TablesAssumption
    <3>7. e.pos < next + c /\ e.pos < m + c
      BY <3>1, <3>3, <3>6
    <3>8. Least(next, m) \in {next, m}
      BY DEF Least
    <3> QED BY <3>3, <3>4, <3>5, <3>7, <3>8
  <2>5. CASE route = "rle"
    <3>1. PICK passed : g = insert_range(o, h, t, bypassed_insert_start(o, h, m), Len(t), passed)
      BY <1>2, <1>5, <2>3, <2>5 DEF AfterBlock, insert_rle_block, InsertFromCursor
    <3>2. PICK start \in Nat : start = bypassed_insert_start(o, h, m)
      BY <2>1, <2>4
    <3>3. HasCursor(o) => start <= h.next_to_update
      BY <2>1, <2>4, <3>2
    <3>4. g = insert_range(o, h, t, start, Len(t), passed)
      BY <3>1, <3>2
    <3>5. TablesOver(o, g, t) /\ g.state = h.state
      BY SMTT(30), <2>4, <2>7, <3>2, <3>3, <3>4, InsertKeeps
    <3> QED BY <1>5, <2>4, <3>5
  <2>6. CASE route \notin {"small", "rle"}
    <3>1. g \in Parsed(o, h, t, m)
      BY <1>2, <1>5, <2>3, <2>6 DEF AfterBlock
    <3>2. \A e \in h.filed : e.pos < m
      BY <1>3, <2>4
    <3>3. TablesOver(o, g, t) /\ g.state = h.state
      BY <1>2, <2>4, <2>7, <3>1, <3>2, ParsedKeeps
    <3> QED BY <1>5, <2>4, <3>3
  <2> QED BY <2>2, <2>5, <2>6
<1> QED BY <1>4, <1>5

\* Whole cycles less leave the remainder.
LEMMA ModShift ==
  ASSUME NEW b \in Nat, NEW d \in Nat, NEW c \in Nat \ {0}, d % c = 0
  PROVE  (b + d) % c = b % c
<1>1. PICK k \in Nat : d = c * k
  <2>1. d = c * (d \div c) /\ (d \div c) \in Nat
    BY DivMod
  <2> QED BY <2>1
<1>2. PICK q \in Nat, r \in 0..(c - 1) : b = c * q + r /\ r = b % c
  BY DivMod, ModRange
<1>3. b + d = c * (q + k) + r
  BY <1>1, <1>2
<1>4. \A x \in Nat : (c * x + r) % c = r
  BY Z3
<1>5. PICK x \in Nat : x = q + k
  BY <1>1, <1>2
<1>6. b + d = c * x + r
  BY <1>3, <1>5
<1> QED BY <1>2, <1>4, <1>5, <1>6

\* What moving the entries down gives.
LEMMA ShiftedEntries ==
  ASSUME NEW filed \in SUBSET Entry, NEW delta \in Nat
  PROVE  /\ ShiftEntries(filed, delta) \in SUBSET Entry
         /\ \A e \in filed : e.pos >= delta =>
              [pos |-> e.pos - delta, byte |-> e.byte] \in ShiftEntries(filed, delta)
         /\ \A k \in ShiftEntries(filed, delta) :
              \E e \in filed : e.pos >= delta /\ k = [pos |-> e.pos - delta, byte |-> e.byte]
<1> DEFINE R == {e \in filed : e.pos >= delta}
<1>1. ShiftEntries(filed, delta) = {[e EXCEPT !.pos = e.pos - delta] : e \in R}
  BY DEF ShiftEntries
<1>2. \A e \in R : /\ [e EXCEPT !.pos = e.pos - delta] = [pos |-> e.pos - delta, byte |-> e.byte]
                   /\ [pos |-> e.pos - delta, byte |-> e.byte] \in Entry
  <2> SUFFICES ASSUME NEW e \in R
               PROVE /\ [e EXCEPT !.pos = e.pos - delta] = [pos |-> e.pos - delta, byte |-> e.byte]
                     /\ [pos |-> e.pos - delta, byte |-> e.byte] \in Entry
    OBVIOUS
  <2>1. e \in Entry /\ e.pos >= delta
    OBVIOUS
  <2> QED BY <2>1 DEF Entry
<1>3. ShiftEntries(filed, delta) = {[pos |-> e.pos - delta, byte |-> e.byte] : e \in R}
  BY ZenonT(30), <1>1, <1>2
<1> QED BY <1>2, <1>3

\* The buffer moves down by delta bytes, and every table with it.
MovedDown(o, f, s, delta, g, t) ==
  /\ delta <= Len(s) /\ can_shift(o, delta, Len(s))
  /\ t = SubSeq(s, delta + 1, Len(s))
  /\ g = shift_positions(o, f, delta, Len(s))

\* They still say of the kept bytes what they said of all.
LEMMA ShiftKeeps ==
  ASSUME NEW o \in Setups, NEW s \in Seq(Int), NEW f, TablesOver(o, f, s),
         NEW delta \in Nat, NEW g, NEW t, MovedDown(o, f, s, delta, g, t)
  PROVE  TablesOver(o, g, t) /\ g.state = f.state
<1> USE DEF MovedDown
<1>1. PICK n \in Nat : n = Len(s)
  BY LenProperties
<1>2. PICK c \in Nat \ {0} : c = o.rebase_period
  BY SetupAssumption
<1>3. PICK filed : filed = ShiftEntries(f.filed, delta)
  OBVIOUS
<1>4. PICK next : next = shift_cursor(o, f.next_to_update, delta)
  OBVIOUS
<1>5. PICK slots : slots = shift_slots(o, f.slots, delta, n)
  OBVIOUS
<1>6. /\ f = [state |-> f.state, filed |-> f.filed, skipped |-> f.skipped,
              next_to_update |-> f.next_to_update, slots |-> f.slots]
      /\ f.next_to_update \in Nat /\ f.filed \in SUBSET Entry /\ f.slots \in [0..(c - 1) -> Int]
      /\ f.state \in {"Contiguous", "Prefixed"} /\ f.skipped \in SUBSET Int
  BY <1>2 DEF TablesOver, Tables
<1>7. g = [f EXCEPT !.filed = filed, !.next_to_update = next, !.slots = slots]
  BY <1>1, <1>3, <1>4, <1>5 DEF shift_positions
<1>8. g = [state |-> f.state, filed |-> filed, skipped |-> f.skipped,
           next_to_update |-> next, slots |-> slots]
  BY <1>6, <1>7
<1>9. /\ filed \in SUBSET Entry
      /\ \A e \in f.filed : e.pos >= delta => [pos |-> e.pos - delta, byte |-> e.byte] \in filed
      /\ \A k \in filed :
           \E e \in f.filed : e.pos >= delta /\ k = [pos |-> e.pos - delta, byte |-> e.byte]
  BY <1>3, <1>6, ShiftedEntries
<1>10. next \in Nat /\ (next = FirstPosition(o) \/ next = f.next_to_update - delta)
  BY <1>4, <1>6 DEF shift_cursor, saturating_sub, Greatest, FirstPosition
<1>11. slots \in [0..(c - 1) -> Int]
  <2>1. CASE ~by_slot(o, n)
    BY <1>5, <1>6, <2>1 DEF shift_slots
  <2>2. CASE by_slot(o, n)
    <3>1. slots = [i \in 0..(c - 1) |-> IF i + delta < c THEN f.slots[i + delta] ELSE -1]
      BY <1>2, <1>5, <1>6, <2>2 DEF shift_slots, None
    <3>2. ASSUME NEW i \in 0..(c - 1), i + delta < c PROVE f.slots[i + delta] \in Int
      <4>1. PICK slot : slot = f.slots
        OBVIOUS
      <4>2. slot \in [0..(c - 1) -> Int]
        BY <1>6, <4>1
      <4>3. i + delta \in 0..(c - 1)
        BY <3>2
      <4>4. slot[i + delta] \in Int
        BY <4>2, <4>3
      <4> QED BY <4>1, <4>4
    <3>3. \A i \in 0..(c - 1) : slots[i] \in Int
      BY <3>1, <3>2
    <3> QED BY <3>1, <3>3
  <2> QED BY <2>1, <2>2
<1>12. t \in Seq(Int) /\ Len(t) = n - delta /\ n - delta \in Nat
       /\ \A q \in Nat : q < n - delta => At(t, q) = At(s, q + delta)
  <2>1. t \in Seq(Int) /\ Len(t) = n - delta /\ n - delta \in Nat
        /\ \A i \in 1..(n - delta) : t[i] = s[i + delta]
    BY <1>1, SubSeqProperties
  <2>2. ASSUME NEW q \in Nat, q < n - delta PROVE At(t, q) = At(s, q + delta)
    <3>1. q + 1 \in 1..(n - delta) /\ q + 1 + delta = q + delta + 1
      BY <2>1, <2>2
    <3> QED BY <2>1, <3>1 DEF At
  <2> QED BY <2>1, <2>2
<1>13. g \in Tables(o)
  BY <1>2, <1>6, <1>8, <1>9, <1>10, <1>11 DEF Tables
<1>14. FiledIn(g, t)
  <2> SUFFICES ASSUME NEW k \in filed
               PROVE  k.pos < hash_insert_end(n - delta) /\ At(t, k.pos) = k.byte
    BY <1>8, <1>12 DEF FiledIn
  <2>1. PICK e \in f.filed : e.pos >= delta /\ k = [pos |-> e.pos - delta, byte |-> e.byte]
    BY <1>9
  <2>2. e.pos < hash_insert_end(n) /\ At(s, e.pos) = e.byte /\ e.pos \in Nat
    BY <1>1, <1>6 DEF TablesOver, FiledIn, Entry
  <2>3. k.pos \in Nat /\ k.pos + delta = e.pos /\ k.byte = e.byte
    BY <2>1, <2>2
  <2>4. e.pos + HashTail < n
    BY SMTT(30), <2>2, HashEnd
  <2>5. k.pos + HashTail < n - delta /\ k.pos < n - delta
    BY <2>2, <2>3, <2>4, TablesAssumption
  <2>6. k.pos < hash_insert_end(n - delta)
    <3>1. PICK m \in Nat : m = n - delta
      BY <1>12
    <3> QED BY <2>3, <2>5, <3>1, HashEnd
  <2> QED BY <1>12, <2>2, <2>3, <2>5, <2>6
<1>15. CursorPassed(o, g, t)
  <2> SUFFICES ASSUME HasCursor(o), NEW q \in FirstPosition(o)..(next - 1)
               PROVE  /\ q < n - delta
                      /\ o.family # "chain" =>
                           [pos |-> q, byte |-> At(t, q)] \in filed \/ At(t, q) \in f.skipped
    BY <1>8, <1>12 DEF CursorPassed
  <2>1. q \in Nat /\ q + delta \in FirstPosition(o)..(f.next_to_update - 1)
    <3>1. q \in Nat /\ q >= FirstPosition(o) /\ q < next /\ FirstPosition(o) \in Nat
      BY <1>10 DEF FirstPosition
    <3>2. next = f.next_to_update - delta
      BY <1>6, <1>10, <3>1
    <3> QED BY SMTT(30), <1>6, <3>1, <3>2
  <2>2. /\ q + delta < n
        /\ o.family # "chain" =>
             \/ [pos |-> q + delta, byte |-> At(s, q + delta)] \in f.filed
             \/ At(s, q + delta) \in f.skipped
    BY <1>1, <2>1 DEF TablesOver, CursorPassed
  <2>3. q < n - delta /\ At(t, q) = At(s, q + delta)
    BY <1>12, <2>1, <2>2
  <2>4. CASE [pos |-> q + delta, byte |-> At(s, q + delta)] \in f.filed
    <3>1. PICK e \in f.filed : e = [pos |-> q + delta, byte |-> At(s, q + delta)]
      BY <2>4
    <3>2. e.pos - delta = q /\ e.pos >= delta /\ e.byte = At(t, q)
      BY <2>1, <2>3, <3>1
    <3>3. [pos |-> e.pos - delta, byte |-> e.byte] \in filed
      BY <1>9, <3>2
    <3> QED BY <2>3, <3>2, <3>3
  <2> QED BY <2>2, <2>3, <2>4
<1>16. SlotsLatest(o, g)
  <2> SUFFICES ASSUME Indexed(o), CycleBeyondLag(o), NEW k \in filed,
                      \A d \in filed : d.pos % c = k.pos % c => d.pos <= k.pos
               PROVE  slots[k.pos % c] = k.byte
    BY <1>2, <1>8 DEF SlotsLatest
  <2>1. PICK e \in f.filed : e.pos >= delta /\ k = [pos |-> e.pos - delta, byte |-> e.byte]
    BY <1>9
  <2>2. e.pos < n /\ e.pos \in Nat
    <3>1. e.pos < hash_insert_end(n) /\ e.pos \in Nat
      BY <1>1, <1>6 DEF TablesOver, FiledIn, Entry
    <3>2. hash_insert_end(n) <= n /\ hash_insert_end(n) \in Nat
      BY HashEndWithin
    <3> QED BY <3>1, <3>2
  <2>3. k.pos \in Nat /\ k.pos + delta = e.pos /\ k.byte = e.byte
    BY <2>1, <2>2
  <2>4. ASSUME \A d \in f.filed : d.pos % c = e.pos % c => d.pos <= e.pos
        PROVE  f.slots[e.pos % c] = e.byte
    BY <1>2, <2>4 DEF TablesOver, SlotsLatest
  <2>5. CASE by_slot(o, n)
    <3>1. n <= c
      BY <1>2, <2>5 DEF by_slot
    <3>2. \A x \in 0..(c - 1) : x % c = x
      BY ShortMod
    <3>3. \A d \in f.filed : d.pos \in 0..(c - 1)
      <4>1. \A d \in f.filed : d.pos \in Nat /\ d.pos < hash_insert_end(n)
        BY <1>1, <1>6 DEF TablesOver, FiledIn, Entry
      <4>2. hash_insert_end(n) <= n /\ hash_insert_end(n) \in Nat
        BY HashEndWithin
      <4> QED BY <3>1, <4>1, <4>2
    <3>4. f.slots[e.pos] = e.byte
      <4>1. \A d \in f.filed : d.pos % c = e.pos % c => d.pos <= e.pos
        BY SMTT(30), <3>2, <3>3, <2>2
      <4> QED BY <2>4, <3>2, <3>3, <4>1
    <3>5. k.pos \in 0..(c - 1) /\ k.pos + delta < c
      BY <2>2, <2>3, <3>1
    <3>6. slots[k.pos] = f.slots[k.pos + delta]
      BY <1>2, <1>5, <1>6, <2>5, <3>5 DEF shift_slots
    <3> QED BY <2>3, <3>2, <3>4, <3>5, <3>6
  <2>6. CASE ~by_slot(o, n)
    <3>1. delta % c = 0 /\ slots = f.slots
      BY <1>1, <1>2, <1>5, <2>6 DEF can_shift, shift_slots
    <3>2. k.pos % c = e.pos % c
      <4>1. PICK y \in Nat : y = k.pos
        BY <2>3
      <4>2. delta % c = 0
        BY <3>1
      <4>3. (y + delta) % c = y % c
        BY <4>2, ModShift
      <4> QED BY <2>3, <4>1, <4>3
    <3>3. ASSUME NEW d \in f.filed, d.pos % c = e.pos % c PROVE d.pos <= e.pos
      <4>1. d.pos \in Nat
        BY <1>6 DEF Entry
      <4>2. CASE d.pos < delta
        BY <2>1, <2>2, <4>1, <4>2
      <4>3. CASE d.pos >= delta
        <5>1. PICK x \in Nat : x = d.pos - delta
          BY <4>1, <4>3
        <5>2. [pos |-> x, byte |-> d.byte] \in filed
          BY <1>9, <4>3, <5>1
        <5>3. (x + delta) % c = x % c /\ x + delta = d.pos
          <6>1. delta % c = 0
            BY <3>1
          <6>2. (x + delta) % c = x % c
            BY <6>1, ModShift
          <6> QED BY <4>1, <5>1, <6>2
        <5>4. x <= k.pos
          <6>1. PICK y \in filed : y = [pos |-> x, byte |-> d.byte]
            BY <5>2
          <6> QED BY <3>2, <3>3, <5>3, <6>1
        <5> QED BY <2>3, <5>3, <5>4
      <4> QED BY <2>2, <4>1, <4>2, <4>3
    <3> QED BY <2>3, <2>4, <3>1, <3>2, <3>3
  <2> QED BY <2>5, <2>6
<1> QED BY <1>8, <1>13, <1>14, <1>15, <1>16 DEF TablesOver

\* A finder that has filed nothing.
LEMMA FreshTables ==
  ASSUME NEW o \in Setups, NEW t
  PROVE  /\ TablesOver(o, NewContiguous(o), t) /\ NewContiguous(o).state = "Contiguous"
         /\ TablesOver(o, new_match_state(o), t)
         /\ new_match_state(o).state = "Prefixed" <=> o.dict_len > 0
<1>1. PICK c \in Nat \ {0} : c = o.rebase_period
  BY SetupAssumption
<1>2. PICK slots \in [0..(c - 1) -> Int] : slots = [i \in 0..(c - 1) |-> -1]
  <2>1. [i \in 0..(c - 1) |-> -1] \in [0..(c - 1) -> Int]
    OBVIOUS
  <2> QED BY <2>1
<1>3. FirstPosition(o) \in Nat
  BY DEF FirstPosition
<1>4. ASSUME NEW state \in {"Contiguous", "Prefixed"}, NEW f,
             f = [state |-> state, filed |-> {}, skipped |-> {},
                  next_to_update |-> FirstPosition(o), slots |-> slots]
      PROVE  TablesOver(o, f, t)
  <2>1. f \in Tables(o)
    BY <1>1, <1>2, <1>3, <1>4 DEF Tables
  <2>2. FiledIn(f, t) /\ SlotsLatest(o, f)
    BY <1>4 DEF FiledIn, SlotsLatest
  <2>3. CursorPassed(o, f, t)
    BY <1>3, <1>4 DEF CursorPassed
  <2> QED BY <2>1, <2>2, <2>3 DEF TablesOver
<1>5. NewContiguous(o) = [state |-> "Contiguous", filed |-> {}, skipped |-> {},
                          next_to_update |-> FirstPosition(o), slots |-> slots]
  BY <1>1, <1>2 DEF NewContiguous, None
<1>6. PICK state : state = IF o.dict_len > 0 THEN "Prefixed" ELSE "Contiguous"
  OBVIOUS
<1>7. new_match_state(o) = [state |-> state, filed |-> {}, skipped |-> {},
                            next_to_update |-> FirstPosition(o), slots |-> slots]
  <2>1. new_match_state(o) = [NewContiguous(o) EXCEPT !.state = state]
    BY <1>6 DEF new_match_state
  <2>2. PICK none, first : none = {} /\ first = FirstPosition(o)
    OBVIOUS
  <2>3. NewContiguous(o) = [state |-> "Contiguous", filed |-> none, skipped |-> none,
                            next_to_update |-> first, slots |-> slots]
    BY <1>5, <2>2
  <2>4. new_match_state(o) = [state |-> state, filed |-> none, skipped |-> none,
                              next_to_update |-> first, slots |-> slots]
    BY <2>1, <2>3
  <2> QED BY <2>2, <2>4
<1>8. TablesOver(o, NewContiguous(o), t)
  BY <1>4, <1>5
<1>9. TablesOver(o, new_match_state(o), t)
  BY <1>4, <1>6, <1>7
<1> QED BY <1>5, <1>6, <1>7, <1>8, <1>9

\* A rebuild files all of what was kept.
LEMMA RebuildKeeps ==
  ASSUME NEW o \in Setups, NEW t \in Seq(Int)
  PROVE  TablesOver(o, rebuild(o, t), t) /\ rebuild(o, t).state = "Contiguous"
<1>1. PICK f : f = NewContiguous(o)
  OBVIOUS
<1>2. TablesOver(o, f, t) /\ f.state = "Contiguous"
  BY <1>1, FreshTables
<1>3. CASE o.family = "tree"
  BY <1>1, <1>2, <1>3 DEF rebuild
<1>4. CASE o.family # "tree"
  <2>1. PICK g : g = insert_range(o, f, t, 0, Len(t), {})
    OBVIOUS
  <2>2. rebuild(o, t) = g
    BY <1>1, <1>4, <2>1 DEF rebuild
  <2>3. PICK start \in Nat : start = 0
    OBVIOUS
  <2>4. HasCursor(o) => start <= f.next_to_update
    BY <1>2, <2>3 DEF TablesOver, Tables
  <2>5. g = insert_range(o, f, t, start, Len(t), {})
    BY <2>1, <2>3
  <2>6. TablesOver(o, g, t) /\ g.state = f.state
    BY <1>2, <1>4, <2>4, <2>5, InsertKeeps
  <2> QED BY <1>2, <2>2, <2>6
<1> QED BY <1>3, <1>4

-----------------------------------------------------------------------------
\* The encoder's tables.

\* The tables are over the kept buffer, and only a dictionary is put before it.
TablesInv ==
  /\ TablesOver(p, match_state, frame)
  /\ match_state.state = "Prefixed" => p.dict_len > 0

\* As a block begins, whether the buffer was compacted for it or not; the dictionary
\* is given up only by a compaction.
LEMMA BlockBeginsTables ==
  ASSUME EncoderInv, TablesInv
  PROVE  /\ TablesOver(p, BlockBegins.match_state, BlockBegins.frame)
         /\ BlockBegins.match_state.state = "Prefixed" => match_state.state = "Prefixed"
         /\ match_state.state = "Prefixed" /\ BlockBegins.match_state.state # "Prefixed"
              => must_compact(p, Len(frame))
<1> DEFINE at == [frame |-> frame, ldm |-> ldm, match_state |-> match_state, rebuilt |-> rebuilt]
<1>1. p \in Setups /\ frame \in Seq(Int) /\ Len(frame) \in Nat
      /\ Len(frame) <= frame_capacity_for(p)
  BY LenProperties DEF EncoderInv
<1>2. CASE ~must_compact(p, Len(frame))
  <2>1. BlockBegins = at
    BY <1>2 DEF BlockBegins
  <2> QED BY <1>2, <2>1 DEF TablesInv
<1>3. CASE must_compact(p, Len(frame))
  <2>1. PICK dropped \in Nat : dropped = compact_drop(p, Len(frame))
    BY <1>1, <1>3, CompactionFits
  <2>2. dropped <= Len(frame) /\ can_shift(p, dropped, Len(frame))
    <3>1. dropped <= Len(frame) - history_limit_for(p) /\ can_shift(p, dropped, Len(frame))
      BY <1>1, <1>3, <2>1, CompactionFits
    <3>2. history_limit_for(p) \in Nat
      BY <1>1, Sizes
    <3> QED BY <1>1, <3>1, <3>2
  <2>3. PICK kept : kept = SubSeq(frame, dropped + 1, Len(frame))
    OBVIOUS
  <2>4. kept \in Seq(Int)
    BY <1>1, <2>3, SubSeqProperties
  <2>5. /\ BlockBegins.frame = kept
        /\ BlockBegins.match_state = IF match_state.state = "Contiguous"
                                     THEN shift_positions(p, match_state, dropped, Len(frame))
                                     ELSE rebuild(p, kept)
    BY <1>3, <2>1, <2>2, <2>3 DEF BlockBegins, compact_frame
  <2>6. CASE match_state.state = "Contiguous"
    <3>1. PICK g : g = shift_positions(p, match_state, dropped, Len(frame))
      OBVIOUS
    <3>2. TablesOver(p, g, kept) /\ g.state = match_state.state
      <4>1. TablesOver(p, match_state, frame)
        BY DEF TablesInv
      <4>2. p \in Setups /\ frame \in Seq(Int) /\ dropped \in Nat
        BY <1>1, <2>1
      <4>3. MovedDown(p, match_state, frame, dropped, g, kept)
        BY <2>2, <2>3, <3>1 DEF MovedDown
      <4> QED BY <4>1, <4>2, <4>3, ShiftKeeps
    <3> QED BY <1>3, <2>5, <2>6, <3>1, <3>2
  <2>7. CASE match_state.state # "Contiguous"
    <3>1. TablesOver(p, rebuild(p, kept), kept) /\ rebuild(p, kept).state = "Contiguous"
      BY <1>1, <2>4, RebuildKeeps
    <3> QED BY <1>3, <2>5, <2>7, <3>1
  <2> QED BY <2>6, <2>7
<1> QED BY <1>2, <1>3

\* A block that goes out keeps the tables, and a dictionary that is not yet given up.
LEMMA EmitTables ==
  ASSUME EncoderInv, BytesInv, TablesInv,
         NEW take \in Nat, NEW last_block \in BOOLEAN, NEW digest, Emits(take, last_block, digest)
  PROVE  /\ TablesInv' /\ match_state'.state = BlockBegins.match_state.state
         /\ match_state.state = "Prefixed" /\ match_state'.state = "Contiguous"
              => must_compact(p, Len(frame))
<1>1. PICK old : old = BlockBegins.frame
  OBVIOUS
<1>2. PICK begun : begun = BlockBegins.match_state
  OBVIOUS
<1>3. p \in Setups /\ p' = p
  BY DEF EncoderInv, Emits
<1>4. PICK r \in Routes(take) : match_state' \in AfterBlock(p, begun, frame', Len(old), r.route)
  BY <1>1, <1>2, EmitsIs
<1>5. /\ old \in Seq(Int) /\ frame' \in Seq(Int) /\ Len(old) <= Len(frame')
      /\ \A i \in 1..Len(old) : frame'[i] = old[i]
  <2>1. old \in Seq(Int)
    BY <1>1, BeginsRun
  <2>2. PICK bytes : bytes = SubSeq(buffered_input, 1, take)
    OBVIOUS
  <2>3. bytes \in Seq(Int)
    <3>1. buffered_input \in Seq(Int) /\ take <= Len(buffered_input)
      BY DEF EncoderInv, Emits, waiting
    <3> QED BY <2>2, <3>1, SubSeqProperties
  <2>4. frame' = old \o bytes
    BY <1>1, <2>2, EmitsIs DEF Grown
  <2> QED BY <2>1, <2>3, <2>4
<1>6. TablesOver(p, begun, old)
  BY <1>1, <1>2, BlockBeginsTables
<1>7. PICK t : t = frame'
  OBVIOUS
<1>8. PICK g : g = match_state'
  OBVIOUS
<1>9. PICK route : route = r.route
  OBVIOUS
<1>10. TablesOver(p, g, t) /\ g.state = begun.state
  <2>1. g \in AfterBlock(p, begun, t, Len(old), route)
    BY <1>4, <1>7, <1>8, <1>9
  <2>2. t \in Seq(Int) /\ Len(old) <= Len(t) /\ \A i \in 1..Len(old) : t[i] = old[i]
    BY <1>5, <1>7
  <2>3. p \in Setups /\ old \in Seq(Int)
    BY <1>3, <1>5
  <2> QED BY <1>6, <2>1, <2>2, <2>3, AfterBlockKeeps
<1>11. TablesOver(p, match_state, frame)'
  BY <1>3, <1>7, <1>8, <1>10 DEF TablesOver, Tables, FiledIn, SlotsLatest, CursorPassed,
       HasCursor, Indexed, FirstPosition
<1> QED BY <1>2, <1>3, <1>8, <1>10, <1>11, BlockBeginsTables DEF TablesInv

\* Initially the tables are empty.
LEMMA TablesInit == Init => TablesInv
<1> SUFFICES ASSUME Init PROVE TablesInv
  OBVIOUS
<1>1. p \in Setups /\ match_state = new_match_state(p)
  BY DEF Init
<1> QED BY <1>1, FreshTables DEF TablesInv

\* Nothing but a block and a reset touches the buffer and the tables.
LEMMA TablesIdle ==
  ASSUME push \/ top_up \/ read \/ take_output \/ UNCHANGED vars
  PROVE  UNCHANGED <<p, frame, match_state, ldm, origin>>
BY DEF push, top_up, read, take_output, vars, frameVars, historyVars

\* Every step keeps the tables over the buffer.
LEMMA TablesStep == EncoderInv /\ BytesInv /\ TablesInv /\ [Next]_vars => TablesInv'
<1> SUFFICES ASSUME EncoderInv, BytesInv, TablesInv, [Next]_vars PROVE TablesInv'
  OBVIOUS
<1>1. CASE encode_buffered_chunk \/ encode_chunk_tail \/ flush \/ finish
  <2>1. PICK take \in Nat, last_block \in BOOLEAN, digest \in Digests : Emits(take, last_block, digest)
    BY <1>1, EmittingSteps
  <2> QED BY <2>1, EmitTables
<1>2. CASE reset
  <2>1. p' = p /\ match_state' = new_match_state(p) /\ p \in Setups
    BY <1>2 DEF reset, EncoderInv
  <2>2. PICK s, f : s = frame' /\ f = match_state'
    OBVIOUS
  <2>3. TablesOver(p, f, s) /\ (f.state = "Prefixed" => p.dict_len > 0)
    BY <2>1, <2>2, FreshTables
  <2> QED BY <2>1, <2>2, <2>3 DEF TablesInv, TablesOver, Tables, FiledIn, SlotsLatest,
       CycleBeyondLag, CursorPassed, HasCursor, Indexed, FirstPosition
<1>3. CASE push \/ top_up \/ read \/ take_output \/ UNCHANGED vars
  <2>1. UNCHANGED <<p, frame, match_state>>
    BY <1>3, TablesIdle
  <2> QED BY <2>1 DEF TablesInv, TablesOver, Tables, FiledIn, SlotsLatest, CursorPassed,
       CycleBeyondLag, HasCursor, Indexed, FirstPosition
<1> QED BY <1>1, <1>2, <1>3 DEF Next

\* The finder's tables are over the buffer, through every insertion, compaction and reset.
THEOREM TablesInvariance == Spec => []TablesInv
BY InitInv, StepInv, BytesInit, BytesStep, TablesInit, TablesStep, PTL DEF Spec

\* A byte behind the cursor of a finder over rows or a tree was filed, or passed over on
\* purpose: in the parse of its own block, by a search too far behind, or by the clamp.
THEOREM NoneSteppedOver == Spec => []NothingSteppedOver
<1>1. TablesInv => NothingSteppedOver
  BY DEF TablesInv, TablesOver, CursorPassed, NothingSteppedOver, EveryFinderCatchesUp
<1> QED BY <1>1, TablesInvariance, PTL

\* The dictionary is given up only once a window of the frame has gone out.
THEOREM DictionaryOutlivesReach == Spec => DictionaryGivenUpOutOfReach
<1> DEFINE A == match_state.state = "Prefixed" /\ match_state'.state = "Contiguous"
                  => Len(wire.content) > wire.header.window_size
<1>1. EncoderInv /\ BytesInv /\ TablesInv /\ [Next]_vars => [A]_vars
  <2> SUFFICES ASSUME EncoderInv, BytesInv, TablesInv, Next,
                      match_state.state = "Prefixed", match_state'.state = "Contiguous"
               PROVE  Len(wire.content) > wire.header.window_size
    OBVIOUS
  <2>1. CASE encode_buffered_chunk \/ encode_chunk_tail \/ flush \/ finish
    <3>1. PICK take \in Nat, last_block \in BOOLEAN, digest \in Digests : Emits(take, last_block, digest)
      BY <2>1, EmittingSteps
    <3>2. must_compact(p, Len(frame))
      BY <3>1, EmitTables
    <3>3. /\ p \in Setups /\ Len(frame) \in Nat /\ emitted \in Nat /\ Len(frame) <= emitted
          /\ wire.header = FrameHeader(p)
      BY LenProperties DEF EncoderInv, BytesInv
    <3>4. history_limit_for(p) \in Nat /\ history_slack_for(p) \in Nat
      BY <3>3, Sizes
    <3>5. /\ Len(frame) > history_limit_for(p) + history_slack_for(p)
      BY <3>2 DEF must_compact
    <3>6. wire.header.window_size \in Int /\ wire.header.window_size <= history_limit_for(p)
      <4>1. p.pledged_src_size \in Nat \cup {None}
        BY <3>3, SetupAssumption
      <4> QED BY <3>3, <3>4, <4>1 DEF FrameHeader, None
    <3> QED BY <3>3, <3>4, <3>5, <3>6 DEF emitted
  <2>2. CASE reset
    <3>1. p \in Setups /\ p.dict_len > 0 /\ match_state' = new_match_state(p)
      BY <2>2 DEF reset, EncoderInv, TablesInv
    <3>2. new_match_state(p).state = "Prefixed"
      BY <3>1, FreshTables
    <3> QED BY <3>1, <3>2
  <2>3. CASE push \/ top_up \/ read \/ take_output
    BY <2>3, TablesIdle
  <2> QED BY <2>1, <2>2, <2>3 DEF Next
<1>2. Spec => [](EncoderInv /\ BytesInv /\ TablesInv)
  BY BytesInvariance, TablesInvariance, PTL
<1> QED BY <1>1, <1>2, PTL DEF Spec, DictionaryGivenUpOutOfReach

-----------------------------------------------------------------------------
\* The long-distance table.

\* What it takes for the table to survive compaction: an encoder that has one has no
\* dictionary in front of it, or content too short to be compacted.  With both the table
\* does not survive it, which is the run encoder_ldm_dict.
LdmBounded ==
  \A o \in Setups :
    o.ldm => o.dict_len = 0 \/ o.max_content <= history_limit_for(o) + history_slack_for(o)

\* The byte at a position that counts from d bytes before the buffer.
JointOf(d, s, pos) == IF pos < d THEN pos - d ELSE At(s, pos - d)

\* Every entry names a byte of the dictionary or the buffer; the block last seen ends the
\* buffer; what lies below window_low is out of the window, or nothing is.
LdmOver(o, m, s) ==
  IF ~o.ldm THEN m = NoLdm
  ELSE
    /\ m = [on |-> TRUE, loaded_dict_end |-> m.loaded_dict_end, generated_for |-> m.generated_for,
            window_low |-> m.window_low, table |-> m.table]
    /\ m.loaded_dict_end \in 0..o.dict_len /\ m.window_low \in Nat /\ m.table \in SUBSET Entry
    /\ \A e \in m.table :
         0 < e.pos /\ e.pos < o.dict_len + Len(s) /\ e.byte = JointOf(o.dict_len, s, e.pos)
    /\ \/ m.generated_for = << >> /\ s = << >>
       \/ \E a \in 0..Len(s) : m.generated_for = <<a, Len(s)>>
    /\ m.generated_for # << >> =>
         \/ Len(s) <= history_limit_for(o)
         \/ m.window_low + history_limit_for(o) >= o.dict_len + Len(s)

\* A table that has seen nothing but the dictionary.
LEMMA FreshLdm ==
  ASSUME NEW o \in Setups
  PROVE  LdmOver(o, NewLdm(o), << >>)
<1>1. o.dict_len \in Nat
  BY SetupAssumption
<1>2. CASE ~o.ldm
  BY <1>2 DEF LdmOver, NewLdm
<1>3. CASE o.ldm
  <2>1. PICK table : table = {[pos |-> i, byte |-> i - o.dict_len] : i \in 1..(o.dict_len - 1)}
    OBVIOUS
  <2>2. PICK m : m = NewLdm(o)
    OBVIOUS
  <2>3. m = [on |-> TRUE, loaded_dict_end |-> o.dict_len, generated_for |-> << >>, window_low |-> 0,
             table |-> table]
    BY <1>3, <2>1, <2>2 DEF NewLdm
  <2>4. table \in SUBSET Entry /\ \A e \in table : 0 < e.pos /\ e.pos < o.dict_len
                                                   /\ e.byte = e.pos - o.dict_len
    <3>1. \A i \in 1..(o.dict_len - 1) : [pos |-> i, byte |-> i - o.dict_len] \in Entry
      BY <1>1 DEF Entry
    <3> QED BY <1>1, <2>1, <3>1
  <2>5. \A e \in table : 0 < e.pos /\ e.pos < o.dict_len + Len(<< >>)
                         /\ e.byte = JointOf(o.dict_len, << >>, e.pos)
    BY <1>1, <2>4 DEF JointOf, Entry
  <2> QED BY <1>1, <1>3, <2>2, <2>3, <2>4, <2>5 DEF LdmOver
<1> QED BY <1>2, <1>3

\* A block behind the buffer, seen in its turn.
LEMMA SeenKeeps ==
  ASSUME NEW o \in Setups, o.ldm, NEW s \in Seq(Int), NEW t \in Seq(Int), Len(s) < Len(t),
         \A i \in 1..Len(s) : t[i] = s[i], NEW m, LdmOver(o, m, s),
         NEW g, g = sequences_for_block(o, m, o.dict_len, t, Len(s))
  PROVE  LdmOver(o, g, t)
<1>1. PICK d \in Nat : d = o.dict_len
  BY SetupAssumption
<1>2. PICK n \in Nat : n = Len(s)
  BY LenProperties
<1>3. PICK k \in Nat : k = Len(t) /\ n < k
  BY <1>2, LenProperties
<1>4. PICK L \in Nat : L = history_limit_for(o)
  BY Sizes
<1>5. /\ m = [on |-> TRUE, loaded_dict_end |-> m.loaded_dict_end, generated_for |-> m.generated_for,
              window_low |-> m.window_low, table |-> m.table]
      /\ m.loaded_dict_end \in 0..d /\ m.window_low \in Nat /\ m.table \in SUBSET Entry
      /\ \A e \in m.table : 0 < e.pos /\ e.pos < d + n /\ e.byte = JointOf(d, s, e.pos)
      /\ m.generated_for = << >> \/ \E a \in 0..n : m.generated_for = <<a, n>>
  BY <1>1, <1>2 DEF LdmOver
<1>6. PICK more : more = {[pos |-> d + q, byte |-> At(t, q)] : q \in {q \in n..(k - 1) : d + q > 0}}
  OBVIOUS
<1>7. PICK low : low = ldm_window_low(o, m.loaded_dict_end, k + d)
  OBVIOUS
<1>8. PICK credit : credit = IF ldm_outgrown(o, m.loaded_dict_end, k + d) THEN 0 ELSE m.loaded_dict_end
  OBVIOUS
<1>9. m.generated_for # <<n, k>>
  <2>1. CASE m.generated_for = << >>
    BY <2>1
  <2>2. CASE \E a \in 0..n : m.generated_for = <<a, n>>
    <3>1. PICK a \in 0..n : m.generated_for = <<a, n>>
      BY <2>2
    <3> QED BY <1>3, <3>1
  <2> QED BY <1>5, <2>1, <2>2
<1>10. PICK table : table = m.table \cup more
  OBVIOUS
<1>11. g = [m EXCEPT !.generated_for = <<n, k>>, !.loaded_dict_end = credit,
                     !.window_low = low, !.table = table]
  BY <1>1, <1>2, <1>3, <1>5, <1>6, <1>7, <1>8, <1>9, <1>10 DEF sequences_for_block
<1>12. g = [on |-> TRUE, loaded_dict_end |-> credit, generated_for |-> <<n, k>>,
            window_low |-> low, table |-> table]
  <2>1. PICK a1, a2, a3, a4 : /\ a1 = m.loaded_dict_end /\ a2 = m.generated_for
                              /\ a3 = m.window_low /\ a4 = m.table
    OBVIOUS
  <2>2. m = [on |-> TRUE, loaded_dict_end |-> a1, generated_for |-> a2, window_low |-> a3, table |-> a4]
    BY <1>5, <2>1
  <2>3. PICK block : block = <<n, k>>
    OBVIOUS
  <2>4. g = [m EXCEPT !.generated_for = block, !.loaded_dict_end = credit,
                      !.window_low = low, !.table = table]
    BY <1>11, <2>3
  <2> QED BY <2>2, <2>3, <2>4
<1>13. credit \in 0..d
  BY <1>5, <1>8
<1>14. low \in Nat /\ (k <= L \/ low + L >= d + k)
  BY <1>4, <1>5, <1>7 DEF ldm_window_low, ldm_outgrown
<1>15. \A q \in Nat : q < n => At(t, q) = At(s, q)
  <2> SUFFICES ASSUME NEW q \in Nat, q < n PROVE At(t, q) = At(s, q)
    OBVIOUS
  <2>1. q + 1 \in 1..Len(s)
    BY <1>2
  <2> QED BY <2>1 DEF At
<1>16. table \in SUBSET Entry
       /\ \A e \in table : 0 < e.pos /\ e.pos < d + k /\ e.byte = JointOf(d, t, e.pos)
  <2>1. ASSUME NEW e \in m.table
        PROVE  e \in Entry /\ 0 < e.pos /\ e.pos < d + k /\ e.byte = JointOf(d, t, e.pos)
    <3>1. e \in Entry /\ 0 < e.pos /\ e.pos < d + n /\ e.byte = JointOf(d, s, e.pos) /\ e.pos \in Nat
      BY <1>5 DEF Entry
    <3>2. CASE e.pos < d
      BY <1>3, <3>1, <3>2 DEF JointOf
    <3>3. CASE ~(e.pos < d)
      <4>0. e.pos - d \in Nat /\ e.pos - d < n
        BY <3>1, <3>3
      <4>1. PICK q \in Nat : q = e.pos - d /\ q < n
        BY <4>0
      <4> QED BY <1>3, <1>15, <3>1, <3>3, <4>1 DEF JointOf
    <3> QED BY <3>2, <3>3
  <2>2. ASSUME NEW e \in more
        PROVE  e \in Entry /\ 0 < e.pos /\ e.pos < d + k /\ e.byte = JointOf(d, t, e.pos)
    <3>1. PICK q \in n..(k - 1) : d + q > 0 /\ e = [pos |-> d + q, byte |-> At(t, q)]
      BY <1>6
    <3>2. q + 1 \in 1..Len(t)
      BY <1>2, <1>3
    <3>3. At(t, q) \in Int
      BY <3>2 DEF At
    <3>4. e \in Entry /\ 0 < e.pos /\ e.pos < d + k
      BY <3>1, <3>3 DEF Entry
    <3>5. JointOf(d, t, d + q) = At(t, q)
      <4>1. ~(d + q < d) /\ (d + q) - d = q
        OBVIOUS
      <4> QED BY <4>1 DEF JointOf
    <3> QED BY <3>1, <3>4, <3>5
  <2> QED BY <1>10, <2>1, <2>2
<1>17. \E a \in 0..k : g.generated_for = <<a, k>>
  <2>1. n \in 0..k /\ g.generated_for = <<n, k>>
    BY <1>3, <1>12
  <2> QED BY <2>1
<1>18. /\ g.loaded_dict_end = credit /\ g.window_low = low /\ g.table = table
       /\ g = [on |-> TRUE, loaded_dict_end |-> g.loaded_dict_end, generated_for |-> g.generated_for,
               window_low |-> g.window_low, table |-> g.table]
  BY <1>12
<1> QED BY <1>1, <1>3, <1>4, <1>13, <1>14, <1>16, <1>17, <1>18 DEF LdmOver

\* The buffer moves down by delta bytes, with no dictionary before it and a window kept.
LEMMA MovedLdmKeeps ==
  ASSUME NEW o \in Setups, o.ldm, o.dict_len = 0, NEW s \in Seq(Int), NEW m, LdmOver(o, m, s),
         NEW delta \in Nat, delta + history_limit_for(o) <= Len(s),
         NEW t, t = SubSeq(s, delta + 1, Len(s)), NEW g, g = ldm_shift_positions(m, delta)
  PROVE  LdmOver(o, g, t)
<1>1. PICK n \in Nat : n = Len(s)
  BY LenProperties
<1>2. PICK L \in Nat \ {0} : L = history_limit_for(o)
  BY Sizes
<1>3. /\ m = [on |-> TRUE, loaded_dict_end |-> m.loaded_dict_end, generated_for |-> m.generated_for,
              window_low |-> m.window_low, table |-> m.table]
      /\ m.window_low \in Nat /\ m.table \in SUBSET Entry
      /\ \A e \in m.table : 0 < e.pos /\ e.pos < n /\ e.byte = JointOf(0, s, e.pos)
      /\ (m.generated_for = << >> /\ s = << >>) \/ (\E a \in 0..n : m.generated_for = <<a, n>>)
      /\ m.generated_for # << >> => n <= L \/ m.window_low + L >= n
  BY <1>1, <1>2 DEF LdmOver
<1>4. delta + L <= n
  BY <1>1, <1>2
<1>5. t \in Seq(Int) /\ Len(t) = n - delta /\ n - delta \in Nat
      /\ \A q \in Nat : q < n - delta => At(t, q) = At(s, q + delta)
  <2>1. t \in Seq(Int) /\ Len(t) = n - delta /\ n - delta \in Nat
        /\ \A i \in 1..(n - delta) : t[i] = s[i + delta]
    BY <1>1, <1>2, <1>4, SubSeqProperties
  <2>2. ASSUME NEW q \in Nat, q < n - delta PROVE At(t, q) = At(s, q + delta)
    <3>1. q + 1 \in 1..(n - delta) /\ q + 1 + delta = q + delta + 1
      BY <2>1, <2>2
    <3> QED BY <2>1, <3>1 DEF At
  <2> QED BY <2>1, <2>2
<1>6. PICK a \in 0..n : m.generated_for = <<a, n>>
  <2>1. s # << >>
    <3>1. n # 0
      BY <1>2, <1>4
    <3> QED BY <1>1, <3>1
  <2> QED BY <1>3, <2>1
<1>7. PICK block : block = <<saturating_sub(a, delta), saturating_sub(n, delta)>>
  OBVIOUS
<1>8. PICK low : low = saturating_sub(m.window_low, delta)
  OBVIOUS
<1>9. PICK table : table = {e \in ShiftEntries(m.table, delta) : e.pos > 0}
  OBVIOUS
<1>10. g = [m EXCEPT !.loaded_dict_end = 0, !.window_low = low, !.table = table,
                     !.generated_for = block]
  <2>1. m.on /\ m.generated_for # << >> /\ m.generated_for[1] = a /\ m.generated_for[2] = n
    <3>1. m.on
      BY <1>3
    <3> QED BY <1>6, <3>1
  <2> QED BY <1>7, <1>8, <1>9, <2>1 DEF ldm_shift_positions
<1>11. g = [on |-> TRUE, loaded_dict_end |-> 0, generated_for |-> block, window_low |-> low,
            table |-> table]
  <2>1. PICK a1, a2, a3, a4 : /\ a1 = m.loaded_dict_end /\ a2 = m.generated_for
                              /\ a3 = m.window_low /\ a4 = m.table
    OBVIOUS
  <2>2. m = [on |-> TRUE, loaded_dict_end |-> a1, generated_for |-> a2, window_low |-> a3, table |-> a4]
    BY <1>3, <2>1
  <2> QED BY <1>10, <2>2
<1>12. \E b \in 0..(n - delta) : block = <<b, n - delta>>
  <2>1. saturating_sub(a, delta) \in 0..(n - delta) /\ saturating_sub(n, delta) = n - delta
    BY <1>2, <1>4, <1>6 DEF saturating_sub
  <2> QED BY <1>7, <2>1
<1>13. low \in Nat /\ (n - delta <= L \/ low + L >= n - delta)
  <2>1. n <= L \/ m.window_low + L >= n
    <3>1. m.generated_for # << >>
      BY <1>6
    <3> QED BY <1>3, <3>1
  <2>2. PICK w \in Nat : w = m.window_low
    BY <1>3
  <2>3. low = IF w >= delta THEN w - delta ELSE 0
    BY <1>8, <2>2 DEF saturating_sub
  <2> QED BY SMTT(30), <1>4, <2>1, <2>2, <2>3
<1>14. table \in SUBSET Entry
       /\ \A k \in table : 0 < k.pos /\ k.pos < n - delta /\ k.byte = JointOf(0, t, k.pos)
  <2>1. PICK shifted : shifted = ShiftEntries(m.table, delta)
    OBVIOUS
  <2>2. /\ shifted \in SUBSET Entry
        /\ \A k \in shifted :
             \E e \in m.table : e.pos >= delta /\ k = [pos |-> e.pos - delta, byte |-> e.byte]
    BY <1>3, <2>1, ShiftedEntries
  <2>3. ASSUME NEW k \in table
        PROVE  0 < k.pos /\ k.pos < n - delta /\ k.byte = JointOf(0, t, k.pos)
    <3>1. k \in shifted /\ k.pos > 0
      BY <1>9, <2>1
    <3>2. PICK e \in m.table : e.pos >= delta /\ k = [pos |-> e.pos - delta, byte |-> e.byte]
      BY <2>2, <3>1
    <3>3. e.pos \in Nat /\ e.pos < n /\ e.byte = JointOf(0, s, e.pos)
      BY <1>3 DEF Entry
    <3>4. e.byte = At(s, e.pos)
      <4>1. ~(e.pos < 0) /\ e.pos - 0 = e.pos
        BY <3>3
      <4> QED BY <3>3, <4>1 DEF JointOf
    <3>5. PICK q \in Nat : q = k.pos /\ q + delta = e.pos /\ q < n - delta
      <4>1. k.pos \in Nat /\ k.pos + delta = e.pos /\ k.pos < n - delta
        BY <3>2, <3>3
      <4> QED BY <4>1
    <3>6. At(t, q) = e.byte /\ k.byte = e.byte
      BY <1>5, <3>2, <3>4, <3>5
    <3>7. JointOf(0, t, q) = At(t, q)
      <4>1. ~(q < 0) /\ q - 0 = q
        BY <3>5
      <4> QED BY <4>1 DEF JointOf
    <3> QED BY <3>1, <3>5, <3>6, <3>7
  <2> QED BY <1>9, <2>1, <2>2, <2>3
<1>15. /\ g.loaded_dict_end = 0 /\ g.window_low = low /\ g.table = table /\ g.generated_for = block
       /\ g = [on |-> TRUE, loaded_dict_end |-> g.loaded_dict_end, generated_for |-> g.generated_for,
               window_low |-> g.window_low, table |-> g.table]
  BY <1>11
<1>16. \A e \in g.table :
         0 < e.pos /\ e.pos < o.dict_len + Len(t) /\ e.byte = JointOf(o.dict_len, t, e.pos)
  BY <1>5, <1>14, <1>15
<1>17. \E b \in 0..Len(t) : g.generated_for = <<b, Len(t)>>
  BY <1>5, <1>12, <1>15
<1>18. Len(t) <= history_limit_for(o) \/ g.window_low + history_limit_for(o) >= o.dict_len + Len(t)
  <2>1. PICK k \in Nat : k = n - delta
    BY <1>5
  <2>2. k <= L \/ low + L >= 0 + k
    BY <1>13, <2>1
  <2> QED BY <1>2, <1>5, <1>15, <2>1, <2>2
<1>19. g.loaded_dict_end \in 0..o.dict_len /\ g.window_low \in Nat /\ g.table \in SUBSET Entry
  BY <1>13, <1>14, <1>15
<1> QED BY <1>15, <1>16, <1>17, <1>18, <1>19 DEF LdmOver

\* The table is over dictionary and buffer; behind a dictionary nothing is ever dropped.
LdmInv ==
  /\ LdmOver(p, ldm, frame)
  /\ p.ldm => (match_state.state = "Prefixed" <=> p.dict_len > 0)
  /\ p.ldm /\ p.dict_len > 0 => Len(frame) = emitted

\* Behind a dictionary the buffer is never compacted.
LEMMA NoCompaction ==
  ASSUME LdmBounded, EncoderInv, BytesInv, p.ldm, p.dict_len > 0
  PROVE  ~must_compact(p, Len(frame))
<1>1. p \in Setups /\ p.dict_len \in Nat
  BY SetupAssumption DEF EncoderInv
<1>2. p.max_content <= history_limit_for(p) + history_slack_for(p)
  BY <1>1 DEF LdmBounded
<1>3. Len(frame) \in Nat /\ content_len \in Nat /\ p.max_content \in Nat
      /\ history_limit_for(p) \in Nat /\ history_slack_for(p) \in Nat
  BY <1>1, Sizes, SetupAssumption, LenProperties DEF EncoderInv
<1>4. Len(frame) <= content_len
  <2>1. Len(buffered_input) \in Nat /\ Len(src) \in Nat
    BY LenProperties DEF EncoderInv
  <2> QED BY <1>3, <2>1 DEF EncoderInv
<1>5. content_len <= p.max_content
  BY DEF BytesInv
<1> QED BY <1>2, <1>3, <1>4, <1>5 DEF must_compact

\* As a block begins.
LEMMA BlockBeginsLdm ==
  ASSUME LdmBounded, EncoderInv, BytesInv, TablesInv, LdmInv
  PROVE  /\ LdmOver(p, BlockBegins.ldm, BlockBegins.frame)
         /\ p.ldm => (BlockBegins.match_state.state = "Prefixed" <=> p.dict_len > 0)
         /\ p.ldm /\ p.dict_len > 0 => Len(BlockBegins.frame) = emitted
<1> DEFINE at == [frame |-> frame, ldm |-> ldm, match_state |-> match_state, rebuilt |-> rebuilt]
<1>1. p \in Setups /\ frame \in Seq(Int) /\ Len(frame) \in Nat
      /\ Len(frame) <= frame_capacity_for(p) /\ p.dict_len \in Nat
  BY LenProperties, SetupAssumption DEF EncoderInv
<1>2. CASE ~must_compact(p, Len(frame))
  <2>1. BlockBegins = at
    BY <1>2 DEF BlockBegins
  <2> QED BY <2>1 DEF LdmInv
<1>3. CASE must_compact(p, Len(frame))
  <2>1. PICK dropped \in Nat : dropped = compact_drop(p, Len(frame))
    BY <1>1, <1>3, CompactionFits
  <2>2. dropped + history_limit_for(p) <= Len(frame) /\ can_shift(p, dropped, Len(frame))
    <3>1. dropped <= Len(frame) - history_limit_for(p) /\ can_shift(p, dropped, Len(frame))
      BY <1>1, <1>3, <2>1, CompactionFits
    <3>2. history_limit_for(p) \in Nat
      BY <1>1, Sizes
    <3> QED BY <1>1, <2>1, <3>1, <3>2
  <2>3. PICK kept : kept = SubSeq(frame, dropped + 1, Len(frame))
    OBVIOUS
  <2>4. PICK g : g = ldm_shift_positions(ldm, dropped)
    OBVIOUS
  <2>5. /\ BlockBegins.frame = kept /\ BlockBegins.ldm = g
        /\ BlockBegins.match_state = IF match_state.state = "Contiguous"
                                     THEN shift_positions(p, match_state, dropped, Len(frame))
                                     ELSE rebuild(p, kept)
    BY <1>3, <2>1, <2>2, <2>3, <2>4 DEF BlockBegins, compact_frame
  <2>6. CASE ~p.ldm
    <3>1. ldm = NoLdm
      BY <2>6 DEF LdmInv, LdmOver
    <3>2. g = NoLdm
      BY <2>4, <3>1 DEF ldm_shift_positions, NoLdm
    <3> QED BY <2>5, <2>6, <3>2 DEF LdmOver
  <2>7. CASE p.ldm
    <3>1. p.dict_len = 0
      BY <1>1, <1>3, <2>7, NoCompaction
    <3>2. LdmOver(p, ldm, frame)
      BY DEF LdmInv
    <3>3. dropped \in Nat
      BY <2>1
    <3>4. LdmOver(p, g, kept)
      BY <1>1, <2>2, <2>3, <2>4, <2>7, <3>1, <3>2, <3>3, MovedLdmKeeps
    <3>5. BlockBegins.match_state.state # "Prefixed"
      <4>1. match_state.state # "Prefixed"
        BY <2>7, <3>1 DEF LdmInv
      <4>2. BlockBegins.match_state.state = "Prefixed" => match_state.state = "Prefixed"
        BY BlockBeginsTables
      <4> QED BY <4>1, <4>2
    <3>6. ~(p.dict_len > 0)
      BY <3>1
    <3> QED BY <2>5, <2>7, <3>4, <3>5, <3>6
  <2> QED BY <2>6, <2>7
<1> QED BY <1>2, <1>3

\* A block that goes out is seen, and in its turn.
LEMMA EmitLdm ==
  ASSUME LdmBounded, EncoderInv, BytesInv, TablesInv, LdmInv,
         NEW take \in Nat, NEW last_block \in BOOLEAN, NEW digest, Emits(take, last_block, digest)
  PROVE  LdmInv'
<1>1. PICK old : old = BlockBegins.frame
  OBVIOUS
<1>2. PICK m : m = BlockBegins.ldm
  OBVIOUS
<1>3. p \in Setups /\ p' = p /\ p.dict_len \in Nat
  BY SetupAssumption DEF EncoderInv, Emits
<1>4. PICK t : t = frame'
  OBVIOUS
<1>5. PICK g : g = ldm'
  OBVIOUS
<1>6. /\ LdmOver(p, m, old)
      /\ p.ldm => (BlockBegins.match_state.state = "Prefixed" <=> p.dict_len > 0)
      /\ p.ldm /\ p.dict_len > 0 => Len(old) = emitted
  BY <1>1, <1>2, BlockBeginsLdm
<1>7. PICK bytes \in Seq(Int) : bytes = SubSeq(buffered_input, 1, take) /\ Len(bytes) = take
  <2>1. buffered_input \in Seq(Int) /\ take <= Len(buffered_input)
    BY DEF EncoderInv, Emits, waiting
  <2>2. PICK bytes : bytes = SubSeq(buffered_input, 1, take)
    OBVIOUS
  <2>3. bytes \in Seq(Int) /\ Len(bytes) = take
    BY <2>1, <2>2, SubSeqProperties
  <2> QED BY <2>2, <2>3
<1>8. /\ old \in Seq(Int) /\ t \in Seq(Int) /\ Len(t) = Len(old) + take /\ Len(old) \in Nat
      /\ \A i \in 1..Len(old) : t[i] = old[i]
      /\ take = 0 => t = old
  <2>1. old \in Seq(Int) /\ Len(old) \in Nat
    BY <1>1, BeginsRun
  <2>2. t = old \o bytes
    BY <1>1, <1>4, <1>7, EmitsIs DEF Grown
  <2> QED BY <1>7, <2>1, <2>2
<1>9. g = LdmAfter(BlockBegins, t, Len(old))
  <2>1. t = Grown(take)
    BY <1>4, EmitsIs
  <2> QED BY <1>1, <1>5, <2>1, EmitsIs
<1>10. LdmOver(p, g, t)
  <2>1. CASE ~p.ldm
    <3>1. m = NoLdm
      BY <1>6, <2>1 DEF LdmOver
    <3>2. g = m
      BY <1>2, <1>9, <3>1 DEF LdmAfter, NoLdm
    <3> QED BY <2>1, <3>1, <3>2 DEF LdmOver
  <2>2. CASE p.ldm /\ take = 0
    <3>1. g = m /\ t = old
      BY <1>2, <1>8, <1>9, <2>2 DEF LdmAfter
    <3> QED BY <1>6, <3>1
  <2>3. CASE p.ldm /\ take # 0
    <3>1. m.on
      <4>1. m = [on |-> TRUE, loaded_dict_end |-> m.loaded_dict_end, generated_for |-> m.generated_for,
                 window_low |-> m.window_low, table |-> m.table]
        BY <1>6, <2>3 DEF LdmOver
      <4> QED BY <4>1
    <3>2. (IF BlockBegins.match_state.state = "Prefixed" THEN p.dict_len ELSE 0) = p.dict_len
      BY <1>3, <1>6, <2>3
    <3>3. Len(old) < Len(t)
      BY <1>8, <2>3
    <3>4. g = sequences_for_block(p, m, p.dict_len, t, Len(old))
      <4>1. Len(old) # Len(t)
        BY <1>8, <2>3
      <4> QED BY <1>2, <1>9, <3>1, <3>2, <4>1 DEF LdmAfter
    <3>5. p \in Setups /\ p.ldm /\ old \in Seq(Int) /\ t \in Seq(Int)
          /\ \A i \in 1..Len(old) : t[i] = old[i]
      BY <1>3, <1>8, <2>3
    <3> QED BY <1>6, <3>3, <3>4, <3>5, SeenKeeps
  <2> QED BY <2>1, <2>2, <2>3
<1>11. LdmOver(p, ldm, frame)'
  BY <1>3, <1>4, <1>5, <1>10 DEF LdmOver, JointOf, history_limit_for
<1>12. match_state'.state = BlockBegins.match_state.state
  BY EmitTables
<1>13. p.ldm /\ p.dict_len > 0 => Len(t) = emitted'
  <2>1. emitted' = emitted + take
    BY EmitMoves
  <2> QED BY <1>6, <1>8, <2>1
<1> QED BY <1>3, <1>4, <1>6, <1>11, <1>12, <1>13 DEF LdmInv

\* Initially, and after a reset, the table holds the dictionary.
LEMMA LdmBegins ==
  ASSUME p \in Setups, ldm = NewLdm(p), match_state = new_match_state(p), frame = << >>,
         wire = EmptyWire(p)
  PROVE  LdmInv
<1>1. emitted = 0 /\ Len(frame) = 0
  BY DEF emitted, EmptyWire
<1> QED BY <1>1, FreshLdm, FreshTables DEF LdmInv

\* Every step keeps the long-distance table over the buffer.
LEMMA LdmStep ==
  ASSUME LdmBounded
  PROVE  EncoderInv /\ BytesInv /\ TablesInv /\ LdmInv /\ [Next]_vars => LdmInv'
<1> SUFFICES ASSUME EncoderInv, BytesInv, TablesInv, LdmInv, [Next]_vars PROVE LdmInv'
  OBVIOUS
<1>1. CASE encode_buffered_chunk \/ encode_chunk_tail \/ flush \/ finish
  <2>1. PICK take \in Nat, last_block \in BOOLEAN, digest \in Digests : Emits(take, last_block, digest)
    BY <1>1, EmittingSteps
  <2> QED BY <2>1, EmitLdm
<1>2. CASE reset
  <2>1. /\ p' = p /\ match_state' = new_match_state(p) /\ ldm' = NewLdm(p) /\ frame' = << >>
        /\ wire' = EmptyWire(p) /\ p \in Setups
    BY <1>2 DEF reset, EncoderInv
  <2>2. emitted' = 0 /\ Len(frame') = 0
    BY <2>1 DEF emitted, EmptyWire
  <2>3. PICK s, f, m : s = frame' /\ f = match_state' /\ m = ldm'
    OBVIOUS
  <2>4. LdmOver(p, m, s) /\ (f.state = "Prefixed" <=> p.dict_len > 0)
    BY <2>1, <2>3, FreshLdm, FreshTables
  <2>5. LdmOver(p, ldm, frame)'
    BY <2>1, <2>3, <2>4 DEF LdmOver, JointOf, history_limit_for
  <2> QED BY <2>1, <2>2, <2>3, <2>4, <2>5 DEF LdmInv
<1>3. CASE push \/ top_up \/ read \/ take_output \/ UNCHANGED vars
  <2>1. UNCHANGED <<p, frame, match_state, ldm>>
    BY <1>3, TablesIdle
  <2>2. wire' = wire
    BY <1>3 DEF push, top_up, read, take_output, vars
  <2>3. LdmOver(p, ldm, frame)' <=> LdmOver(p, ldm, frame)
    BY <2>1 DEF LdmOver, JointOf, history_limit_for
  <2>4. emitted' = emitted
    BY <2>2 DEF emitted
  <2> QED BY <2>1, <2>3, <2>4 DEF LdmInv
<1> QED BY <1>1, <1>2, <1>3 DEF Next

\* The long-distance table is over the dictionary and the buffer, its floor a window behind.
THEOREM LdmInvariance == ASSUME LdmBounded PROVE Spec => []LdmInv
<1>1. Init => LdmInv
  BY LdmBegins DEF Init
<1>2. EncoderInv /\ BytesInv /\ TablesInv /\ LdmInv /\ [Next]_vars => LdmInv'
  BY LdmStep
<1>3. Spec => [](EncoderInv /\ BytesInv /\ TablesInv)
  BY BytesInvariance, TablesInvariance, PTL
<1> QED BY <1>1, <1>2, <1>3, PTL DEF Spec

\* What the table of an encoder that has one says.
LEMMA LdmIs ==
  ASSUME EncoderInv, LdmInv, ldm.on
  PROVE  /\ p.ldm /\ p.dict_len \in Nat /\ Len(frame) \in Nat
         /\ (IF match_state.state = "Prefixed" THEN p.dict_len ELSE 0) = p.dict_len
         /\ ldm.window_low \in Nat
         /\ \A e \in ldm.table : /\ 0 < e.pos /\ e.pos < p.dict_len + Len(frame) /\ e.pos \in Nat
                                 /\ e.byte = JointOf(p.dict_len, frame, e.pos)
         /\ \/ ldm.generated_for = << >> /\ frame = << >>
            \/ \E a \in 0..Len(frame) : ldm.generated_for = <<a, Len(frame)>>
         /\ ldm.generated_for # << >> =>
              \/ Len(frame) <= history_limit_for(p)
              \/ ldm.window_low + history_limit_for(p) >= p.dict_len + Len(frame)
         /\ p.dict_len > 0 => Len(frame) = emitted
<1>1. p.dict_len \in Nat /\ Len(frame) \in Nat
  BY SetupAssumption, LenProperties DEF EncoderInv
<1>2. p.ldm
  BY DEF LdmInv, LdmOver, NoLdm
<1>3. ldm.table \in SUBSET Entry
  BY <1>2 DEF LdmInv, LdmOver
<1>4. \A e \in ldm.table : e.pos \in Nat
  BY <1>3 DEF Entry
<1>5. (IF match_state.state = "Prefixed" THEN p.dict_len ELSE 0) = p.dict_len
  BY <1>1, <1>2 DEF LdmInv
<1> QED BY <1>1, <1>2, <1>4, <1>5 DEF LdmInv, LdmOver

\* No tree's cycle is shorter than what a block may have to catch up on.
CyclesBeyondLag == \A o \in Setups : CycleBeyondLag(o)

\* Every table moves with the buffer: the finder's entries, its cycle, the long-distance
\* table and the block it last saw.
THEOREM TablesFollow == ASSUME LdmBounded, CyclesBeyondLag PROVE Spec => []TablesFollowTheBuffer
<1>1. EncoderInv /\ TablesInv => EntriesNameTheirBytes
  <2> SUFFICES ASSUME EncoderInv, TablesInv, NEW e \in match_state.filed
               PROVE  e.pos < Len(frame) /\ At(frame, e.pos) = e.byte
    BY DEF EntriesNameTheirBytes
  <2>1. PICK n \in Nat : n = Len(frame)
    BY LenProperties DEF EncoderInv
  <2>2. e.pos < hash_insert_end(n) /\ At(frame, e.pos) = e.byte /\ e.pos \in Nat
    BY <2>1 DEF TablesInv, TablesOver, FiledIn, Tables, Entry
  <2>3. hash_insert_end(n) \in Nat /\ hash_insert_end(n) <= n
    BY <2>1, HashEnd
  <2> QED BY <2>1, <2>2, <2>3
<1>2. EncoderInv /\ TablesInv => SlotsKeepTheirPositions
  BY DEF EncoderInv, CyclesBeyondLag, TablesInv, TablesOver, SlotsLatest, SlotsKeepTheirPositions
<1>3. EncoderInv /\ LdmInv => LdmNamesItsBytes
  <2> SUFFICES ASSUME EncoderInv, LdmInv, ldm.on, NEW e \in ldm.table
               PROVE  Joint(e.pos) = e.byte
    BY DEF LdmNamesItsBytes
  <2>1. PICK d \in Nat : d = p.dict_len
    BY LdmIs
  <2>2. PICK n \in Nat : n = Len(frame)
    BY LdmIs
  <2>3. /\ e.pos < d + n /\ e.pos \in Nat /\ e.byte = JointOf(d, frame, e.pos)
        /\ (IF match_state.state = "Prefixed" THEN p.dict_len ELSE 0) = d
    BY <2>1, <2>2, LdmIs
  <2>4. Joint(e.pos) = IF e.pos < d THEN e.pos - d
                       ELSE IF e.pos - d < n THEN At(frame, e.pos - d) ELSE 0
    BY <2>2, <2>3 DEF Joint
  <2> QED BY <2>3, <2>4 DEF JointOf
<1>4. EncoderInv /\ LdmInv => LdmSeesEveryBlock
  <2> SUFFICES ASSUME EncoderInv, LdmInv, ldm.on
               PROVE  IF ldm.generated_for = << >> THEN frame = << >>
                      ELSE ldm.generated_for[2] = Len(frame)
    BY DEF LdmSeesEveryBlock
  <2>1. CASE ldm.generated_for = << >> /\ frame = << >>
    BY <2>1
  <2>2. CASE \E a \in 0..Len(frame) : ldm.generated_for = <<a, Len(frame)>>
    <3>1. PICK a \in 0..Len(frame) : ldm.generated_for = <<a, Len(frame)>>
      BY <2>2
    <3> QED BY <3>1
  <2> QED BY <2>1, <2>2, LdmIs
<1>5. EncoderInv /\ TablesInv /\ LdmInv => TablesFollowTheBuffer
  BY <1>1, <1>2, <1>3, <1>4 DEF TablesFollowTheBuffer
<1> QED BY <1>5, EncoderInvariance, TablesInvariance, LdmInvariance, PTL

\* A match the long-distance table offers is one a decoder accepts.
THEOREM LdmReach == ASSUME LdmBounded PROVE Spec => []LdmReachLegal
<1>1. EncoderInv /\ BytesInv /\ LdmInv => LdmReachLegal
  <2> SUFFICES ASSUME EncoderInv, BytesInv, LdmInv, ldm.on, ldm.generated_for # << >>,
                      PledgeNotExceeded,
                      NEW q \in ldm.generated_for[1]..(ldm.generated_for[2] - 1),
                      NEW e \in ldm.table
               PROVE  LET byte   == At(frame, q)
                          index  == byte - origin - 1
                          source == IF e.byte < 0 THEN e.byte ELSE e.byte - origin - 1
                          W      == wire.header.window_size
                      IN  e.pos > ldm.window_low /\ source < index =>
                            match_source(Least(index, W + 1), W,
                                         IF p.dict_len = 0 THEN None ELSE p.dict_len,
                                         index - source) # "corrupt"
    BY DEF LdmReachLegal
  <2>1. PICK d \in Nat : d = p.dict_len
    BY LdmIs
  <2>2. PICK n \in Nat : n = Len(frame)
    BY LdmIs
  <2>3. PICK L \in Nat : L = history_limit_for(p)
    BY Sizes DEF EncoderInv
  <2>4. PICK out \in Nat : out = emitted
    BY DEF BytesInv
  <2>5. PICK o \in Nat : o = origin
    BY DEF EncoderInv
  <2>6. PICK W \in Nat : /\ W = wire.header.window_size /\ out <= content_len
                         /\ W = L \/ (W <= L /\ content_len <= W)
    <3>1. p.pledged_src_size \in Nat \cup {None} /\ content_len \in Nat
      BY SetupAssumption DEF EncoderInv
    <3>2. wire.header.window_size = L
          \/ (/\ wire.header.window_size = p.pledged_src_size /\ p.pledged_src_size # None
              /\ p.pledged_src_size <= L)
      BY <2>3 DEF BytesInv, FrameHeader
    <3>3. out <= content_len
      <4>1. Len(src) \in Nat /\ waiting \in Nat
        BY LenProperties DEF EncoderInv, waiting
      <4> QED BY <2>4, <3>1, <4>1 DEF BytesInv
    <3> QED BY <2>3, <3>1, <3>2, <3>3 DEF PledgeNotExceeded
  <2>7. n <= out /\ frame = Run(o + out - n, n)
    BY <2>2, <2>4, <2>5 DEF BytesInv
  <2>8. \A r \in Nat : r < n => At(frame, r) = o + out - n + r + 1
    <3>1. PICK from \in Int : from = o + out - n
      OBVIOUS
    <3>2. \A i \in 1..n : frame[i] = from + i
      BY <2>7, <3>1, RunIs
    <3>3. ASSUME NEW r \in Nat, r < n PROVE At(frame, r) = from + (r + 1)
      <4>1. r + 1 \in 1..n
        BY <3>3
      <4> QED BY <3>2, <4>1 DEF At
    <3> QED BY <3>1, <3>3
  <2>9. q \in Nat /\ q < n
    <3>1. PICK a \in 0..n : ldm.generated_for = <<a, n>>
      BY <2>2, LdmIs
    <3>2. q \in a..(n - 1)
      BY <3>1
    <3> QED BY <3>2
  <2>10. PICK low \in Nat : low = ldm.window_low /\ (n <= L \/ low + L >= d + n)
    BY <2>1, <2>2, <2>3, LdmIs
  <2>11. PICK pos \in Nat : /\ pos = e.pos /\ 0 < pos /\ pos < d + n
                            /\ e.byte = JointOf(d, frame, pos)
    BY <2>1, <2>2, LdmIs
  <2>12. d > 0 => n = out
    BY <2>1, <2>2, <2>4, LdmIs
  <2>13. PICK index \in Nat : index = out - n + q
    BY <2>7, <2>9
  <2>14. At(frame, q) - origin - 1 = index
    BY <2>5, <2>8, <2>9, <2>13
  <2>15. PICK source \in Int : /\ source = IF e.byte < 0 THEN e.byte ELSE e.byte - origin - 1
                               /\ source = IF pos < d THEN pos - d ELSE out - n + (pos - d)
    <3>1. CASE pos < d
      <4>1. e.byte = pos - d
        BY <2>11, <3>1 DEF JointOf
      <4> QED BY <3>1, <4>1
    <3>2. CASE ~(pos < d)
      <4>1. PICK r \in Nat : r = pos - d /\ r < n
        <5>1. pos - d \in Nat /\ pos - d < n
          BY <2>11, <3>2
        <5> QED BY <5>1
      <4>2. e.byte = o + out - n + r + 1
        BY <2>8, <2>11, <3>2, <4>1 DEF JointOf
      <4> QED BY <2>5, <2>7, <3>2, <4>1, <4>2
    <3> QED BY <3>1, <3>2
  <2> SUFFICES ASSUME pos > low, source < index
               PROVE  match_source(Least(index, W + 1), W, IF d = 0 THEN None ELSE d, index - source)
                        # "corrupt"
    BY <2>1, <2>6, <2>10, <2>11, <2>14, <2>15
  <2>16. index < out
    BY <2>7, <2>9, <2>13
  <2>17. CASE pos < d
    <3>1. n = out /\ index = q /\ source = pos - d
      BY <2>12, <2>13, <2>15, <2>17
    <3>2. index <= W
      <4>1. n <= L
        BY <2>10, <2>17
      <4>2. content_len \in Nat
        BY DEF EncoderInv
      <4> QED BY <2>2, <2>3, <2>4, <2>6, <2>9, <2>13, <2>16, <3>1, <4>1, <4>2
    <3>3. index - source <= d + index
      BY <3>1
    <3> QED BY <2>17, <3>2, <3>3 DEF match_source, Least, None
  <2>18. CASE ~(pos < d)
    <3>1. source = out - n + (pos - d) /\ source >= 0
      BY <2>7, <2>15, <2>18
    <3>2. index - source <= index /\ index - source <= W
      <4>1. index - source <= index
        BY <3>1
      <4>2. index - source <= L
        <5>1. index - source = q - (pos - d)
          BY <2>7, <2>9, <2>13, <3>1
        <5>2. n <= L \/ pos > (n - L) + d
          BY <2>10
        <5> QED BY <2>9, <2>18, <5>1, <5>2
      <4>3. index - source \in Int /\ index <= content_len /\ content_len \in Nat
        BY SMTT(30), <2>4, <2>6, <2>13, <2>15, <2>16 DEF EncoderInv
      <4> QED BY SMTT(30), <2>3, <2>6, <2>13, <4>1, <4>2, <4>3
    <3> QED BY <3>2 DEF match_source, Least
  <2> QED BY <2>17, <2>18
<1> QED BY <1>1, BytesInvariance, LdmInvariance, PTL
=============================================================================
