------------------------- MODULE OutputWindowProofs --------------------------
(***************************************************************************)
(* Proofs about OutputWindow for every set of windows, every block size    *)
(* limit, output cap, dictionary and offset, and every order of decoding   *)
(* and draining.                                                           *)
(***************************************************************************)
EXTENDS OutputWindow, TLAPS

\* The frame's history has been cut only if more than a window of it is left.
CutLeavesWindow == open /\ origin < base => len > window_size

\* The inductive invariant.  HistoryKept is not inductive on its own: that a
\* drop leaves the frame's count exact or above a window rests on where
\* frame_start points (FrameAnchored), on the queue arithmetic that ties base
\* to the bytes appended (QueueExact), and on compaction never cutting into the
\* last window + 1 bytes (CutLeavesWindow).
IInv == /\ TypeOK
        /\ QueueExact
        /\ FrameAnchored
        /\ CutLeavesWindow
        /\ origin <= made
        /\ CapHolds
        /\ DrainedBufferBounded

-----------------------------------------------------------------------------

\* compact_output drops only drained bytes; inside a frame it leaves a window
\* and one byte, and after a full drain no more than twice that.
LEMMA CompactOutputDrops ==
  ASSUME NEW l \in Nat, NEW p \in 0..l, NEW o \in BOOLEAN, NEW w \in Nat
  PROVE  LET d == compact_output(l, p, o, w)
         IN  /\ d \in 0..p
             /\ o /\ d # 0 => l - d >= w + 1
             /\ o /\ p = l => l - d <= 2 * w + 1
BY DEF compact_output, retain_for_matches, Least, saturating_sub

\* compact_between_frames drops the drained prefix or nothing, and the whole
\* buffer when all of it is drained.
LEMMA CompactBetweenDrops ==
  ASSUME NEW l \in Nat, NEW p \in 0..l
  PROVE  LET d == compact_between_frames(l, p)
         IN  /\ d \in 0..p
             /\ p = l => d = l
BY DEF compact_between_frames

\* Initially nothing has been appended, drained or dropped.
LEMMA InitInv == Init => IInv
<1> SUFFICES ASSUME Init PROVE IInv
  OBVIOUS
<1>1. TypeOK
  <2>1. open \in BOOLEAN
    BY Zenon DEF Init
  <2>2. /\ max_output_size \in Caps
        /\ len \in Nat /\ output_pos \in 0..len
        /\ window_size \in Nat /\ frame_start \in Nat /\ frame_output_size \in Nat
        /\ total_output_size \in Nat
        /\ base \in Nat /\ drained \in Nat /\ made \in Nat /\ origin \in Nat
    BY DEF Init
  <2> QED BY <2>1, <2>2, Zenon DEF TypeOK
<1>2. FrameAnchored /\ CutLeavesWindow /\ DrainedBufferBounded
  BY DEF Init, FrameAnchored, CutLeavesWindow, DrainedBufferBounded
<1>3. CapHolds
  BY OutputWindowAssumption DEF Init, CapHolds
<1>4. QueueExact /\ origin <= made
  BY DEF Init, QueueExact
<1> QED BY <1>1, <1>2, <1>3, <1>4 DEF IInv

\* consume_output keeps the invariant, for every count the caller may ask for.
LEMMA ConsumeInv ==
  ASSUME IInv, NEW n \in 0..(len - output_pos), consume_output(n),
         UNCHANGED max_output_size
  PROVE  IInv'
<1> DEFINE p == output_pos + n
           d == compact_output(len, p, open, window_size)
<1> USE DEF TypeOK
<1>1. len \in Nat /\ p \in 0..len /\ open \in BOOLEAN /\ window_size \in Nat
  BY DEF IInv
<1>2. /\ d \in 0..p
      /\ open /\ d # 0 => len - d >= window_size + 1
      /\ open /\ p = len => len - d <= 2 * window_size + 1
  BY <1>1, CompactOutputDrops
<1> HIDE DEF d
<1>3. /\ len' = len - d /\ output_pos' = p - d /\ base' = base + d
      /\ frame_start' = IF open THEN release_history(frame_start, d) ELSE frame_start
      /\ drained' = drained + n
      /\ UNCHANGED <<open, window_size, frame_output_size, total_output_size, made, origin>>
  BY DEF consume_output, DropFront, d
<1>4. TypeOK'
  BY <1>1, <1>2, <1>3 DEF IInv, release_history, saturating_sub
<1>5. QueueExact'
  BY <1>1, <1>2, <1>3 DEF IInv, QueueExact
<1>6. FrameAnchored'
  BY <1>1, <1>2, <1>3 DEF IInv, FrameAnchored, QueueExact, release_history, saturating_sub
<1>7. CutLeavesWindow'
  BY <1>1, <1>2, <1>3 DEF IInv, CutLeavesWindow
<1>8. (origin <= made)' /\ CapHolds'
  BY <1>3 DEF IInv, CapHolds
<1>9. DrainedBufferBounded'
  BY <1>1, <1>2, <1>3 DEF IInv, DrainedBufferBounded
<1> QED BY <1>4, <1>5, <1>6, <1>7, <1>8, <1>9 DEF IInv

\* Opening, or refusing, a frame keeps the invariant.
LEMMA BoundaryInv ==
  ASSUME IInv, (\E w \in Windows : start_frame(w)) \/ reject_frame,
         UNCHANGED max_output_size
  PROVE  IInv'
<1> DEFINE d == compact_between_frames(len, output_pos)
<1> USE DEF TypeOK
<1>1. d \in 0..output_pos /\ (output_pos = len => d = len)
  BY CompactBetweenDrops DEF IInv
<1> HIDE DEF d
<1>2. CASE reject_frame
  <2>1. /\ ~open /\ ~open'
        /\ len' = len - d /\ output_pos' = output_pos - d /\ base' = base + d
        /\ UNCHANGED <<frameVars, total_output_size, drained, made>>
    BY <1>2 DEF reject_frame, DropFront, frameVars, d
  <2> QED
    BY <1>1, <2>1 DEF IInv, frameVars, QueueExact, FrameAnchored, CutLeavesWindow,
                      CapHolds, DrainedBufferBounded
<1>3. ASSUME NEW w \in Windows, start_frame(w) PROVE IInv'
  <2>1. /\ len' = len - d /\ output_pos' = output_pos - d /\ base' = base + d
        /\ open' = TRUE /\ window_size' = w /\ frame_start' = len - d
        /\ frame_output_size' = 0 /\ origin' = made
        /\ UNCHANGED <<total_output_size, drained, made>>
    BY <1>3 DEF start_frame, DropFront, d
  <2>2. w \in Nat
    BY OutputWindowAssumption
  <2>3. TypeOK' /\ QueueExact'
    BY <1>1, <2>1, <2>2 DEF IInv, QueueExact
  <2>4. base' <= origin' /\ base' + len' = origin'
    BY <1>1, <2>1 DEF IInv, QueueExact
  <2>5. FrameAnchored' /\ CutLeavesWindow' /\ (origin <= made)'
    BY <1>1, <2>1, <2>2, <2>3, <2>4 DEF IInv, FrameAnchored, CutLeavesWindow
  <2>6. CapHolds' /\ DrainedBufferBounded'
    BY <1>1, <2>1, <2>2 DEF IInv, CapHolds, DrainedBufferBounded
  <2> QED BY <2>3, <2>5, <2>6 DEF IInv
<1> QED BY <1>2, <1>3

\* A block, whether it decodes, closing its frame or not, or fails part-way,
\* keeps the invariant.
LEMMA BlockInv ==
  ASSUME IInv, NEW n \in Nat,
         (\E closes \in BOOLEAN : decode_block(n, closes)) \/ fail_block(n),
         UNCHANGED max_output_size
  PROVE  IInv'
<1> USE OutputWindowAssumption
<1>1. /\ open /\ len' = len + n /\ made' = made + n
      /\ UNCHANGED <<output_pos, window_size, frame_start, base, drained, origin>>
      /\ frame_output_size' \in {frame_output_size, frame_output_size + n}
  BY DEF decode_block, fail_block, frameVars
<1>2. open' \in BOOLEAN
  BY Zenon DEF decode_block, fail_block, frameVars, IInv, TypeOK
<1>3. /\ total_output_size' \in {total_output_size, total_output_size + n}
      /\ CapHolds'
  BY DEF IInv, TypeOK, CapHolds, decode_block, fail_block, WithinLimit, saturating_sub
<1>4. TypeOK' /\ QueueExact'
  BY <1>1, <1>2, <1>3 DEF IInv, TypeOK, QueueExact
<1>5. FrameAnchored' /\ CutLeavesWindow' /\ (origin <= made)'
  BY <1>1 DEF IInv, TypeOK, FrameAnchored, CutLeavesWindow
<1>6. DrainedBufferBounded'
  BY <1>1 DEF IInv, TypeOK, DrainedBufferBounded
<1> QED BY <1>3, <1>4, <1>5, <1>6 DEF IInv

\* Every step of the output side keeps the invariant.
LEMMA NextInv == IInv /\ [Next]_vars => IInv'
<1> SUFFICES ASSUME IInv, [Next]_vars PROVE IInv'
  OBVIOUS
<1> USE OutputWindowAssumption DEF TypeOK
<1>0. UNCHANGED max_output_size
  BY DEF Next, vars
<1>1. CASE (\E w \in Windows : start_frame(w)) \/ reject_frame
  BY <1>0, <1>1, BoundaryInv
<1>2. ASSUME NEW n \in 0..BlockSizeMax,
             (\E closes \in BOOLEAN : decode_block(n, closes)) \/ fail_block(n)
      PROVE  IInv'
  BY <1>0, <1>2, BlockInv
<1>3. CASE finish_frame
  BY <1>0, <1>3 DEF IInv, finish_frame, QueueExact, FrameAnchored, CutLeavesWindow,
              CapHolds, DrainedBufferBounded
<1>4. ASSUME NEW n \in 1..(len - output_pos), consume_output(n) PROVE IInv'
  BY <1>0, <1>4, ConsumeInv
<1>5. CASE take_output
  <2>1. CASE ~open /\ output_pos = 0
    BY <1>0, <1>5, <2>1 DEF take_output, take_whole_buffer, DropFront, frameVars, IInv,
         QueueExact, FrameAnchored, CutLeavesWindow, CapHolds, DrainedBufferBounded
  <2>2. CASE ~(~open /\ output_pos = 0)
    <3>1. consume_output(len - output_pos) /\ len - output_pos \in 0..(len - output_pos)
      BY <1>5, <2>2 DEF take_output, IInv
    <3> QED BY <1>0, <3>1, ConsumeInv
  <2> QED BY <2>1, <2>2
<1>6. CASE reset
  BY <1>0, <1>6 DEF reset, frameVars, IInv, QueueExact, FrameAnchored, CutLeavesWindow,
              CapHolds, DrainedBufferBounded
<1>7. CASE UNCHANGED vars
  BY <1>7 DEF vars, IInv, QueueExact, FrameAnchored, CutLeavesWindow, CapHolds,
              DrainedBufferBounded
<1> QED BY <1>1, <1>2, <1>3, <1>4, <1>5, <1>6, <1>7 DEF Next

\* The inductive invariant holds throughout.
THEOREM InductiveInvariant == Spec => []IInv
BY InitInv, NextInv, PTL DEF Spec

-----------------------------------------------------------------------------

\* With the invariant, the buffer holds the frame's whole output or more than a
\* window of it.
LEMMA HistoryKeptFromInv == IInv => HistoryKept
BY DEF IInv, TypeOK, QueueExact, FrameAnchored, CutLeavesWindow, HistoryKept, Held, FrameMade

\* An exact count or one above the window serves every offset alike.
LEMMA SourceAgrees ==
  ASSUME NEW h \in Nat, NEW m \in Nat, NEW w \in Nat, NEW off \in Nat,
         NEW dl \in Nat \cup {None},
         h <= m, h = m \/ h > w
  PROVE  match_source(h, w, dl, off) = match_source(m, w, dl, off)
BY DEF match_source, None

\* Type correctness of the output side, for every value of the constants.
THEOREM TypeCorrect == Spec => []TypeOK
BY InductiveInvariant, PTL DEF IInv

\* The output queue delivers every appended byte exactly once, in order, however
\* compaction and draining interleave.
THEOREM QueueIsExact == Spec => []QueueExact
BY InductiveInvariant, PTL DEF IInv

\* frame_start is right after any number of compactions, frames and resets.
THEOREM FrameIsAnchored == Spec => []FrameAnchored
BY InductiveInvariant, PTL DEF IInv

\* Compaction never leaves the frame's count inexact at or below its window.
THEOREM HistoryIsKept == Spec => []HistoryKept
BY InductiveInvariant, HistoryKeptFromInv, PTL

\* The output cap bounds a stream's credited output in every reachable state.
THEOREM CapIsRespected == Spec => []CapHolds
BY InductiveInvariant, PTL DEF IInv

\* A fully drained decoder holds at most 2 * window + 1 bytes of an open frame.
THEOREM DrainedBufferIsBounded == Spec => []DrainedBufferBounded
BY InductiveInvariant, PTL DEF IInv

\* Compaction never changes how a match is resolved, in any block of any frame.
THEOREM MatchesAreUnaffected == Spec => []MatchesUnaffected
<1>1. IInv => MatchesUnaffected
  <2> SUFFICES ASSUME IInv, open,
                      NEW k \in 0..FrameBlockSizeMax, NEW off \in Offsets, NEW dl \in DictLens
               PROVE  /\ match_source(Held + k, window_size, dl, off)
                           = match_source(FrameMade + k, window_size, dl, off)
                      /\ match_source(Held + k, window_size, dl, off) = "buffer"
                           => len + k - off >= frame_start
    BY DEF MatchesUnaffected
  <2>1. /\ k \in Nat /\ off \in Nat /\ dl \in Nat \cup {None} /\ window_size \in Nat
        /\ len \in Nat /\ frame_start \in 0..len
    BY OutputWindowAssumption DEF IInv, TypeOK, FrameAnchored, FrameBlockSizeMax, Least
  <2>2. /\ Held + k \in Nat /\ FrameMade + k \in Nat
        /\ Held + k <= FrameMade + k
    BY <2>1 DEF IInv, TypeOK, QueueExact, FrameAnchored, Held, FrameMade
  <2>3. Held + k = FrameMade + k \/ Held + k > window_size
    BY <2>1, HistoryKeptFromInv DEF HistoryKept, IInv, TypeOK, Held, FrameMade
  <2>4. match_source(Held + k, window_size, dl, off)
          = match_source(FrameMade + k, window_size, dl, off)
    BY <2>1, <2>2, <2>3, SourceAgrees
  <2>5. match_source(Held + k, window_size, dl, off) = "buffer"
          => len + k - off >= frame_start
    BY <2>1 DEF match_source, Held
  <2> QED BY <2>4, <2>5
<1> QED BY <1>1, InductiveInvariant, PTL
=============================================================================
