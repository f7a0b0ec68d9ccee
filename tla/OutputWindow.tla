---------------------------- MODULE OutputWindow -----------------------------
(***************************************************************************)
(* The output side of StreamingDecoder (src/streaming.rs): one Vec holding *)
(* [ drained | pending ], appended to by decode_block, drained by the      *)
(* caller, compacted by both, while the open frame reads match history out *)
(* of the same bytes.                                                      *)
(*                                                                         *)
(* Only lengths are kept.  What the blocks contain is left to the          *)
(* environment: any block may decode to any number of bytes the limits     *)
(* allow, and any block may fail after having appended some.  So whatever  *)
(* is shown here holds for every input, valid or not, and for every order  *)
(* of decoding and draining.  StreamDecoder.tla keeps the bytes and is     *)
(* checked to implement this module.                                       *)
(***************************************************************************)
EXTENDS HistoryBuffer

CONSTANTS
  Windows,          \* the window sizes frames declare
  BlockSizeMax,     \* BLOCK_SIZE_MAX, the format's cap on one block's output
  Caps,             \* the caps a decoder may be given, None for no cap
  Offsets,          \* the distances sequences name
  DictLens,         \* lengths of the dictionary, None for no dictionary
  MaxMade           \* bound: bytes appended over a behaviour, None for no bound

ASSUME OutputWindowAssumption ==
  /\ Windows \subseteq Nat
  /\ BlockSizeMax \in Nat
  /\ Caps \subseteq Nat \cup {None}
  /\ Offsets \subseteq Nat
  /\ DictLens \subseteq Nat \cup {None}
  /\ MaxMade \in Nat \cup {None}

VARIABLES
  max_output_size,   \* DecoderOptions::max_output_size
  len,               \* output.len()
  output_pos,        \* how much of output the caller has taken
  open,              \* current_frame.is_some()
  window_size,       \* FrameDecodeState::window_size of the open frame
  frame_start,       \* FrameDecodeState::frame_start of the open frame
  frame_output_size, \* FrameDecodeState::frame_output_size of the open frame
  total_output_size, \* bytes accounted to this stream
  base,              \* history: bytes dropped off the front of output so far
  drained,           \* history: bytes handed to the caller so far
  made,              \* history: bytes appended to output so far
  origin             \* history: value of made when the open frame began

vars == <<max_output_size, len, output_pos, open, window_size, frame_start, frame_output_size,
          total_output_size, base, drained, made, origin>>

frameVars == <<open, window_size, frame_start, frame_output_size, origin>>

-----------------------------------------------------------------------------

\* Bytes the open frame has appended, accounted or not.
FrameMade == made - origin

\* What the executor reads as the frame's output so far: out_pos - frame_start
\* as a block begins.
Held == len - frame_start

\* Mutant of WithinLimit: the cap measured against the buffer alone.
WithinBuffer(n) == max_output_size = None \/ len + n <= max_output_size

\* OutputLimit::after(total.saturating_sub(block_start), max) lets a block that
\* begins with len bytes in the buffer append n more.
WithinLimit(n) ==
  \/ max_output_size = None
  \/ saturating_sub(total_output_size, len) + len + n <= max_output_size

\* block_size_max of the open frame.
FrameBlockSizeMax == Least(window_size, BlockSizeMax)

WithinBound(n) == MaxMade = None \/ made + n <= MaxMade

Init ==
  /\ max_output_size \in Caps
  /\ len = 0 /\ output_pos = 0
  /\ open = FALSE /\ window_size = 0 /\ frame_start = 0 /\ frame_output_size = 0
  /\ total_output_size = 0
  /\ base = 0 /\ drained = 0 /\ made = 0 /\ origin = 0

\* Mutant of DropFront: the read cursor is not moved down.
DropFrontOnly(l, p, d) ==
  /\ len' = l - d
  /\ output_pos' = IF p <= l - d THEN p ELSE l - d
  /\ base' = base + d

\* Drop d bytes off the front of a buffer of l bytes of which p are drained.
DropFront(l, p, d) ==
  /\ len' = l - d
  /\ output_pos' = p - d
  /\ base' = base + d

\* start_frame, accepted: reclaim what earlier frames left, then open a frame
\* that begins where the buffer ends.
start_frame(w) ==
  LET d == compact_between_frames(len, output_pos)
  IN  /\ ~open
      /\ DropFront(len, output_pos, d)
      /\ open' = TRUE
      /\ window_size' = w
      /\ frame_start' = len - d
      /\ frame_output_size' = 0
      /\ origin' = made
      /\ UNCHANGED <<total_output_size, drained, made>>

\* start_frame, rejected (dictionary, window or declared size): the reclaiming
\* has already happened and no frame opens.
reject_frame ==
  /\ ~open
  /\ DropFront(len, output_pos, compact_between_frames(len, output_pos))
  /\ UNCHANGED <<frameVars, total_output_size, drained, made>>

\* decode_block that succeeds with n bytes of output.  The last block of a frame
\* without a checksum closes the frame in the same step (finish_frame).
decode_block(n, closes) ==
  /\ open
  /\ open' = ~closes
  /\ n <= FrameBlockSizeMax
  /\ WithinLimit(n)
  /\ WithinBound(n)
  /\ len' = len + n
  /\ made' = made + n
  /\ frame_output_size' = frame_output_size + n
  /\ total_output_size' = total_output_size + n
  /\ UNCHANGED <<output_pos, window_size, frame_start, base, drained, origin>>

\* decode_block that returns an error after n bytes of the block have become
\* part of output.  Nothing is accounted and nothing is rolled back.
fail_block(n) ==
  /\ open
  /\ n <= FrameBlockSizeMax
  /\ n = 0 \/ WithinLimit(n)
  /\ WithinBound(n)
  /\ len' = len + n
  /\ made' = made + n
  /\ UNCHANGED <<output_pos, frameVars, total_output_size, base, drained>>

\* finish_frame: the frame is taken, whether or not its content size matched.
finish_frame ==
  /\ open
  /\ open' = FALSE
  /\ UNCHANGED <<len, output_pos, window_size, frame_start, frame_output_size,
                 total_output_size, base, drained, made, origin>>

\* consume_output: the caller takes n bytes, and compact_output runs.
consume_output(n) ==
  LET p == output_pos + n
      d == compact_output(len, p, open, window_size)
  IN  /\ n <= len - output_pos
      /\ DropFront(len, p, d)
      /\ frame_start' = IF open THEN release_history(frame_start, d) ELSE frame_start
      /\ drained' = drained + n
      /\ UNCHANGED <<open, window_size, frame_output_size, total_output_size, made, origin>>

\* take_output's short cut between frames: the Vec itself is handed over.
take_whole_buffer ==
  /\ ~open /\ output_pos = 0
  /\ DropFront(len, len, len)
  /\ drained' = drained + len
  /\ UNCHANGED <<frameVars, total_output_size, made>>

\* take_output otherwise is consume_output of everything pending.
take_output ==
  IF ~open /\ output_pos = 0
  THEN take_whole_buffer
  ELSE consume_output(len - output_pos)

\* reset at a frame boundary: the accounting restarts, undrained output stays.
reset ==
  /\ ~open
  /\ total_output_size' = 0
  /\ UNCHANGED <<len, output_pos, frameVars, base, drained, made>>

Next ==
  /\ UNCHANGED max_output_size
  /\ \/ \E w \in Windows : start_frame(w)
     \/ reject_frame
     \/ \E n \in 0..BlockSizeMax, closes \in BOOLEAN : decode_block(n, closes)
     \/ \E n \in 0..BlockSizeMax : fail_block(n)
     \/ finish_frame
     \/ \E n \in 1..(len - output_pos) : consume_output(n)
     \/ take_output
     \/ reset

Spec == Init /\ [][Next]_vars

-----------------------------------------------------------------------------

TypeOK ==
  /\ max_output_size \in Caps
  /\ len \in Nat /\ output_pos \in 0..len
  /\ open \in BOOLEAN
  /\ window_size \in Nat /\ frame_start \in Nat /\ frame_output_size \in Nat
  /\ total_output_size \in Nat
  /\ base \in Nat /\ drained \in Nat /\ made \in Nat /\ origin \in Nat

\* Every byte appended reaches the caller exactly once and in order: what the
\* caller has had is what lies in front of the read cursor, and the rest is
\* still pending, through every compaction (compact_output,
\* compact_between_frames, take_output).
QueueExact == /\ base + output_pos = drained
              /\ drained + (len - output_pos) = made

\* frame_start keeps naming the frame's first byte for as long as the buffer
\* holds it, and the buffer's first byte afterwards, whatever earlier frames
\* left in front of it (release_history, start_frame).
FrameAnchored ==
  open => /\ frame_start <= len
          /\ base + frame_start = IF base <= origin THEN origin ELSE base

\* `retained - frame_start` is the frame's true output or more than a window:
\* the condition release_history documents, stated with everything the frame
\* has appended.
HistoryKept == open => Held = FrameMade \/ Held > window_size

\* Compaction is invisible to the format: at every write position k bytes into
\* the next block, every offset is served from the same place, or rejected,
\* exactly as by a decoder that never drops a byte; and a match served from the
\* buffer reads bytes of this frame that the buffer still holds.
MatchesUnaffected ==
  open => \A k \in 0..FrameBlockSizeMax, off \in Offsets, dl \in DictLens :
            /\ match_source(Held + k, window_size, dl, off)
                 = match_source(FrameMade + k, window_size, dl, off)
            /\ match_source(Held + k, window_size, dl, off) = "buffer"
                 => len + k - off >= frame_start

\* The output-size cap bounds what a stream is credited with, however much of
\* it has been drained, dropped, or left over from before a reset
\* (decode_block's `released` and OutputLimit).
CapHolds == max_output_size = None \/ total_output_size <= max_output_size

\* A caller that drains everything keeps a frame's buffer within twice the
\* retained history, the bound compact_output's half-buffer rule promises.
DrainedBufferBounded == open /\ output_pos = len => len <= 2 * window_size + 1
=============================================================================
