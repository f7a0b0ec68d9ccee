--------------------------- MODULE EncoderGeometry ---------------------------
(***************************************************************************)
(* The sizes StreamingEncoder works with (src/streaming.rs, block_size_for *)
(* ... match_position_limit_for, push_target, aligned_drop): how large a   *)
(* block is, how much history `frame` holds, when it is compacted and by   *)
(* how much.  p is the encoder's parameters:                               *)
(*   block_size         EncoderOptions::block_size                         *)
(*   pledged_src_size   EncoderOptions::pledged_src_size, None without one *)
(*   max_history_bytes  the level's window                                 *)
(*   rebase_period      length of the cycle the finder's second table is   *)
(*                      indexed by, 1 for a finder without such a table    *)
(***************************************************************************)
EXTENDS HistoryBuffer

CONSTANTS
  MinBlockSize,               \* 1 << 10
  MAX_DECLARABLE_WINDOW_SIZE  \* the widest window a frame header may declare

ASSUME GeometryAssumption ==
  MinBlockSize \in Nat \ {0} /\ MAX_DECLARABLE_WINDOW_SIZE \in Nat \ {0}

\* usize::max
Greatest(a, b) == IF a >= b THEN a ELSE b

history_limit_for(p) == Least(p.max_history_bytes, MAX_DECLARABLE_WINDOW_SIZE)

\* Mutant of block_size_for: a block may be wider than the window.
block_size_uncapped(p) == Greatest(p.block_size, MinBlockSize)

\* A block fits in the window, and in the content when that was pledged.
block_size_for(p) ==
  LET known  == IF p.pledged_src_size = None THEN history_limit_for(p)
                ELSE Least(history_limit_for(p), p.pledged_src_size)
      window == Greatest(known, 1)
  IN  Least(Greatest(p.block_size, MinBlockSize), window)

\* Mutant of history_slack_for: never widened to the cycle.
history_slack_unwidened(p) == history_limit_for(p)

\* What frame holds beyond the window before it is compacted: a window, or a
\* cycle if that is wider and yet within two windows and a block.
history_slack_for(p) ==
  IF p.rebase_period >= history_limit_for(p) * 2 + block_size_for(p)
  THEN history_limit_for(p)
  ELSE Greatest(history_limit_for(p), p.rebase_period)

frame_capacity_for(p) ==
  history_limit_for(p) + history_slack_for(p) + block_size_for(p)

\* The positions a finder is built to hold.
match_position_limit_for(p) ==
  IF p.pledged_src_size = None THEN frame_capacity_for(p)
  ELSE Least(frame_capacity_for(p), p.pledged_src_size)

\* How full the buffer must be before push encodes it.
push_target(p) ==
  block_size_for(p) + (IF p.pledged_src_size = block_size_for(p) THEN 1 ELSE 0)

\* Mutant of must_compact: as soon as the frame fills the window.
must_compact_at_window(p, frame_len) == frame_len >= history_limit_for(p)

\* encode_buffered_block compacts before it appends.
must_compact(p, frame_len) == frame_len > history_limit_for(p) + history_slack_for(p)

\* Mutants of aligned_drop: nothing but whole cycles, and rounded up instead of down.
drop_cycles_only(p, want) == want - (want % p.rebase_period)
drop_rounded_up(p, want) ==
  IF p.rebase_period > want THEN want ELSE want + (p.rebase_period - (want % p.rebase_period))

\* How much to drop when want bytes have left the window: whole cycles, if there
\* is one.
aligned_drop(p, want) ==
  IF p.rebase_period > want THEN want ELSE want - (want % p.rebase_period)

compact_drop(p, live_end) == aligned_drop(p, live_end - history_limit_for(p))

\* ContiguousBlockMatchState::shift_positions: the route on which tables indexed
\* by position survive a drop of delta bytes off a buffer that ends at live_end.
by_slot(p, live_end) == live_end <= p.rebase_period
can_shift(p, delta, live_end) == by_slot(p, live_end) \/ delta % p.rebase_period = 0
=============================================================================
