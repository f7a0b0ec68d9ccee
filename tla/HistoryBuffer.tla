---------------------------- MODULE HistoryBuffer ----------------------------
(***************************************************************************)
(* The arithmetic of the streaming decoder's `output` buffer, which is at  *)
(* once the caller's output queue and the current frame's match history    *)
(* (src/streaming.rs, compact_output ... release_history), and the rule by *)
(* which the sequence executor decides where a match is read from          *)
(* (src/sequence.rs).  Positions are byte counts; nothing here holds state.*)
(*                                                                         *)
(* The operators return the number of bytes dropped off the front of the   *)
(* buffer.  Dropping d bytes moves `output_pos` down by d and `frame_start`*)
(* down by d, saturating at 0.                                             *)
(***************************************************************************)
EXTENDS Integers

\* usize::saturating_sub
saturating_sub(a, b) == IF a >= b THEN a - b ELSE 0

\* usize::min
Least(a, b) == IF a <= b THEN a ELSE b

\* Option::None for a size or a length.
None == -1

\* Mutant of retain_for_matches: exactly a window, without the extra byte.
retain_window_only(open, window_size) == IF open THEN window_size ELSE 0

\* Bytes at the end of `output` that a later match may still read: one more
\* than the window while a frame is open, nothing between frames.
retain_for_matches(open, window_size) == IF open THEN window_size + 1 ELSE 0

\* Mutants of compact_output: dropping all that was drained, history or not; and
\* reclaiming only a buffer that has been drained to empty.
compact_all_drained(len, output_pos, open, window_size) ==
  IF output_pos * 2 >= len THEN output_pos ELSE 0

compact_only_empty(len, output_pos, open, window_size) ==
  IF output_pos = len /\ ~open THEN len ELSE 0

\* Bytes compact_output drops: the drained prefix that no match can reach, and
\* then only when that is the whole buffer or, inside a frame, half of it.
compact_output(len, output_pos, open, window_size) ==
  LET droppable ==
        Least(output_pos, saturating_sub(len, retain_for_matches(open, window_size)))
      fires == \/ droppable = len
               \/ open /\ droppable * 2 >= len
  IN  IF droppable # 0 /\ fires THEN droppable ELSE 0

\* Bytes compact_between_frames drops as a frame opens.
compact_between_frames(len, output_pos) ==
  IF output_pos # 0 /\ output_pos * 2 >= len THEN output_pos ELSE 0

\* Mutant of release_history: frame_start is left where it was.
release_nothing(frame_start, dropped) == frame_start

\* frame_start after compaction dropped `dropped` bytes.
release_history(frame_start, dropped) == saturating_sub(frame_start, dropped)

\* Where the executor reads a match of distance `offset` from, when the buffer
\* holds `held` bytes of the frame in front of the write position.  dict_len is
\* None for a decoder without a dictionary.
match_source(held, window_size, dict_len, offset) ==
  IF offset <= held /\ offset <= window_size THEN "buffer"
  ELSE IF dict_len = None \/ held > window_size \/ offset > dict_len + held
       THEN "corrupt"
       ELSE "dictionary"
=============================================================================
