---------------------------- MODULE RepeatOffsets ----------------------------
(***************************************************************************)
(* The repeat-offset history of a frame (src/sequence.rs, RepeatOffsets)   *)
(* and every routine of the crate that steps it: the encoder's classifier, *)
(* the resolver used for planning, the decoder's executor, and the two     *)
(* `advance` helpers the sub-block encoder uses.  A history is <<r1,r2,r3>>*)
(* and an offset value 1..3 names a repeat, a larger one the distance      *)
(* value - 3.                                                              *)
(***************************************************************************)
EXTENDS Integers, Sequences

\* The outcome of resolving a value that names no distance: Error::Corruption,
\* or OFFSET_SENTINEL in the executor.
BadOffset == 0

\* RepeatOffsets::default()
DefaultReps == <<1, 4, 8>>

\* Mutant of Promote: every repeat but the first rotates all three.
PromoteRotates(reps, i, offset) == IF i = 1 THEN reps ELSE <<offset, reps[1], reps[2]>>

\* How an offset moves to the front of the history when it came from slot i;
\* slot 3 stands for "from behind", a new offset included.
Promote(reps, i, offset) ==
  CASE i = 1 -> reps
    [] i = 2 -> <<offset, reps[1], reps[3]>>
    [] OTHER -> <<offset, reps[1], reps[2]>>

\* encode_offset_value_and_update: the value that stands for a distance, and
\* the history after it.  The order of the tests is the source's.
encode_offset_value_and_update(reps, raw_offset, ll_zero) ==
  IF ~ll_zero /\ raw_offset = reps[1]
    THEN [value |-> 1, reps |-> reps]
  ELSE IF raw_offset = reps[2]
    THEN [value |-> IF ll_zero THEN 1 ELSE 2, reps |-> Promote(reps, 2, raw_offset)]
  ELSE IF raw_offset = reps[3]
    THEN [value |-> IF ll_zero THEN 2 ELSE 3, reps |-> Promote(reps, 3, raw_offset)]
  ELSE IF ll_zero /\ reps[1] > 1 /\ raw_offset = reps[1] - 1
    THEN [value |-> 3, reps |-> <<reps[1] - 1, reps[1], reps[2]>>]
  ELSE [value |-> raw_offset + 3, reps |-> <<raw_offset, reps[1], reps[2]>>]

\* resolve_values: the distance a value stands for, and the history after it.
resolve_values(reps, ll_zero, value) ==
  LET rep_index == IF ll_zero THEN value + 1 ELSE value
      offset    == IF rep_index = 4 THEN reps[1] - 1 ELSE reps[rep_index]
  IN  CASE value > 3 -> [offset |-> value - 3, reps |-> <<value - 3, reps[1], reps[2]>>]
        [] value = 0 -> [offset |-> BadOffset, reps |-> reps]
        [] value \in 1..3 /\ rep_index = 4 /\ reps[1] <= 1
             -> [offset |-> BadOffset, reps |-> reps]
        [] OTHER -> [offset |-> offset, reps |-> Promote(reps, rep_index, offset)]

\* resolve_rep_offset_decode: the executor's cold path, every repeat but "rep1
\* after a literal".
resolve_rep_offset_decode(reps, value, ll_zero) ==
  LET rep_index == IF ll_zero THEN value + 1 ELSE value
  IN  CASE value = 0     -> [offset |-> BadOffset, reps |-> reps]
        [] rep_index = 2 -> [offset |-> reps[2], reps |-> <<reps[2], reps[1], reps[3]>>]
        [] rep_index = 3 -> [offset |-> reps[3], reps |-> <<reps[3], reps[1], reps[2]>>]
        [] OTHER ->
             IF reps[1] <= 1
             THEN [offset |-> BadOffset, reps |-> reps]
             ELSE [offset |-> reps[1] - 1, reps |-> <<reps[1] - 1, reps[1], reps[2]>>]

\* The offset step of execute_sequence!, in execute_block_sequences and again in
\* decode_and_execute_last_sequence.
execute_offset(reps, ll_zero, value) ==
  IF value > 3
    THEN [offset |-> value - 3, reps |-> <<value - 3, reps[1], reps[2]>>]
  ELSE IF value = 1 /\ ~ll_zero
    THEN [offset |-> reps[1], reps |-> reps]
  ELSE resolve_rep_offset_decode(reps, value, ll_zero)

\* usize::saturating_sub(1) on a repeat offset
OneLess(n) == IF n = 0 THEN 0 ELSE n - 1

\* resolve_repcode_to_raw: the distance a repeat value names, histories untouched.
resolve_repcode_to_raw(reps, value, ll_zero) ==
  LET adj == IF ll_zero THEN value ELSE value - 1
  IN  IF adj = 3 THEN OneLess(reps[1]) ELSE reps[adj + 1]

\* advance_rep_state and advance_rep_state_encode: the history after a value.
advance_rep_state(reps, value, ll_zero) ==
  LET adj == IF ll_zero THEN value ELSE value - 1
  IN  CASE value >= 4 -> <<value - 3, reps[1], reps[2]>>
        [] value < 4 /\ adj = 0 -> reps
        [] value < 4 /\ adj = 1 -> <<reps[2], reps[1], reps[3]>>
        [] value < 4 /\ adj = 2 -> <<reps[3], reps[1], reps[2]>>
        [] value < 4 /\ adj = 3 -> <<OneLess(reps[1]), reps[1], reps[2]>>
=============================================================================
