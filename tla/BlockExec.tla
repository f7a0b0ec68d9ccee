------------------------------ MODULE BlockExec ------------------------------
(***************************************************************************)
(* What decoding one block appends to the output buffer: the literals      *)
(* section, the sequence section, the sequence executor with its two       *)
(* budgets, and the raw and RLE appenders (src/decode.rs, src/literals.rs, *)
(* src/sequence.rs).  The one-shot and the streaming decoder share this    *)
(* code and differ in what the buffer holds.                               *)
(*                                                                         *)
(* Entropy coding is kept as what it means to a decoder: a table turns     *)
(* codes into symbols, a section brings its own table or repeats the one   *)
(* the frame's state holds.  A compressed block's body is                  *)
(*   [literals  |-> [type, table, data],   type Raw, Huffman or Treeless   *)
(*    sequences |-> [repeat, table, codes], one table for the three FSE's  *)
(*    sound     |-> FALSE if the sequence bitstream is not exactly used up]*)
(* where a Huffman table maps codes to bytes and a sequence table maps     *)
(* codes to [ll, ml, value] records.                                       *)
(***************************************************************************)
EXTENDS HistoryBuffer, RepeatOffsets, SequencesExt

\* Absence of an entropy table: no table maps no code.
NoTable == << >>

\* OutputLimit::produced ... > max_output_size, for a buffer grown to out_len.
OverCap(limit, out_len) ==
  limit.max_output_size # None /\ limit.produced_before + out_len > limit.max_output_size

-----------------------------------------------------------------------------
\* Literals.

\* decode_literals_section_into: the literals and the Huffman table the frame
\* keeps for a later treeless block.  A raw section leaves the table alone.
decode_literals_section(section, huffman_table, block_size_max) ==
  LET raw   == section.type = "Raw"
      table == IF section.type = "Huffman" THEN section.table ELSE huffman_table
  IN  IF \/ Len(section.data) > block_size_max
         \/ ~raw /\ table = NoTable
      THEN [result |-> "Corruption", bytes |-> << >>, table |-> table]
      ELSE [result |-> "Ok",
            bytes  |-> IF raw THEN section.data
                       ELSE [i \in DOMAIN section.data |-> table[section.data[i]]],
            table  |-> table]

-----------------------------------------------------------------------------
\* Matches.

\* append_match_from_history and copy_match_inline: n bytes that repeat with
\* the period of their distance from match_start (a count of bytes before it).
append_match_from_history(out, match_start, n) ==
  LET offset == Len(out) - match_start
  IN  out \o [i \in 1..n |-> out[match_start + 1 + ((i - 1) % offset)]]

\* append_match_from_dictionary_history: the dictionary's tail, then on into the
\* frame's own first bytes.
append_match_from_dictionary_history(out, frame_start, dictionary, offset, n) ==
  LET source_index == Len(dictionary) + (Len(out) - frame_start) - offset
      chunk        == Least(Len(dictionary) - source_index, n)
      head         == out \o SubSeq(dictionary, source_index + 1, source_index + chunk)
  IN  IF source_index < Len(dictionary)
      THEN IF n = chunk THEN head
           ELSE append_match_from_history(head, frame_start, n - chunk)
      ELSE append_match_from_history(out, frame_start + source_index - Len(dictionary), n)

-----------------------------------------------------------------------------
\* Sequences.  blk holds what is fixed for a block: start (the buffer's length
\* as it begins), frame_start, window_size, block_size_max, dictionary
\* (a record with present and content), literals and limit.  acc is what the loop carries: out, reps, cursor
\* into the literals, visible (the length the buffer is known to have: the loop
\* writes behind it and sets it only for a dictionary match and at the end) and
\* result.

\* sequence_budget_error and ensure_decode_output_room: which limit n more bytes
\* break.  The block's comes first, since no cap could make such a block valid.
BudgetError(blk, out, n) ==
  IF Len(out) - blk.start + n > blk.block_size_max THEN "Corruption"
  ELSE IF OverCap(blk.limit, Len(out) + n) THEN "OutputSizeTooLarge"
  ELSE "Ok"

\* execute_sequence! and decode_and_execute_last_sequence: one sequence.
execute_sequence(blk, acc, s) ==
  LET cursor   == acc.cursor + s.ll
      resolved == execute_offset(acc.reps, s.ll = 0, s.value)
      offset   == resolved.offset
      copied   == acc.out \o SubSeq(blk.literals, acc.cursor + 1, cursor)
      budget   == BudgetError(blk, acc.out, s.ll + s.ml)
      dict_len == IF blk.dictionary.present THEN Len(blk.dictionary.content) ELSE None
      source   == IF offset = BadOffset THEN "corrupt"
                  ELSE match_source(Len(copied) - blk.frame_start, blk.window_size,
                                    dict_len, offset)
      done(out) == [acc EXCEPT !.out = out, !.reps = resolved.reps, !.cursor = cursor]
      served    == append_match_from_dictionary_history(
                     copied, blk.frame_start, blk.dictionary.content, offset, s.ml)
  IN  IF acc.result # "Ok" THEN acc
      ELSE IF cursor > Len(blk.literals) THEN [acc EXCEPT !.result = "Corruption"]
      ELSE IF budget # "Ok" THEN [acc EXCEPT !.result = budget]
      ELSE CASE source = "buffer" ->
                  done(append_match_from_history(copied, Len(copied) - offset, s.ml))
             [] source = "dictionary" -> [done(served) EXCEPT !.visible = Len(served)]
             [] source = "corrupt" -> [acc EXCEPT !.result = "Corruption"]

\* append_trailing_literals, after every sequence has become visible and the
\* bitstream has been checked to be used up.
append_trailing_literals(blk, acc, sound) ==
  LET trailing == SubSeq(blk.literals, acc.cursor + 1, Len(blk.literals))
      budget   == BudgetError(blk, acc.out, Len(trailing))
      all      == [acc EXCEPT !.visible = Len(acc.out)]
  IN  IF acc.result # "Ok" THEN acc
      ELSE IF ~sound       THEN [all EXCEPT !.result = "Corruption"]
      ELSE IF budget # "Ok" THEN [all EXCEPT !.result = budget]
      ELSE [all EXCEPT !.out = acc.out \o trailing, !.visible = Len(acc.out \o trailing)]

\* decode_and_execute_sequences, over sequences already decoded by their table;
\* run[i] is what the loop carries after i of them.
decode_and_execute_sequences(blk, out, reps, seqs, sound) ==
  LET start == [out |-> out, reps |-> reps, cursor |-> 0, visible |-> Len(out),
                result |-> IF OverCap(blk.limit, Len(out)) THEN "OutputSizeTooLarge" ELSE "Ok"]
      run[i \in 0..Len(seqs)] ==
        IF i = 0 THEN start ELSE execute_sequence(blk, run[i - 1], seqs[i])
  IN  append_trailing_literals(blk, run[Len(seqs)], sound)

-----------------------------------------------------------------------------
\* Blocks.  entropy is a frame's repeat_offsets, huffman_table and
\* sequence_table; every block decoder returns [result, out, entropy].

Failed(result, out, entropy) == [result |-> result, out |-> out, entropy |-> entropy]

\* How a compressed block ends: a failure keeps what had become visible and none
\* of the block's tables; a success hands the tables on.
CompressedOutcome(acc, huffman_table, sequence_table, entropy) ==
  IF acc.result # "Ok" THEN Failed(acc.result, SubSeq(acc.out, 1, acc.visible), entropy)
  ELSE [result  |-> "Ok", out |-> acc.out,
        entropy |-> [repeat_offsets |-> acc.reps, huffman_table |-> huffman_table,
                     sequence_table |-> sequence_table]]

\* decode_compressed_block_into
decode_compressed_block(body, env, dictionary, limit, out, entropy) ==
  LET literals == decode_literals_section(body.literals, entropy.huffman_table,
                                          env.block_size_max)
      codes == body.sequences.codes
      table == IF codes = << >> \/ body.sequences.repeat
               THEN entropy.sequence_table ELSE body.sequences.table
      seqs  == [i \in DOMAIN codes |-> table[codes[i]]]
      blk   == [start |-> Len(out), frame_start |-> env.frame_start,
                window_size |-> env.window_size, block_size_max |-> env.block_size_max,
                dictionary |-> dictionary, literals |-> literals.bytes, limit |-> limit]
      acc   == decode_and_execute_sequences(blk, out, entropy.repeat_offsets, seqs, body.sound)
  IN  IF \/ literals.result # "Ok"
         \/ codes # << >> /\ table = NoTable
         \/ codes = << >> /\ ~body.sound
      THEN Failed("Corruption", out, entropy)
      ELSE CompressedOutcome(acc, literals.table, table, entropy)

\* append_bytes and append_repeated.
append_bytes(bytes, limit, out, entropy) ==
  IF OverCap(limit, Len(out) + Len(bytes))
  THEN Failed("OutputSizeTooLarge", out, entropy)
  ELSE [result |-> "Ok", out |-> out \o bytes, entropy |-> entropy]

\* One block of a frame, as both decoders dispatch on block_type.
DecodeBlock(block, env, dictionary, limit, out, entropy) ==
  IF block.block_type = "Compressed"
    THEN decode_compressed_block(block.body, env, dictionary, limit, out, entropy)
  ELSE IF block.block_size > env.block_size_max THEN Failed("Corruption", out, entropy)
  ELSE IF block.block_type = "Raw" THEN append_bytes(block.body, limit, out, entropy)
  ELSE append_bytes([i \in 1..block.block_size |-> block.body[1]], limit, out, entropy)
=============================================================================
