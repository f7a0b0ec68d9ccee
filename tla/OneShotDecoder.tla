--------------------------- MODULE OneShotDecoder ----------------------------
(***************************************************************************)
(* The one-shot decoder (src/decode.rs, decode_into_with_scratch): the     *)
(* whole input at hand, the whole output kept.  It is the reference the    *)
(* streaming decoder is compared with, byte for byte and error for error.  *)
(***************************************************************************)
EXTENDS BlockExec, Wire

\* The decoder's configuration is a record [max_window_size, max_output_size,
\* verify_checksum, single_frame, dictionary]: DecoderOptions, with None for no
\* limit, and the dictionary [present, id, content, entropy].

\* What a frame starts from: the dictionary's tables and repeat offsets, or none.
FreshEntropy(options) ==
  IF options.dictionary.present THEN options.dictionary.entropy
  ELSE [repeat_offsets |-> DefaultReps, huffman_table |-> NoTable, sequence_table |-> NoTable]

\* The checks decode_zstandard_frame makes of a header, and their order.
RejectFrame(options, header, out_len) ==
  IF header.dictionary_id # None /\ ~options.dictionary.present THEN "DictionaryRequired"
  ELSE IF header.dictionary_id # None /\ header.dictionary_id # options.dictionary.id
    THEN "DictionaryMismatch"
  ELSE IF options.max_window_size # None /\ header.window_size > options.max_window_size
    THEN "WindowSizeTooLarge"
  ELSE IF /\ header.content_size # None /\ options.max_output_size # None
          /\ out_len + header.content_size > options.max_output_size
    THEN "OutputSizeTooLarge"
  ELSE "Ok"

\* The decode so far: out, the open frame's header, start and entropy, whether
\* the next unit is a frame header, and the result.
Open(options, st, header) ==
  [st EXCEPT !.result = RejectFrame(options, header, Len(st.out)), !.between = FALSE,
             !.header = header, !.frame_start = Len(st.out), !.entropy = FreshEntropy(options)]

\* The end of decode_zstandard_frame and of the loop body around it, with left
\* bytes of input behind the frame.
Close(options, st, left) ==
  LET produced == Len(st.out) - st.frame_start
      mismatch == st.header.content_size # None /\ produced # st.header.content_size
  IN  [st EXCEPT !.between = TRUE,
                 !.result = IF mismatch THEN "ContentSizeMismatch"
                            ELSE IF options.single_frame /\ left # 0 THEN "TrailingInput"
                            ELSE "Ok"]

\* What a turn of the block loop makes of a block that decoded to d.
AfterBlock(options, st, block, left, d) ==
  LET next == [st EXCEPT !.out = d.out, !.entropy = d.entropy, !.result = d.result]
  IN  IF d.result = "Ok" /\ block.last_block /\ ~st.header.checksum
      THEN Close(options, next, left) ELSE next

\* One turn of the block loop, with left bytes behind the block's header.
DecodeOne(options, st, block, left) ==
  LET env   == [frame_start |-> st.frame_start, window_size |-> st.header.window_size,
                block_size_max |-> st.header.block_size_max]
      limit == [produced_before |-> 0, max_output_size |-> options.max_output_size]
      oversized == /\ block.block_type \in {"Raw", "Rle"}
                   /\ block.block_size > st.header.block_size_max
  IN  IF block.block_type = "Reserved" \/ oversized THEN [st EXCEPT !.result = "Corruption"]
      ELSE IF left < payload_size(block) THEN [st EXCEPT !.result = "UnexpectedEof"]
      ELSE AfterBlock(options, st, block, left - payload_size(block),
                      DecodeBlock(block, env, options.dictionary, limit, st.out, st.entropy))

\* The content checksum of the open frame.
VerifyChecksum(options, st, digest, left) ==
  IF options.verify_checksum /\ digest # SubSeq(st.out, st.frame_start + 1, Len(st.out))
  THEN [st EXCEPT !.result = "ChecksumMismatch"]
  ELSE Close(options, st, left)

\* A frame header position: what the loop in decode_into_with_scratch does with
\* n bytes that begin with unit u, skip_skippable_frame included.
NextFrame(options, st, u, n) ==
  LET parsed == parse_frame_header(u, n)
  IN  CASE parsed = "skippable" ->
             [st EXCEPT !.result = IF options.single_frame THEN "TrailingInput"
                                   ELSE IF n < u.size + u.remaining THEN "UnexpectedEof"
                                   ELSE "Ok"]
        [] parsed = "frame" -> Open(options, st, u)
        [] OTHER -> [st EXCEPT !.result = parsed]

\* The decode after unit u, when n bytes of input begin with it.
Step(options, st, u, n) ==
  IF st.result # "Ok" \/ u.kind = "payload" THEN st
  ELSE IF st.between THEN IF n <= 0 THEN st ELSE NextFrame(options, st, u, n)
  ELSE IF n < u.size THEN [st EXCEPT !.result = "UnexpectedEof"]
  ELSE IF u.kind = "block" THEN DecodeOne(options, st, u, n - u.size)
  ELSE VerifyChecksum(options, st, u.digest, n - u.size)

\* What is returned when the input is used up: a frame left open is truncated.
Outcome(end) ==
  [out |-> end.out,
   result |-> IF end.result = "Ok" /\ ~end.between THEN "UnexpectedEof" ELSE end.result]

\* decode_into_with_scratch over the first n bytes of a wire: what it returns,
\* and what its buffer holds when it does.
decode_into(options, wire, n) ==
  LET start == [out |-> << >>, result |-> IF n = 0 THEN "UnexpectedEof" ELSE "Ok",
                between |-> TRUE, header |-> << >>, frame_start |-> 0,
                entropy |-> FreshEntropy(options)]
      after[k \in 0..Len(wire)] ==
        IF k = 0 THEN start ELSE Step(options, after[k - 1], wire[k], n - EndOf(wire, k - 1))
  IN  Outcome(after[Len(wire)])
=============================================================================
