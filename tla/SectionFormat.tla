---------------------------- MODULE SectionFormat ----------------------------
(***************************************************************************)
(* The headers inside a compressed block: literals sections (written by    *)
(* src/encode.rs, read by src/literals.rs), the sequence count, and the    *)
(* codes a literal length, a match length and an offset are split into     *)
(* (src/sequence.rs).  Every number is the format's own.                   *)
(*                                                                         *)
(* A header is the bits of its fields; a field wider than its place would  *)
(* run into the next one, and its high bits are lost here.                 *)
(***************************************************************************)
EXTENDS BitStrings, FiniteSetsExt

HasBytes(src, n) == Len(src) >= 8 * n
Bits(src, first, n) == FromBits(SubSeq(src, first + 1, first + n))

-----------------------------------------------------------------------------
\* Sequence count.

MaxSequences == 2^16 + 32512                \* 0x7F00 = 32512

encode_sequence_count(n) ==
  IF n >= MaxSequences THEN Err("InvalidParameter")
  ELSE IF n < 128 THEN Ok(ToBits(n, 8))
  ELSE IF n < 32512 THEN Ok(ToBits(128 + n \div 256, 8) \o ToBits(n % 256, 8))
  ELSE Ok(ToBits(255, 8) \o ToBits(n - 32512, 16))

parse_sequence_count(src) ==
  LET byte0 == Bits(src, 0, 8)
  IN  IF ~HasBytes(src, 1) THEN Err("UnexpectedEof")
      ELSE IF byte0 < 128 THEN Ok([count |-> byte0, size |-> 1])
      ELSE IF ~HasBytes(src, IF byte0 < 255 THEN 2 ELSE 3) THEN Err("UnexpectedEof")
      ELSE IF byte0 < 255
      THEN Ok([count |-> (byte0 - 128) * 256 + Bits(src, 8, 8), size |-> 2])
      ELSE Ok([count |-> 32512 + Bits(src, 8, 8) + Bits(src, 16, 8) * 256, size |-> 3])

-----------------------------------------------------------------------------
\* Raw and RLE literals.

raw_or_rle_literals_header_len(size) == IF size <= 31 THEN 1 ELSE IF size <= 4095 THEN 2 ELSE 3

append_raw_or_rle_literals_header(block_type, size) ==
  LET len == raw_or_rle_literals_header_len(size)
  IN  ToBits(block_type, 2) \o
      CASE len = 1 -> ToBits(0, 1) \o ToBits(size, 5)
        [] len = 2 -> ToBits(1, 2) \o ToBits(size, 12)
        [] len = 3 -> ToBits(3, 2) \o ToBits(size, 20)

decode_raw_or_rle_size(src) ==
  LET size_format == Bits(src, 2, 2)
      len == CASE size_format \in {0, 2} -> 1 [] size_format = 1 -> 2 [] size_format = 3 -> 3
  IN  IF ~HasBytes(src, 1) \/ ~HasBytes(src, len) THEN Err("UnexpectedEof")
      ELSE Ok([header_size |-> len,
               size |-> IF len = 1 THEN Bits(src, 3, 5) ELSE Bits(src, 4, 8 * len - 4)])

-----------------------------------------------------------------------------
\* Huffman-coded literals.

\* compressed_literals_layout: the header's length decides the width of the two sizes,
\* and a short section, or one with a table known to be good, is one stream.
compressed_literals_layout(size, repeat_mode) ==
  LET header_size == 3 + (IF size >= 1024 THEN 1 ELSE 0) + (IF size >= 16 * 1024 THEN 1 ELSE 0)
      single_stream == size < 256 \/ (repeat_mode = "Valid" /\ header_size = 3)
  IN  [header_size |-> header_size, single_stream |-> single_stream,
       size_format |-> CASE header_size = 3 -> IF single_stream THEN 0 ELSE 1
                         [] header_size = 4 -> 2
                         [] header_size = 5 -> 3]

SizeWidth(size_format) == CASE size_format \in {0, 1} -> 10 [] size_format = 2 -> 14 [] size_format = 3 -> 18

max_compressed_size(size_format) == 2^SizeWidth(size_format) - 1

append_compressed_literals_header(block_type, size_format, size, compressed) ==
  LET width == SizeWidth(size_format)
  IN  ToBits(block_type, 2) \o ToBits(size_format, 2) \o ToBits(size, width) \o ToBits(compressed, width)

\* encode_compressed_literals_section_into, once the streams are made: a section whose
\* compressed size does not fit its field is not written.
WriteCompressedLiterals(block_type, repeat_mode, size, compressed) ==
  LET layout == compressed_literals_layout(size, repeat_mode)
  IN  IF compressed > max_compressed_size(layout.size_format) THEN Err("NotCompressed")
      ELSE Ok(append_compressed_literals_header(block_type, layout.size_format, size, compressed))

decode_compressed_literals_header(src) ==
  LET size_format == Bits(src, 2, 2)
      len == CASE size_format \in {0, 1} -> 3 [] size_format = 2 -> 4 [] size_format = 3 -> 5
      width == SizeWidth(size_format)
      compressed == Bits(src, 4 + width, width)
      four_streams == size_format # 0
  IN  IF ~HasBytes(src, 1) \/ ~HasBytes(src, len) THEN Err("UnexpectedEof")
      ELSE IF compressed = 0 \/ (four_streams /\ compressed < 10) THEN Err("Corruption")
      ELSE Ok([header_size |-> len, size |-> Bits(src, 4, width), compressed |-> compressed,
               four_streams |-> four_streams])

-----------------------------------------------------------------------------
\* Codes and extra bits.

LITERAL_LENGTH_BASELINES ==
  <<0, 1, 2, 3, 4, 5, 6, 7, 8, 9, 10, 11, 12, 13, 14, 15, 16, 18, 20, 22, 24, 28, 32, 40, 48, 64,
    128, 256, 512, 1024, 2048, 4096, 8192, 16384, 32768, 65536>>
LITERAL_LENGTH_EXTRA_BITS ==
  <<0, 0, 0, 0, 0, 0, 0, 0, 0, 0, 0, 0, 0, 0, 0, 0, 1, 1, 1, 1, 2, 2, 3, 3, 4, 6, 7, 8, 9, 10, 11,
    12, 13, 14, 15, 16>>
MATCH_LENGTH_BASELINES ==
  [i \in 1..32 |-> i + 2] \o
  <<35, 37, 39, 41, 43, 47, 51, 59, 67, 83, 99, 131, 259, 515, 1027, 2051, 4099, 8195, 16387,
    32771, 65539>>
MATCH_LENGTH_EXTRA_BITS ==
  [i \in 1..32 |-> 0] \o
  <<1, 1, 1, 1, 2, 2, 3, 3, 4, 4, 5, 7, 8, 9, 10, 11, 12, 13, 14, 15, 16>>

Times(code, n) == [i \in 1..n |-> code]

LITERAL_LENGTH_CODE_TABLE ==
  [i \in 1..16 |-> i - 1] \o Times(16, 2) \o Times(17, 2) \o Times(18, 2) \o Times(19, 2)
    \o Times(20, 4) \o Times(21, 4) \o Times(22, 8) \o Times(23, 8) \o Times(24, 16)
MATCH_LENGTH_CODE_TABLE ==
  [i \in 1..32 |-> i - 1] \o Times(32, 2) \o Times(33, 2) \o Times(34, 2) \o Times(35, 2)
    \o Times(36, 4) \o Times(37, 4) \o Times(38, 8) \o Times(39, 8) \o Times(40, 16)
    \o Times(41, 16) \o Times(42, 32)

MaxLength == 2^17 - 1                        \* 0x1_FFFF

literal_length_code(length) ==
  IF length <= 63 THEN Ok(LITERAL_LENGTH_CODE_TABLE[length + 1])
  ELSE IF length <= MaxLength THEN Ok(highbit32(length) + 19)
  ELSE Err("InvalidParameter")

match_length_code(length) ==
  LET ml_base == length - 3
  IN  IF length < 3 THEN Err("InvalidParameter")
      ELSE IF ml_base <= 127 THEN Ok(MATCH_LENGTH_CODE_TABLE[ml_base + 1])
      ELSE IF ml_base <= MaxLength THEN Ok(highbit32(ml_base) + 36)
      ELSE Err("InvalidParameter")

offset_code(offset_value) ==
  IF offset_value = 0 THEN Err("InvalidParameter") ELSE Ok(highbit32(offset_value))

ll_bits(code) == LITERAL_LENGTH_EXTRA_BITS[code + 1]
ml_bits(code) == MATCH_LENGTH_EXTRA_BITS[code + 1]

\* encode_sequence_command: a sequence as three codes and what is left of each value.
encode_sequence_command(s) ==
  LET ll_code == literal_length_code(s.literal_length)
      ml_code == match_length_code(s.match_length)
      of_code == offset_code(s.offset_value)
      failed == {c \in {ll_code, ml_code, of_code} : c.error # "none"}
  IN  IF failed # {} THEN Err("InvalidParameter")
      ELSE Ok([ll_code |-> ll_code.value,
               ll_extra |-> s.literal_length - LITERAL_LENGTH_BASELINES[ll_code.value + 1],
               of_code |-> of_code.value,
               of_extra |-> s.offset_value - 2^of_code.value,
               ml_code |-> ml_code.value,
               ml_extra |-> s.match_length - MATCH_LENGTH_BASELINES[ml_code.value + 1]])

\* The decoder's side: baselines and the extra bits that were read.
DecodeSequence(ll_code, ll_extra, of_code, of_extra, ml_code, ml_extra) ==
  [literal_length |-> LITERAL_LENGTH_BASELINES[ll_code + 1] + ll_extra,
   offset_value |-> 2^of_code + of_extra,
   match_length |-> MATCH_LENGTH_BASELINES[ml_code + 1] + ml_extra]
=============================================================================
