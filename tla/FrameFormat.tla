----------------------------- MODULE FrameFormat -----------------------------
(***************************************************************************)
(* Frame and block headers on the wire (src/frame.rs, src/block.rs): the   *)
(* three header writers and the parser, skippable frames, block headers,   *)
(* and the size queries that walk frames without decoding them.            *)
(*                                                                         *)
(* A byte has Radix values instead of 256, and every boundary of the       *)
(* format moves with it: the two-byte content size stores size - Radix,    *)
(* u32 is Radix^4, u64 is Radix^8.  The two descriptor bytes keep their    *)
(* own bits, and the bytes of the magics are numbers that no other is.     *)
(***************************************************************************)
EXTENDS BitStrings, SequencesExt, FiniteSetsExt, Folds

CONSTANTS
  Radix,                 \* values of a byte: 256
  WINDOWLOG_MIN,         \* 10
  MaxExponent,           \* largest exponent of a window descriptor: 31
  BLOCK_SIZE_MAX         \* 128 * 1024

ASSUME FrameAssumption ==
  /\ Radix \in Nat /\ Radix >= 4
  /\ WINDOWLOG_MIN \in Nat /\ 2^WINDOWLOG_MIN > Radix /\ WINDOWLOG_MIN >= 3
  /\ MaxExponent \in Nat /\ BLOCK_SIZE_MAX \in Nat \ {0}

u16 == Radix^2
u32 == Radix^4
u64 == Radix^8

None == -1                \* an absent content size or dictionary id

\* to_le_bytes of v in n bytes, and back.
LE(v, n) == [i \in 1..n |-> (v \div Radix^(i - 1)) % Radix]
FromLE(bytes) == FoldSeq(LAMBDA a, b : a + b, 0, [i \in DOMAIN bytes |-> bytes[i] * Radix^(i - 1)])

Drop(s, n) == SubSeq(s, n + 1, Len(s))

-----------------------------------------------------------------------------
\* Fields.

\* Mutant of encode_frame_content_size: the two-byte size is not counted from Radix.
content_size_unbiased(size) ==
  IF size <= Radix - 1 THEN [flag |-> 0, bytes |-> LE(size, 1)]
  ELSE IF size <= u16 - 1 THEN [flag |-> 1, bytes |-> LE(size, 2)]
  ELSE IF size <= u32 - 1 THEN [flag |-> 2, bytes |-> LE(size, 4)]
  ELSE [flag |-> 3, bytes |-> LE(size, 8)]

encode_frame_content_size(size) ==
  IF size <= Radix - 1 THEN [flag |-> 0, bytes |-> LE(size, 1)]
  ELSE IF size <= u16 + Radix - 1 THEN [flag |-> 1, bytes |-> LE(size - Radix, 2)]
  ELSE IF size <= u32 - 1 THEN [flag |-> 2, bytes |-> LE(size, 4)]
  ELSE [flag |-> 3, bytes |-> LE(size, 8)]

decode_frame_content_size(field) ==
  IF Len(field) = 2 THEN FromLE(field) + Radix ELSE FromLE(field)

frame_content_size_field_size(flag, single_segment) ==
  CASE flag = 0 -> IF single_segment THEN 1 ELSE 0
    [] flag = 1 -> 2
    [] flag = 2 -> 4
    [] flag = 3 -> 8

encode_dictionary_id(id) ==
  IF id \in {None, 0} THEN [flag |-> 0, bytes |-> << >>]
  ELSE IF id <= Radix - 1 THEN [flag |-> 1, bytes |-> LE(id, 1)]
  ELSE IF id <= u16 - 1 THEN [flag |-> 2, bytes |-> LE(id, 2)]
  ELSE [flag |-> 3, bytes |-> LE(id, 4)]

dictionary_id_size(flag) == <<0, 1, 2, 4>>[flag + 1]

\* A window descriptor: 2^(WINDOWLOG_MIN + exponent) and up to seven eighths more.
decode_window_descriptor(descriptor) ==
  LET window_base == 2^(WINDOWLOG_MIN + descriptor \div 8)
  IN  window_base + (window_base \div 8) * (descriptor % 8)

WindowDescriptors == 0..(8 * MaxExponent + 7)

\* The first descriptor, in the order of its loops, that is large enough.
encode_window_descriptor(window_size) ==
  LET requested == Max({window_size, 2^WINDOWLOG_MIN})
      enough == {d \in WindowDescriptors : decode_window_descriptor(d) >= requested}
  IN  IF enough = {} THEN Err("InvalidParameter")
      ELSE Ok(Min(enough))

-----------------------------------------------------------------------------
\* Header writers.

ZSTD_MAGIC == <<-1, -2, -3, -4>>
SKIPPABLE_MAGIC(variant) == <<variant, -5, -6, -7>>

magic_size(format) == IF format = "Zstd1" THEN 4 ELSE 0

write_frame_magic(format) == IF magic_size(format) # 0 THEN ZSTD_MAGIC ELSE << >>

Bit(flag, value) == IF flag THEN value ELSE 0

Descriptor(fcs_flag, single_segment, checksum, dict_id_flag) ==
  fcs_flag * 64 + Bit(single_segment, 32) + Bit(checksum, 4) + dict_id_flag

write_single_segment_header(content_size, checksum, dict_id, format) ==
  LET fcs == encode_frame_content_size(content_size)
      dict == encode_dictionary_id(dict_id)
  IN  Ok(write_frame_magic(format) \o <<Descriptor(fcs.flag, TRUE, checksum, dict.flag)>>
           \o dict.bytes \o fcs.bytes)

write_windowed_header(window_size, checksum, dict_id, format) ==
  LET window == encode_window_descriptor(window_size)
      dict == encode_dictionary_id(dict_id)
  IN  IF window.error # "none" THEN window
      ELSE Ok(write_frame_magic(format) \o <<Descriptor(0, FALSE, checksum, dict.flag), window.value>>
                \o dict.bytes)

\* Outside single-segment mode flag 0 means that no size is there, so the two-byte field
\* is the smallest.
write_windowed_header_with_content_size(window_size, content_size, checksum, dict_id, format) ==
  LET small == encode_frame_content_size(content_size)
      fcs == IF small.flag = 0
             THEN [flag |-> 1, bytes |-> LE(Max({content_size - Radix, 0}), 2)]
             ELSE small
      window == encode_window_descriptor(window_size)
      dict == encode_dictionary_id(dict_id)
  IN  IF window.error # "none" THEN window
      ELSE Ok(write_frame_magic(format)
                \o <<Descriptor(fcs.flag, FALSE, checksum, dict.flag), window.value>>
                \o dict.bytes \o fcs.bytes)

\* Which of the three an encoder writes: encode_all_into_scratch, and the streaming
\* encoder with its pledge for the size (None: not known or not to be written).
WriteHeader(window_size, content_size, checksum, dict_id, format) ==
  IF content_size = None THEN write_windowed_header(window_size, checksum, dict_id, format)
  ELSE IF content_size <= window_size
  THEN write_single_segment_header(content_size, checksum, dict_id, format)
  ELSE write_windowed_header_with_content_size(window_size, content_size, checksum, dict_id, format)

write_skippable_frame(variant, payload) ==
  IF variant >= 16 THEN Err("InvalidParameter")
  ELSE IF Len(payload) >= u32 THEN Err("ContentSizeTooLarge")
  ELSE Ok(SKIPPABLE_MAGIC(variant) \o LE(Len(payload), 4) \o payload)

-----------------------------------------------------------------------------
\* Header parser.

\* src.get(pos..end): the field of n bytes after pos, and whether it is there.
Has(src, pos, n) == Len(src) >= pos + n
Field(src, pos, n) == SubSeq(src, pos + 1, pos + n)

parse_zstandard_frame_header(src, format) ==
  LET at_descriptor == magic_size(format)
      descriptor == src[at_descriptor + 1]
      single_segment == (descriptor \div 32) % 2 = 1
      reserved == (descriptor \div 8) % 2 = 1
      at_window == at_descriptor + 1
      at_dict == at_window + IF single_segment THEN 0 ELSE 1
      dict_size == dictionary_id_size(descriptor % 4)
      at_fcs == at_dict + dict_size
      fcs_size == frame_content_size_field_size(descriptor \div 64, single_segment)
      dict_id == FromLE(Field(src, at_dict, dict_size))
      content_size == IF fcs_size = 0 THEN None
                      ELSE decode_frame_content_size(Field(src, at_fcs, fcs_size))
      window_size == IF single_segment THEN content_size
                     ELSE decode_window_descriptor(src[at_window + 1])
  IN  IF ~Has(src, at_descriptor, 1) THEN Err("UnexpectedEof")
      ELSE IF reserved THEN Err("Corruption")
      ELSE IF ~Has(src, at_fcs, fcs_size) THEN Err("UnexpectedEof")
      ELSE Ok([skippable |-> FALSE, header_size |-> at_fcs + fcs_size,
               window_size |-> window_size,
               block_size_max |-> Min({window_size, BLOCK_SIZE_MAX}),
               content_size |-> content_size,
               dictionary_id |-> IF dict_id = 0 THEN None ELSE dict_id,
               checksum |-> (descriptor \div 4) % 2 = 1,
               single_segment |-> single_segment])

parse_skippable_frame_header(src) ==
  IF ~Has(src, 0, 8) THEN Err("UnexpectedEof")
  ELSE Ok([skippable |-> TRUE, header_size |-> 8, magic_variant |-> src[1],
           size |-> FromLE(Field(src, 4, 4))])

\* Mutant of parse_frame_header: a magic that is not all there is a wrong one.
parse_header_impatient(src, format) ==
  IF format = "Zstd1Magicless" THEN parse_zstandard_frame_header(src, format)
  ELSE IF Len(src) >= 4 /\ Field(src, 0, 4) = ZSTD_MAGIC
  THEN parse_zstandard_frame_header(src, format)
  ELSE IF Len(src) >= 4 /\ \E variant \in 0..15 : Field(src, 0, 4) = SKIPPABLE_MAGIC(variant)
  THEN parse_skippable_frame_header(src)
  ELSE Err("BadMagic")

parse_frame_header(src, format) ==
  IF format = "Zstd1Magicless" THEN parse_zstandard_frame_header(src, format)
  ELSE IF Len(src) < 4 THEN Err("UnexpectedEof")
  ELSE IF Field(src, 0, 4) = ZSTD_MAGIC THEN parse_zstandard_frame_header(src, format)
  ELSE IF \E variant \in 0..15 : Field(src, 0, 4) = SKIPPABLE_MAGIC(variant)
  THEN parse_skippable_frame_header(src)
  ELSE Err("BadMagic")

-----------------------------------------------------------------------------
\* Block headers: the last-block bit, two bits of type and the size above them.

BlockTypes == <<"Raw", "Rle", "Compressed">>

BlockHeaderSize == 3

EncodeBlockHeader(h) ==
  LET type_bits == CHOOSE t \in 0..2 : BlockTypes[t + 1] = h.block_type
  IN  LE((IF h.last_block THEN 1 ELSE 0) + type_bits * 2 + h.block_size * 8, BlockHeaderSize)

ParseBlockHeader(src) ==
  LET value == FromLE(Field(src, 0, BlockHeaderSize))
      type_bits == (value \div 2) % 4
  IN  IF ~Has(src, 0, BlockHeaderSize) THEN Err("UnexpectedEof")
      ELSE IF type_bits = 3 THEN Err("Corruption")
      ELSE Ok([last_block |-> value % 2 = 1, block_type |-> BlockTypes[type_bits + 1],
               block_size |-> value \div 8])

payload_size(h) == IF h.block_type = "Rle" THEN 1 ELSE h.block_size

-----------------------------------------------------------------------------
\* Size queries.

\* The blocks of a frame after pos: where they end and how many there are.
RECURSIVE WalkBlocks(_, _, _)
WalkBlocks(src, pos, blocks) ==
  LET header == ParseBlockHeader(Drop(src, pos))
      next == pos + BlockHeaderSize + payload_size(header.value)
  IN  IF header.error # "none" THEN header
      ELSE IF next > Len(src) THEN Err("UnexpectedEof")
      ELSE IF header.value.last_block THEN Ok([pos |-> next, blocks |-> blocks + 1])
      ELSE WalkBlocks(src, next, blocks + 1)

saturating_mul(a, b) == Min({a * b, u64 - 1})

\* A frame's blocks and checksum: where it ends and how much it may hold.
ZstandardFrameInfo(src, header) ==
  Try(WalkBlocks(src, header.header_size, 0), LAMBDA walk :
    LET end == walk.pos + IF header.checksum THEN 4 ELSE 0
    IN  IF end > Len(src) THEN Err("UnexpectedEof")
        ELSE Ok([compressed_size |-> end,
                 decompressed_bound |-> IF header.content_size # None THEN header.content_size
                                        ELSE saturating_mul(walk.blocks, header.block_size_max),
                 declared_size |-> header.content_size]))

frame_size_info(src, format) ==
  Try(parse_frame_header(src, format), LAMBDA header :
    IF ~header.skippable THEN ZstandardFrameInfo(src, header)
    ELSE IF Len(src) < header.header_size + header.size THEN Err("UnexpectedEof")
    ELSE Ok([compressed_size |-> header.header_size + header.size,
             decompressed_bound |-> 0, declared_size |-> 0]))

checked_add(a, b) == IF a + b >= u64 THEN Err("OutputSizeOverflow") ELSE Ok(a + b)

\* Mutant of FoldFrame: a frame that declares no size counts as an empty one.
FoldFrameAsEmpty(query, total, info) ==
  IF query = "bound" THEN checked_add(total, info.decompressed_bound)
  ELSE checked_add(total, IF info.declared_size = None THEN 0 ELSE info.declared_size)

\* What each query folds: bounds add up; declared sizes do too, until one is missing.
FoldFrame(query, total, info) ==
  IF query = "bound" THEN checked_add(total, info.decompressed_bound)
  ELSE IF None \in {total, info.declared_size} THEN Ok(None)
  ELSE checked_add(total, info.declared_size)

RECURSIVE FoldFrames(_, _, _, _)
FoldFrames(src, format, query, total) ==
  Try(frame_size_info(src, format), LAMBDA info :
  Try(FoldFrame(query, total, info), LAMBDA folded :
  IF info.compressed_size = Len(src) THEN Ok(folded)
  ELSE FoldFrames(Drop(src, info.compressed_size), format, query, folded)))

for_each_frame(src, format, query) ==
  IF src = << >> THEN Err("UnexpectedEof") ELSE FoldFrames(src, format, query, 0)

decompress_bound(src, format) == for_each_frame(src, format, "bound")
decompressed_size(src, format) == for_each_frame(src, format, "declared")

-----------------------------------------------------------------------------
\* What decode_zstandard_frame makes of the same bytes: how many it may produce.  A
\* compressed block makes any number up to the block limit, its contents being left open.

RECURSIVE DecodeBlocks(_, _, _, _)
DecodeBlocks(src, header, pos, sizes) ==
  Try(ParseBlockHeader(Drop(src, pos)), LAMBDA block :
    LET next == pos + BlockHeaderSize + payload_size(block)
        made == IF block.block_type = "Compressed" THEN 0..header.block_size_max ELSE {block.block_size}
        total == {a + b : a \in sizes, b \in made}
    IN  IF block.block_type # "Compressed" /\ block.block_size > header.block_size_max
        THEN Err("Corruption")
        ELSE IF next > Len(src) THEN Err("UnexpectedEof")
        ELSE IF block.last_block THEN Ok([pos |-> next, sizes |-> total])
        ELSE DecodeBlocks(src, header, next, total))

decode_zstandard_frame(src, header) ==
  Try(DecodeBlocks(src, header, header.header_size, {0}), LAMBDA blocks :
    LET end == blocks.pos + IF header.checksum THEN 4 ELSE 0
        sizes == {s \in blocks.sizes : header.content_size \in {None, s}}
    IN  IF end > Len(src) THEN Err("UnexpectedEof")
        ELSE IF sizes = {} THEN Err("ContentSizeMismatch")
        ELSE Ok([pos |-> end, sizes |-> sizes]))

decode_frame(src, header) ==
  LET end == header.header_size + header.size
  IN  IF ~header.skippable THEN decode_zstandard_frame(src, header)
      ELSE IF end > Len(src) THEN Err("UnexpectedEof")
      ELSE Ok([pos |-> end, sizes |-> {0}])

\* decode_into_with_scratch over every frame of src; `sizes` is every possible total.
RECURSIVE DecodeFrames(_, _, _)
DecodeFrames(src, format, sizes) ==
  IF src = << >> THEN Ok(sizes)
  ELSE Try(parse_frame_header(src, format), LAMBDA header :
       Try(decode_frame(src, header), LAMBDA frame :
       DecodeFrames(Drop(src, frame.pos), format, {a + b : a \in sizes, b \in frame.sizes})))

decode_all(src, format) ==
  IF src = << >> THEN Err("UnexpectedEof") ELSE DecodeFrames(src, format, {0})
=============================================================================
