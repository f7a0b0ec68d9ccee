---------------------------- MODULE FormatChannel ----------------------------
(***************************************************************************)
(* What one side writes the other side reads: an item of the format is     *)
(* written, the bytes arrive whole or cut short, and a reader makes of     *)
(* them what it can.  The kinds of item are the frame, skippable-frame and *)
(* block headers of FrameFormat, the section headers of SectionFormat, the *)
(* counts of Fse, the sequences of two consecutive blocks of               *)
(* SequenceSection, the Huffman-coded literals of Huffman, and whole       *)
(* frames whose size is asked for before they are decoded.                 *)
(***************************************************************************)
EXTENDS FrameFormat, SequenceSection

CONSTANTS SYMBOLVALUE_MAX, TABLELOG_MAX_HUF, FAST_TABLELOG_HUF

ASSUME HuffmanAssumption ==
  TABLELOG_MAX_HUF \in 2..12 /\ FAST_TABLELOG_HUF \in 1..TABLELOG_MAX_HUF

HUF == INSTANCE Huffman WITH TABLELOG_MAX <- TABLELOG_MAX_HUF,
                             DECODER_FAST_TABLELOG <- FAST_TABLELOG_HUF

CONSTANTS
  Headers,        \* [window, size, checksum, dict, format]
  Payloads,       \* [variant, payload] of skippable frames
  Blocks,         \* block headers
  Counts,         \* numbers of sequences
  Sizes,          \* sizes of raw and RLE literals
  Literals,       \* [repeat_mode, size, compressed] of coded literals
  Histograms,     \* [count, max_log, low, after]: counts to normalise, the byte after them
  Sections,       \* [first, second]: the sequences of two blocks
  Trees,          \* [count, max_nb_bits, src] for Huffman literals
  Frames          \* whole frames: [src, format]

VARIABLES
  kind,    \* of the item
  item,    \* what is to be written
  wire,    \* what was written, or is left of it
  cut,     \* whether it was cut short
  got,     \* what a reader made of it
  stage    \* "item", "wire", "got"

vars == <<kind, item, wire, cut, got, stage>>

-----------------------------------------------------------------------------
\* Writers and readers of each kind.

Default == [part \in SequencePart |-> [table |-> default_distribution(part), repeat_mode |-> "None"]]
NoTables == [part \in SequencePart |-> NoTable]

\* The ways to write a block: its parts may take any admissible mode.
AllowedModes(sequences, previous) ==
  {m \in [SequencePart -> {"Predefined", "Rle", "FseCompressed", "Repeat"}] :
     \A part \in SequencePart :
       m[part] \in Modes(part, Codes(part, Commands(sequences)), previous[part])}

\* Two blocks of one frame: the second may repeat the tables of the first.
WriteSecond(one, sequences) ==
  {<<one.bits, encode_sequence_section(sequences, modes, one.next).bits>> :
     modes \in AllowedModes(sequences, one.next)}

WriteSections(s) ==
  UNION {WriteSecond(encode_sequence_section(s.first, modes, Default), s.second) :
           modes \in AllowedModes(s.first, Default)}

ReadSections(bits) ==
  Try(decode_sequence_section(bits[1], NoTables), LAMBDA one :
  Try(decode_sequence_section(bits[2], one.tables), LAMBDA two :
  Ok(<<one.sequences, two.sequences>>)))

\* Literals: the table, then one stream and, when they are long enough, four.
WriteLiterals(src, ct) ==
  Try(HUF!write_ctable(ct), LAMBDA description :
  Ok([description |-> description, one |-> HUF!compress_1x(src, ct),
      four |-> HUF!compress_4x(src, ct), nb_bits |-> ct.nb_bits]))

\* Every decoder's answer, for both shapes of table.
Answers(w, size, x1, x2) ==
  {HUF!decompress_1x1(w.one, size, x1), HUF!decompress_1x2(w.one, size, x2)}
    \cup IF w.four = << >> THEN {}
         ELSE {HUF!decompress_4x1(w.four, size, x1), HUF!decompress_4x2(w.four, size, x2)}

ReadLiterals(w, t) ==
  Try(HUF!read_stats(w.description), LAMBDA stats :
  Ok([size |-> stats.size, table |-> HUF!build_ctable_from_weights(stats).nb_bits,
      answers |-> Answers(w, Len(t.src), HUF!read_dtable_x1(stats), HUF!read_dtable_x2(stats))]))

\* Counts at the log an encoder picks for them.
Normalised(i) ==
  normalize_count(i.count, optimal_table_log(i.max_log, Total(i.count), MaxSymbol(i.count)), i.low)

WriteCounts(i) ==
  Try(Normalised(i), LAMBDA n : Try(write_ncount(n.norm, n.log), LAMBDA bits : Ok(bits \o ToBits(i.after, 8))))

Write(k, i) ==
  CASE k = "header" -> WriteHeader(i.window, i.size, i.checksum, i.dict, i.format)
    [] k = "skippable" -> write_skippable_frame(i.variant, i.payload)
    [] k = "block" -> Ok(EncodeBlockHeader(i))
    [] k = "count" -> encode_sequence_count(i)
    [] k = "raw" -> Ok(append_raw_or_rle_literals_header(0, i))
    [] k = "coded" -> WriteCompressedLiterals(2, i.repeat_mode, i.size, i.compressed)
    [] k = "ncount" -> WriteCounts(i)
    [] k = "literals" -> WriteLiterals(i.src, HUF!build_ctable(i.count, i.max_nb_bits))
    [] k = "frames" -> Ok(i.src)

Read(k, i, w) ==
  CASE k = "header" -> parse_frame_header(w, i.format)
    [] k = "skippable" -> parse_frame_header(w, "Zstd1")
    [] k = "block" -> ParseBlockHeader(w)
    [] k = "count" -> parse_sequence_count(w)
    [] k = "raw" -> decode_raw_or_rle_size(w)
    [] k = "coded" -> decode_compressed_literals_header(w)
    [] k = "ncount" -> read_ncount(w, IF i.max_log = 6 THEN 12 ELSE 52, i.max_log)
    [] k = "sections" -> ReadSections(w)
    [] k = "literals" -> ReadLiterals(w, i)
    [] k = "frames" -> decode_all(w, i.format)

\* How many of its units a header is made of, and what is left when it is cut.
Cuttable(k) == k \in {"header", "skippable", "block", "count", "raw", "coded", "frames"}
Unit(k) == IF k \in {"count", "raw", "coded"} THEN 8 ELSE 1
HeaderLen(k) == IF k = "skippable" THEN 8 ELSE Len(wire) \div Unit(k)

-----------------------------------------------------------------------------
Init ==
  /\ \/ kind = "header" /\ item \in Headers
     \/ kind = "skippable" /\ item \in Payloads
     \/ kind = "block" /\ item \in Blocks
     \/ kind = "count" /\ item \in Counts
     \/ kind = "raw" /\ item \in Sizes
     \/ kind = "coded" /\ item \in Literals
     \/ kind = "ncount" /\ item \in Histograms
     \/ kind = "sections" /\ item \in Sections
     \/ kind = "literals" /\ item \in Trees
     \/ kind = "frames" /\ item \in Frames
  /\ wire = << >> /\ cut = FALSE /\ got = << >> /\ stage = "item"

\* An item that cannot be written ends here.
WriteItem ==
  /\ stage = "item" /\ kind # "sections"
  /\ \E w \in {Write(kind, item)} :
         /\ wire' = w.value
         /\ got' = IF w.error = "none" THEN << >> ELSE w
         /\ stage' = IF w.error = "none" THEN "wire" ELSE "refused"
  /\ UNCHANGED <<kind, item, cut>>

WriteBlocks ==
  /\ stage = "item" /\ kind = "sections"
  /\ wire' \in WriteSections(item)
  /\ stage' = "wire"
  /\ UNCHANGED <<kind, item, cut, got>>

CutShort ==
  /\ stage = "wire" /\ ~cut /\ Cuttable(kind)
  /\ \E n \in 0..(HeaderLen(kind) - 1) : wire' = SubSeq(wire, 1, n * Unit(kind))
  /\ cut' = TRUE
  /\ UNCHANGED <<kind, item, got, stage>>

ReadItem ==
  /\ stage = "wire"
  /\ got' = Read(kind, item, wire)
  /\ stage' = "got"
  /\ UNCHANGED <<kind, item, wire, cut>>

Next == WriteItem \/ WriteBlocks \/ CutShort \/ ReadItem

Spec == Init /\ [][Next]_vars

-----------------------------------------------------------------------------
HeaderAgrees(i, h) ==
  /\ h.header_size = Len(wire) /\ ~h.skippable
  /\ h.content_size = i.size
  /\ h.dictionary_id = IF i.dict = 0 THEN None ELSE i.dict
  /\ h.checksum = i.checksum
  /\ h.window_size >= IF h.single_segment THEN i.size ELSE i.window

Agrees(v) ==
  CASE kind = "header" -> HeaderAgrees(item, v)
    [] kind = "skippable" -> v.skippable /\ v.magic_variant = item.variant /\ v.size = Len(item.payload)
    [] kind = "block" -> v = item
    [] kind = "count" -> v = [count |-> item, size |-> Len(wire) \div 8]
    [] kind = "raw" -> v = [size |-> item, header_size |-> Len(wire) \div 8]
    [] kind = "coded" ->
         /\ v.header_size = Len(wire) \div 8
         /\ v.size = item.size /\ v.compressed = item.compressed
         /\ v.four_streams = ~compressed_literals_layout(item.size, item.repeat_mode).single_stream
    [] kind = "ncount" -> [norm |-> v.norm, log |-> v.log] = Normalised(item).value
                          /\ v.size = Len(wire) \div 8 - 1
    [] kind = "sections" -> v = <<item.first, item.second>>
    [] kind = "literals" -> /\ v.answers = {Ok(item.src)} /\ v.table = wire.nb_bits
                            /\ v.size = Len(wire.description) \div 8
    [] kind = "frames" -> TRUE

(***************************************************************************)
(* Everything written is read back as it was: header fields at every width *)
(* they change at, the sequence count, the sizes of literals sections,     *)
(* normalised counts, the sequences of a block and of the next one that    *)
(* repeats its tables, and literals through both shapes of Huffman table   *)
(* in one stream and in four.  Counts at the log the encoder picks are     *)
(* never refused (src/frame.rs, src/block.rs, src/literals.rs,             *)
(* src/sequence.rs, src/entropy).                                          *)
(***************************************************************************)
RoundTrip ==
  /\ stage = "got" /\ ~cut /\ kind # "frames" => got.error = "none" /\ Agrees(got.value)
  /\ stage = "refused" => kind \in {"header", "count", "coded"}

(***************************************************************************)
(* A header that has not arrived in full is reported as such and never     *)
(* read as another header or as corrupt: the streaming decoder waits on    *)
(* UnexpectedEof and gives up on anything else (parse_frame_header,        *)
(* BlockHeader::parse, parse_sequence_count and the literals headers).     *)
(***************************************************************************)
CutIsNoticed ==
  stage = "got" /\ cut /\ kind # "frames" => got.error = "UnexpectedEof"

(***************************************************************************)
(* The sizes a caller allocates by are right: no decode of the same bytes  *)
(* makes more than decompress_bound says, and when decompressed_size       *)
(* states a size, a decode makes exactly that or fails (src/frame.rs).     *)
(***************************************************************************)
BoundSound ==
  stage = "got" /\ kind = "frames" /\ got.error = "none" =>
    LET bound == decompress_bound(wire, item.format)
        declared == decompressed_size(wire, item.format)
    IN  /\ bound.error = "none" /\ \A n \in got.value : n <= bound.value
        /\ declared.error = "none" /\ (declared.value # None => got.value = {declared.value})
=============================================================================
