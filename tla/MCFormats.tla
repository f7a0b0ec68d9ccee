------------------------------ MODULE MCFormats ------------------------------
(***************************************************************************)
(* What is written and read back.  Items for TLC: every field at and       *)
(* around each size where its encoding changes, and small histograms,      *)
(* sequences and trees in all combinations (FormatChannel).  And the bit   *)
(* containers of the unrolled loops, one loop at a time, on either side    *)
(* (BitReader, BitWriter).  They share no state: a behaviour is one of     *)
(* them.                                                                   *)
(***************************************************************************)
EXTENDS FormatChannel, BitReader, BitWriter

BOOL == {TRUE, FALSE}

MCHeaders ==
  [window : {16, 17, 31, 33, 128, 240}, checksum : BOOL, dict : {None, 0, 1, 7, 8, 63, 64, 4095},
   size : {None, 0, 1, 7, 8, 9, 63, 64, 71, 72, 73, 4095, 4096, 4097, 16777215},
   format : {"Zstd1", "Zstd1Magicless"}]
  \cup [window : {241}, checksum : {FALSE}, dict : {None}, size : {None, 300}, format : {"Zstd1"}]

MCPayloads == [variant : {0, 7, 15}, payload : {<< >>, <<1>>, <<2, 3, 4>>, [i \in 1..9 |-> 5]}]

MCBlocks == [last_block : BOOL, block_type : {"Raw", "Rle", "Compressed"}, block_size : {0, 1, 7, 8, 63}]

MCCounts == {0, 1, 126, 127, 128, 129, 255, 256, 257, 32510, 32511, 32512, 32513, 32768, 65535, 65536,
             98046, 98047, 98048, 98049}

MCSizes == {0, 1, 31, 32, 33, 4095, 4096, 4097, 131071, 131072}

MCLiterals ==
  [repeat_mode : {"None", "Check", "Valid"}, compressed : {10, 255, 1022, 1023, 1024, 16383, 16384, 131071},
   size : {64, 255, 256, 1023, 1024, 16383, 16384, 131071, 131072}]

\* Histograms of up to four symbols, and sparse ones with long runs of absent symbols.
Sparse(places, n) == [s \in 0..Max(places) |-> IF s \in places THEN n + (s % 3) ELSE 0]
SmallHistograms == [0..2 -> {0, 1, 2, 5, 40}] \cup [0..3 -> {1, 3, 60}] \cup {Sparse({0, 4, 11}, 3)}
CodeHistograms == {Sparse(p, n) : p \in {{0, 25}, {0, 3, 4, 30}, {0, 1, 50}, 0..30, 0..52}, n \in {1, 4, 100}}
MCHistograms ==
  {h \in [count : SmallHistograms, max_log : {6, 9}, low : BOOL, after : {0, 255}]
        \cup [count : CodeHistograms, max_log : {9}, low : BOOL, after : {0, 255}] :
     /\ h.count[MaxSymbol(h.count)] > 0
     /\ Cardinality({s \in DOMAIN h.count : h.count[s] > 0}) > 1}

\* Sequences: boundaries of all three codes, in blocks of one to four.
Seq1 == [literal_length |-> 0, offset_value |-> 1, match_length |-> 3]
Seq2 == [literal_length |-> 17, offset_value |-> 2, match_length |-> 35]
Seq3 == [literal_length |-> 64, offset_value |-> 1023, match_length |-> 131]
Seq4 == [literal_length |-> 65536, offset_value |-> 65536, match_length |-> 65539]
SeqBlocks ==
  {<<Seq1>>, <<Seq1, Seq1, Seq1>>, <<Seq4, Seq3, Seq2, Seq1>>, <<Seq2, Seq2, Seq3, Seq2, Seq2>>}

MCSections == [first : SeqBlocks, second : SeqBlocks]

\* Trees of six symbols, and sparse ones whose weights are worth compressing.
Support(count) == SelectSeq([i \in 1..Cardinality(DOMAIN count) |-> i - 1], LAMBDA s : count[s] > 0)
Texts(count) == LET s == Support(count) IN {s \o Reverse(s) \o s \o s \o s \o s, Reverse(s) \o <<s[1]>>, <<s[1], s[2], s[2]>>}

TreeCounts ==
  [0..4 -> {1, 3, 13}] \cup {[s \in 0..5 |-> 2^s], [s \in 0..5 |-> 2^(5 - s)], [s \in 0..5 |-> IF s = 3 THEN 30 ELSE 1]}
    \cup {Sparse(p, 1) : p \in {{0, 1}, {0, 1, 40}, {3, 30, 41, 60}, {1, 2, 3, 59}, {0, 50, 51, 52, 61}}}
MCTrees ==
  UNION {[count : {c}, max_nb_bits : {3, 4}, src : Texts(c)] : c \in TreeCounts}

\* Whole frames: a header, blocks, perhaps a checksum; one of them or two, and what a
\* skippable frame adds.
BlockList ==
  {<< >>} \cup {<<[last_block |-> FALSE, block_type |-> t, block_size |-> n]>> :
                  t \in {"Raw", "Rle", "Compressed"}, n \in {0, 2, 40}}
LastBlock == {[last_block |-> TRUE, block_type |-> t, block_size |-> n] :
                t \in {"Raw", "Rle", "Compressed"}, n \in {0, 1, 17}}

BlockBytes(b) == EncodeBlockHeader(b) \o [i \in 1..payload_size(b) |-> 1]
FrameBytes(h, blocks) ==
  h \o FoldLeft(LAMBDA all, b : all \o BlockBytes(b), << >>, blocks)
    \o IF (h[5] \div 4) % 2 = 1 THEN <<0, 0, 0, 0>> ELSE << >>

OneFrame ==
  {FrameBytes(WriteHeader(16, size, checksum, None, "Zstd1").value, Append(blocks, last)) :
     size \in {None, 0, 1, 2, 17, 3}, checksum \in BOOL, blocks \in BlockList, last \in LastBlock}

Others == {FrameBytes(WriteHeader(16, None, FALSE, None, "Zstd1").value,
                      <<[last_block |-> TRUE, block_type |-> "Rle", block_size |-> 3]>>),
           write_skippable_frame(3, <<1, 2>>).value}

MCFrames ==
  [src : OneFrame \cup {a \o b : a \in Others, b \in Others}
           \cup {a \o b : a \in OneFrame, b \in Others}, format : {"Zstd1"}]

NoItem == kind = "none" /\ item = << >> /\ wire = << >> /\ cut = FALSE /\ got = << >> /\ stage = "none"

FormatsInit ==
  \/ Init /\ ReaderIdle /\ WriterIdle
  \/ NoItem /\ ReaderInit /\ WriterIdle
  \/ NoItem /\ ReaderIdle /\ WriterInit

FormatsNext ==
  \/ Next /\ UNCHANGED <<readerVars, writerVars>>
  \/ ReaderNext /\ UNCHANGED <<vars, writerVars>>
  \/ WriterNext /\ UNCHANGED <<vars, readerVars>>

FormatsSpec == FormatsInit /\ [][FormatsNext]_<<vars, readerVars, writerVars>>
=============================================================================
