--------------------------- MODULE MCStreamDecoder ---------------------------
(***************************************************************************)
(* StreamDecoder on windows and blocks of four bytes.  The wires are       *)
(* grouped by the question they are for.  A compressed block's payload     *)
(* size is the size of its encoding and bears no relation to its output.   *)
(***************************************************************************)
EXTENDS StreamDecoder

NoDictionary == [present |-> FALSE]

\* A structured dictionary: three bytes of content, tables and repeat offsets.
ADictionary ==
  [present |-> TRUE, id |-> 1, content |-> <<7, 8, 9>>,
   entropy |-> [repeat_offsets |-> <<2, 5, 3>>, huffman_table |-> <<5, 6>>,
                sequence_table |-> <<[ll |-> 0, ml |-> 3, value |-> 1]>>]]

\* Building blocks.
Header(w, size, sum, dict) == FrameHeader(6, w, size, sum, dict)
RawBlock(last, bytes) == Block(last, "Raw", Len(bytes), bytes)
RleBlock(last, n, byte) == Block(last, "Rle", n, <<byte>>)
Compressed(last, literals, sequences, sound) ==
  Block(last, "Compressed", 2, [literals |-> literals, sequences |-> sequences, sound |-> sound])
RawLits(bytes) == [type |-> "Raw", table |-> NoTable, data |-> bytes]
HuffLits(table, codes) == [type |-> "Huffman", table |-> table, data |-> codes]
Treeless(codes) == [type |-> "Treeless", table |-> NoTable, data |-> codes]
NoSeqs == [repeat |-> FALSE, table |-> NoTable, codes |-> << >>]
OwnSeqs(seqs) == [repeat |-> FALSE, table |-> seqs, codes |-> [i \in DOMAIN seqs |-> i]]
RepeatSeqs(codes) == [repeat |-> TRUE, table |-> NoTable, codes |-> codes]
Seq1(ll, ml, value) == [ll |-> ll, ml |-> ml, value |-> value]


-----------------------------------------------------------------------------
\* Without a dictionary.

\* A frame of three blocks that reads back over what it produced, repeats its
\* tables and is checksummed; then a skippable frame and one more frame.
Plain ==
  Header(4, None, TRUE, None)
    \o RawBlock(FALSE, <<1, 2, 3, 4>>)
    \o Compressed(FALSE, HuffLits(<<8, 9>>, <<2>>), OwnSeqs(<<Seq1(1, 3, 6)>>), TRUE)
    \o Compressed(TRUE, Treeless(<<1>>), RepeatSeqs(<<1>>), TRUE)
    \o Checksum(<<1, 2, 3, 4, 9, 3, 4, 9, 8, 4, 9, 8>>)
    \o SkippableFrame(2)
    \o Header(4, 5, FALSE, None) \o RleBlock(FALSE, 2, 1) \o RawBlock(TRUE, <<2, 3, 4>>)

\* A frame that leaves tables and repeat offsets behind, as a later one finds them.
Leaves ==
  Header(4, None, FALSE, None)
    \o Compressed(TRUE, HuffLits(<<8, 9>>, <<2>>), OwnSeqs(<<Seq1(1, 3, 4)>>), TRUE)

\* Frames that would decode if the tables or the repeats of the last were kept.
StaleLiterals  == Leaves \o Header(4, None, FALSE, None)
                         \o Compressed(TRUE, Treeless(<<1, 2>>), NoSeqs, TRUE)
StaleSequences == Leaves \o Header(4, None, FALSE, None)
                         \o Compressed(TRUE, RawLits(<<1>>), RepeatSeqs(<<1>>), TRUE)

\* Frames that fail after their last block.
BadDigest == Header(4, None, TRUE, None) \o RawBlock(TRUE, <<1, 2>>) \o Checksum(<<2, 1>>)
BadSize   == Header(4, 3, FALSE, None) \o RawBlock(FALSE, <<1, 2>>) \o RawBlock(TRUE, << >>)
BadSizeSummed == Header(4, 3, TRUE, None) \o RawBlock(TRUE, <<1, 2>>) \o Checksum(<<1, 2>>)

\* Blocks that fail: reserved type, too large, an offset behind the frame's start
\* with an earlier frame in front, a bitstream that is not used up.
Reserved  == Header(4, None, FALSE, None) \o Block(TRUE, "Reserved", 2, << >>)
Oversized == Header(4, None, FALSE, None) \o RawBlock(TRUE, <<1, 2, 3, 4, 5>>)
Behind    == Leaves \o Header(4, None, FALSE, None)
               \o Compressed(TRUE, RawLits(<<1>>), OwnSeqs(<<Seq1(1, 3, 6)>>), TRUE)
Unsound   == Leaves \o Leaves \o Header(4, None, FALSE, None)
               \o Compressed(TRUE, RawLits(<<1, 2>>), OwnSeqs(<<Seq1(1, 3, 4)>>), FALSE)

\* Headers that are refused.
WideWindow  == Header(5, None, FALSE, None) \o RawBlock(TRUE, <<1>>)
NeedsDict   == Header(4, None, FALSE, 1) \o RawBlock(TRUE, <<1>>)
TrailingJunk == Leaves \o Junk(5)

\* An empty skippable frame at the end, where nothing waits behind it.
EndsEmpty == Leaves \o SkippableFrame(0)

PlainWires == {Plain, EndsEmpty}
CorruptWires == {StaleLiterals, StaleSequences, BadDigest, BadSize, BadSizeSummed, Reserved,
                 Oversized, Behind, Unsound, WideWindow, NeedsDict, TrailingJunk}

-----------------------------------------------------------------------------
\* With the dictionary.

\* A match that begins in the dictionary and runs on into the frame.
Straddles ==
  Header(4, None, FALSE, 1)
    \o Compressed(TRUE, RawLits(<<1>>), OwnSeqs(<<Seq1(1, 3, 6)>>), TRUE)

\* The dictionary's own tables and repeats: rep2 is 5, exactly a window behind
\* its last byte, still reachable after four bytes of frame.
Inherits ==
  Header(4, None, TRUE, 1)
    \o Compressed(FALSE, Treeless(<<1, 2, 1, 2>>), NoSeqs, TRUE)
    \o Compressed(TRUE, RawLits(<<4>>), RepeatSeqs(<<1>>), TRUE)
    \o Checksum(<<5, 6, 5, 6, 9, 5, 6, 4>>)

\* The same reach once the frame has outrun its window.
Outruns ==
  Header(4, None, FALSE, None)
    \o RawBlock(FALSE, <<1, 2, 3, 4>>) \o RawBlock(FALSE, <<1, 2, 3, 4>>)
    \o Compressed(TRUE, RawLits(<< >>), OwnSeqs(<<Seq1(0, 3, 8)>>), TRUE)

\* A block that fails after a dictionary match has become visible.
HalfDone ==
  Header(4, None, FALSE, 1) \o RawBlock(FALSE, <<1>>)
    \o Compressed(TRUE, RawLits(<< >>), OwnSeqs(<<Seq1(0, 3, 6), Seq1(0, 3, 4)>>), TRUE)

WrongDict == Header(4, None, FALSE, 2) \o RawBlock(TRUE, <<1>>)

DictWires == {Straddles \o Inherits, Outruns, HalfDone, WrongDict}

-----------------------------------------------------------------------------
\* Under a cap of six bytes, on a decoder that is reset.

Four  == Header(4, None, FALSE, None) \o RawBlock(TRUE, <<1, 2, 3, 4>>)
Five  == Header(4, 5, FALSE, None) \o RawBlock(FALSE, <<1, 2, 3, 4>>) \o RleBlock(TRUE, 1, 5)
Eight == Header(4, None, FALSE, None) \o RawBlock(FALSE, <<1, 2, 3, 4>>)
           \o Compressed(TRUE, RawLits(<<5>>), OwnSeqs(<<Seq1(1, 3, 5)>>), TRUE)
TailOver == Header(4, None, FALSE, None) \o RawBlock(FALSE, <<1, 2, 3>>)
           \o Compressed(TRUE, RawLits(<<4>>), OwnSeqs(<<Seq1(0, 3, 5)>>), TRUE)
Empty == Header(4, None, FALSE, None)
           \o Compressed(TRUE, RawLits(<< >>), NoSeqs, TRUE)
CappedWires == {Four, Five, Eight, TailOver, Empty, Four \o Five, Four \o Four}

-----------------------------------------------------------------------------
\* Under single_frame.

SingleWires == {Four, BadDigest, Five \o Four, Five \o SkippableFrame(1), Five \o Junk(2),
                SkippableFrame(1) \o Four}

-----------------------------------------------------------------------------
\* The decoders and what they are given.

Options(cap, single, dictionary) ==
  [max_window_size |-> 4, max_output_size |-> cap, verify_checksum |-> TRUE,
   single_frame |-> single, dictionary |-> dictionary]

Unlimited == Options(None, FALSE, NoDictionary)
Setup(opts, wires, again) == [options |-> opts, wires |-> wires, again |-> again]

AllSetups ==
  {Setup(Unlimited, PlainWires \cup CorruptWires, {}),
   Setup([Unlimited EXCEPT !.verify_checksum = FALSE], {BadDigest}, {}),
   Setup(Options(None, FALSE, ADictionary), DictWires, {}),
   Setup(Options(6, FALSE, NoDictionary), CappedWires, {Five, Eight, Four \o Four}),
   Setup(Options(None, TRUE, NoDictionary), SingleWires, {})}

\* Empty skippable frames with a frame behind them.
EmptySkippables ==
  {Setup(Unlimited, {SkippableFrame(0) \o SkippableFrame(0) \o Four}, {})}

\* The run that compares the two decoders meets the hypothesis of the theorems that do.
ASSUME ComparedSetups == Setups = AllSetups => NothingBehindEmpties
=============================================================================
