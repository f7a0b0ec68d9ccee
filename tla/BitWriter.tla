------------------------------ MODULE BitWriter ------------------------------
(***************************************************************************)
(* The 64-bit accumulators of the entropy coders: BitCStream               *)
(* (src/entropy/bitstream.rs) under encode_sequence_bitstream_into and its *)
(* _direct_ twin (src/sequence.rs) and under the FSE coder of the Huffman  *)
(* weights (src/entropy/fse.rs), and the top-down containers of            *)
(* compress_1x_loop (src/entropy/huff0.rs).                                *)
(*                                                                         *)
(* Adding bits never checks for room: each loop flushes often enough by    *)
(* its own arithmetic on the widths its tables allow.  The model keeps     *)
(* that arithmetic, with the code's own widths.                            *)
(***************************************************************************)
EXTENDS BitStrings

CONSTANT Writers    \* the loops that may run

STREAM_ACCUMULATOR_MIN == CONTAINER_BITS - 7

ASSUME WriterAssumption == Writers \subseteq {"sequences", "weights", "huff"}

VARIABLES
  writer,       \* the loop that runs
  table_log,    \* of the Huffman table
  unroll,       \* K_UNROLL and K_LAST_FAST
  last_fast,
  step,         \* where in the loop it stands
  bit_pos,      \* bits of the container in use: bit_pos, or bp & 0xFF
  dirty,        \* low bits of the container a fast add left something in
  second,       \* bits and dirty bits of the second container
  group         \* symbols added to the group being built

writerVars == <<writer, table_log, unroll, last_fast, step, bit_pos, dirty, second, group>>

Config == <<writer, table_log, unroll, last_fast>>

-----------------------------------------------------------------------------
\* compress_1x_packed: the symbols between two flushes for a table of this depth, or
\* four when the destination is not known to be large enough.
Unroll(log, roomy) ==
  CASE ~roomy \/ log > 11 -> 4
    [] log = 11 -> 5
    [] log = 10 -> 5
    [] log = 9 -> 6
    [] log = 8 -> 7
    [] log = 7 -> 8
    [] OTHER -> 9

\* Mutant of LastFast: at eleven bits the last add is taken to be fast as well.
LastFastAtEleven(log, roomy) == roomy /\ log <= 11 /\ log \notin {9, 8, 7}

LastFast(log, roomy) == roomy /\ log <= 11 /\ log \notin {11, 9, 8, 7}

Empty == [bits |-> 0, dirty |-> 0]

WriterInit ==
  /\ writer \in Writers
  /\ table_log \in IF writer = "huff" THEN 1..HUF_TABLELOG_MAX ELSE {WEIGHT_LOG}
  /\ \E roomy \in BOOLEAN : /\ unroll = Unroll(table_log, roomy)
                            /\ last_fast = LastFast(table_log, roomy)
  /\ step = "first"
  /\ bit_pos = 0 /\ dirty = 0 /\ second = Empty /\ group = 0

Add(low, high) == \E bits \in low..high : bit_pos' = bit_pos + bits

-----------------------------------------------------------------------------
\* The sequence bitstream.

\* ensure_bits_capacity, then add_bits.
add_bits_checked(bits, nb_bits) ==
  (IF nb_bits # 0 /\ bits + nb_bits >= STREAM_ACCUMULATOR_MIN THEN bits % 8 ELSE bits) + nb_bits

\* The last sequence goes first: its extra bits, each behind a capacity check, and the
\* flush the loop below relies on.
LastSequence ==
  /\ step = "first" /\ writer = "sequences"
  /\ \E ll \in 0..LL_EXTRA, ml \in 0..ML_EXTRA, of \in 0..OF_EXTRA :
       bit_pos' = add_bits_checked(add_bits_checked(add_bits_checked(bit_pos, ll), ml), of)
  /\ step' = "flush"
  /\ UNCHANGED <<Config, dirty, second, group>>

FlushLast ==
  /\ step = "flush"
  /\ bit_pos' = bit_pos % 8
  /\ step' \in {"symbols", "states"}
  /\ UNCHANGED <<Config, dirty, second, group>>

\* Each other sequence: three FSE symbols, then the literal length's extra bits.
EncodeSymbols ==
  /\ step = "symbols"
  /\ Add(0, OF_LOG + ML_LOG + LL_LOG + LL_EXTRA)
  /\ step' = "extras"
  /\ UNCHANGED <<Config, dirty, second, group>>

\* A flush if the match length's and the offset's bits would not fit, then those bits.
FlushesFor(bits) == bit_pos + bits >= STREAM_ACCUMULATOR_MIN

AddExtras ==
  /\ step = "extras"
  /\ \E ml \in 0..ML_EXTRA, of \in 0..OF_EXTRA :
       bit_pos' = (IF FlushesFor(ml + of) THEN bit_pos % 8 ELSE bit_pos) + ml + of
  /\ step' = "flush"
  /\ UNCHANGED <<Config, dirty, second, group>>

\* ensure_bits_capacity and flush_cstate for each of the three tables, for match
\* lengths, offsets and literal lengths; then close adds the mark.
FlushStates ==
  /\ step = "states" /\ group < 3
  /\ \E log \in 0..(IF group = 1 THEN OF_LOG ELSE LL_LOG) :
       bit_pos' = add_bits_checked(bit_pos, log)
  /\ group' = group + 1
  /\ step' = "states_flush"
  /\ UNCHANGED <<Config, dirty, second>>

StatesFlush ==
  /\ step = "states_flush"
  /\ bit_pos' = bit_pos % 8
  /\ step' = IF group = 3 THEN "close" ELSE "states"
  /\ UNCHANGED <<Config, dirty, second, group>>

Close ==
  /\ step = "close"
  /\ bit_pos' = bit_pos + 1
  /\ step' = "done"
  /\ UNCHANGED <<Config, dirty, second, group>>

-----------------------------------------------------------------------------
\* compress_using_ctable_generic: up to four symbols between flushes, and the two
\* states at the end.
WeightSymbols ==
  /\ writer = "weights" /\ step = "first"
  /\ Add(0, 4 * WEIGHT_LOG)
  /\ step' = "weights_flush"
  /\ UNCHANGED <<Config, dirty, second, group>>

WeightsFlush ==
  /\ step = "weights_flush"
  /\ bit_pos' = bit_pos % 8
  /\ step' \in {"first", "weights_states"}
  /\ UNCHANGED <<Config, dirty, second, group>>

WeightsStates ==
  /\ step = "weights_states" /\ group < 2
  /\ Add(WEIGHT_LOG, WEIGHT_LOG)
  /\ group' = group + 1
  /\ step' = "weights_states_flush"
  /\ UNCHANGED <<Config, dirty, second>>

WeightsStatesFlush ==
  /\ step = "weights_states_flush"
  /\ bit_pos' = bit_pos % 8
  /\ step' = IF group = 2 THEN "close" ELSE "weights_states"
  /\ UNCHANGED <<Config, dirty, second, group>>

-----------------------------------------------------------------------------
\* compress_1x_loop.

\* Bits of nb_bits itself that a packed entry carries at its low end.
Width(nb_bits) == CASE nb_bits >= 8 -> 4 [] nb_bits >= 4 -> 3 [] nb_bits >= 2 -> 2 [] OTHER -> 1

Bigger(a, b) == IF a > b THEN a ELSE b

\* add_fast ORs the whole entry in, add_slow its code alone; both shift what was there.
add_fast(c, nb_bits) ==
  [bits |-> c.bits + nb_bits, dirty |-> Bigger(c.dirty - nb_bits, Width(nb_bits))]
add_slow(c, nb_bits) ==
  [bits |-> c.bits + nb_bits, dirty |-> Bigger(c.dirty - nb_bits, 0)]

First == [bits |-> bit_pos, dirty |-> dirty]

SetFirst(c) == bit_pos' = c.bits /\ dirty' = c.dirty

\* The symbols that do not fill a group: slow adds, then a flush.
Remainder ==
  /\ writer = "huff" /\ step = "first"
  /\ group < unroll - 1
  /\ \E nb_bits \in 1..table_log : SetFirst(add_slow(First, nb_bits))
  /\ group' = group + 1
  /\ UNCHANGED <<Config, step, second>>

RemainderFlush ==
  /\ writer = "huff" /\ step = "first"
  /\ SetFirst([First EXCEPT !.bits = @ % 8])
  /\ group' = 0
  /\ step' \in {"odd_group", "group", "huff_close"}
  /\ UNCHANGED <<Config, second>>

\* A group into the first container: all but the last symbol fast.
AddsFast(n) == n < unroll - 1 \/ last_fast

AddSymbol(c, nb_bits) == IF AddsFast(group) THEN add_fast(c, nb_bits) ELSE add_slow(c, nb_bits)

GroupSymbol ==
  /\ step \in {"odd_group", "group"} /\ group < unroll
  /\ \E nb_bits \in 1..table_log : SetFirst(AddSymbol(First, nb_bits))
  /\ group' = group + 1
  /\ UNCHANGED <<Config, step, second>>

GroupFlush ==
  /\ step \in {"odd_group", "group"} /\ group = unroll
  /\ SetFirst([First EXCEPT !.bits = @ % 8])
  /\ group' = 0
  /\ second' = Empty
  /\ step' \in IF step = "group" THEN {"second"} ELSE {"group", "huff_close"}
  /\ UNCHANGED Config

\* The next group into a container of its own, folded into the first.
SecondSymbol ==
  /\ step = "second" /\ group < unroll
  /\ \E nb_bits \in 1..table_log : second' = AddSymbol(second, nb_bits)
  /\ group' = group + 1
  /\ UNCHANGED <<Config, step, bit_pos, dirty>>

merge_index1 ==
  /\ step = "second" /\ group = unroll
  /\ SetFirst([bits |-> bit_pos + second.bits,
               dirty |-> Bigger(dirty - second.bits, second.dirty)])
  /\ second' = Empty
  /\ group' = 0
  /\ step' = "merged"
  /\ UNCHANGED Config

MergedFlush ==
  /\ step = "merged"
  /\ SetFirst([First EXCEPT !.bits = @ % 8])
  /\ step' \in {"group", "huff_close"}
  /\ UNCHANGED <<Config, second, group>>

HuffClose ==
  /\ step = "huff_close"
  /\ SetFirst(add_slow(First, 1))
  /\ step' = "done"
  /\ UNCHANGED <<Config, second, group>>

WriterNext ==
  \/ LastSequence \/ FlushLast \/ EncodeSymbols \/ AddExtras \/ FlushStates \/ StatesFlush \/ Close
  \/ WeightSymbols \/ WeightsFlush \/ WeightsStates \/ WeightsStatesFlush
  \/ Remainder \/ RemainderFlush \/ GroupSymbol \/ GroupFlush
  \/ SecondSymbol \/ merge_index1 \/ MergedFlush \/ HuffClose

WriterSpec == WriterInit /\ [][WriterNext]_writerVars

\* No loop runs.
WriterIdle ==
  /\ writer = "none" /\ table_log = 0 /\ unroll = 0 /\ last_fast = FALSE /\ step = "done"
  /\ bit_pos = 0 /\ dirty = 0 /\ second = Empty /\ group = 0

-----------------------------------------------------------------------------
(***************************************************************************)
(* No bit is shifted out of an accumulator before a flush has written it,  *)
(* and no bit of a symbol's length field, which the fast adds of the       *)
(* Huffman coder leave at the low end, reaches a bit that is still to be   *)
(* written: in use and dirty bits never meet (src/entropy/huff0.rs,        *)
(* compress_1x_packed; src/sequence.rs, the capacity flush).  BitCStream's *)
(* add_bits asks for one bit more to be free.                              *)
(***************************************************************************)
NoBitLost ==
  /\ writer # "huff" => bit_pos < CONTAINER_BITS
  /\ bit_pos + dirty <= CONTAINER_BITS
  /\ second.bits + second.dirty <= CONTAINER_BITS
=============================================================================
