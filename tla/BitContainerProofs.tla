-------------------------- MODULE BitContainerProofs --------------------------
(***************************************************************************)
(* No decoding loop uses a bit that it has not loaded, or loads below its  *)
(* stream, whatever the length of the stream and whatever its bits say;    *)
(* and no encoding loop pushes a bit out of its container before it has    *)
(* been written.                                                           *)
(*                                                                         *)
(* Both are arithmetic on what each step of a loop may find in its         *)
(* container, which is what the two invariants say, step by step.          *)
(***************************************************************************)
EXTENDS BitReader, BitWriter, TLAPS

-----------------------------------------------------------------------------
\* Reading.

\* The container holds what the next reads spend beyond n bits, or all of the stream
\* is in it.
Within(n) == bits_consumed <= n \/ behind = 0

\* The bits each step may find spent.  What a reload leaves is less than a byte; what
\* lies between two reloads is the sum of the widths the loop adds up.
SpentBefore ==
  /\ at \in {"init", "init2", "init3", "four"} => Within(8)
  /\ at \in {"sequence", "group", "entry", "tail", "last_symbol", "weights4", "weight"} => Within(7)
  /\ at = "literal" => Within(7 + spent)
  /\ at = "states" => Within(37)
  /\ at = "drain" => behind = 0

\* The loops a step belongs to, and the widths of its table.
ReaderConfig ==
  /\ reader \in {"execute", "x1", "x1_four", "x2", "x2_four", "weights"}
  /\ log \in IF reader = "weights" THEN {WEIGHT_LOG} ELSE {1, DECODER_FAST_TABLELOG, HUF_TABLELOG_MAX}
  /\ at \in {"init2", "reload2"} => reader \in {"execute", "weights"}
  /\ at \in {"weights_check", "weights", "weights4", "weight", "weight_reload"} => reader = "weights"

ReaderTypeOK ==
  /\ bits_consumed \in Nat /\ behind \in Nat /\ spent \in 0..(OF_EXTRA + ML_EXTRA)
  /\ at \in {"init", "init2", "init3", "reload2", "reload3", "reload", "last", "sequence", "literal",
             "states", "four", "four_reload", "stream", "group", "tail", "pairs", "entry", "drain",
             "last_symbol", "weights_check", "weights", "weights4", "weight", "weight_reload", "done"}

ReaderInv == ReaderTypeOK /\ ReaderConfig /\ SpentBefore /\ BitsWereLoaded

\* A reload leaves less than a byte spent, or the whole stream in the container; it
\* reports an unfinished stream only in the first case, and loads nothing below the
\* stream.
LEMMA ReloadLeaves ==
  ASSUME bits_consumed \in Nat, behind \in Nat, BitsWereLoaded
  PROVE  /\ reload.bits_consumed \in Nat /\ reload.behind \in Nat
         /\ reload.bits_consumed <= 7 \/ reload.behind = 0
         /\ reload.status \in {"Unfinished", "EndOfBuffer", "Completed", "Overflow"}
         /\ reload.status # "Unfinished" => reload.behind = 0
         /\ reload.status = "Unfinished" => reload.bits_consumed <= 7
BY DEF reload, reload_fast, BitsWereLoaded, CONTAINER_BITS, CONTAINER_BYTES

\* The same of a reload_fast, which changes nothing when too little is behind.
LEMMA FastReloadLeaves ==
  ASSUME bits_consumed \in Nat, behind \in Nat, BitsWereLoaded
  PROVE  /\ reload_fast.bits_consumed \in Nat /\ reload_fast.behind \in Nat
         /\ reload_fast.status = "Unfinished" => reload_fast.bits_consumed <= 7
         /\ reload_fast.status # "Unfinished" =>
              reload_fast.bits_consumed = bits_consumed /\ reload_fast.behind = behind
BY DEF reload_fast, BitsWereLoaded, CONTAINER_BITS, CONTAINER_BYTES

\* Every loop starts with what its stream's length gives it.
LEMMA ReaderInitInv == ReaderInit => ReaderInv
<1> SUFFICES ASSUME ReaderInit PROVE ReaderInv
  OBVIOUS
<1>1. PICK n \in 1..MaxBytes, used \in 1..8 :
        bits_consumed = NewConsumed(n, used) /\ behind = NewBehind(n)
  BY DEF ReaderInit
<1>2. bits_consumed \in Nat /\ behind \in Nat /\ (bits_consumed <= 8 \/ behind = 0)
  BY <1>1, ReaderAssumption DEF NewConsumed, NewBehind, CONTAINER_BYTES
<1>3. reader \in {"execute", "x1", "x1_four", "x2", "x2_four", "weights"}
  BY ReaderAssumption DEF ReaderInit
<1>4. /\ reader \in {"execute", "weights"} => at = "init"
      /\ reader \in {"x1", "x2"} => at = "stream"
      /\ reader \in {"x1_four", "x2_four"} => at = "four"
  BY <1>3 DEF ReaderInit, FirstStep
<1> QED
  BY <1>2, <1>3, <1>4 DEF ReaderInit, ReaderInv, ReaderTypeOK, ReaderConfig, SpentBefore, Within,
     BitsWereLoaded, CONTAINER_BITS, CONTAINER_BYTES, OF_EXTRA, ML_EXTRA

\* A step that spends between low and high bits, told how many were left.
LEMMA SkipSpends ==
  ASSUME NEW low \in Nat, NEW high \in Nat, bits_consumed \in Nat, Skip(low, high)
  PROVE  bits_consumed' \in Nat /\ bits_consumed' <= bits_consumed + high
BY DEF Skip

\* No step of a loop spends more than it was left with.
LEMMA ReaderStep == ReaderInv /\ [ReaderNext]_readerVars => ReaderInv'
<1> SUFFICES ASSUME ReaderInv, [ReaderNext]_readerVars PROVE ReaderInv'
  OBVIOUS
<1> USE DEF ReaderInv, ReaderTypeOK, ReaderConfig, SpentBefore, Within, BitsWereLoaded, Keep,
            CONTAINER_BITS, CONTAINER_BYTES, LL_LOG, OF_LOG, ML_LOG, WEIGHT_LOG, HUF_TABLELOG_MAX,
            DECODER_FAST_TABLELOG, LL_EXTRA, ML_EXTRA, OF_EXTRA
<1>1. CASE InitStates
  BY <1>1 DEF InitStates, Skip
<1>2. CASE ReloadState
  BY <1>2, ReloadLeaves DEF ReloadState, Loaded
<1>3. CASE ReadOffsetAndMatch
  BY <1>3 DEF ReadOffsetAndMatch
<1>4. CASE ReadLiteral
  BY <1>4, ReloadLeaves DEF ReadLiteral, ReloadsForLiteral
<1>5. CASE UpdateStates
  BY <1>5 DEF UpdateStates, Skip
<1>6. CASE ReloadAfterCopies
  BY <1>6, ReloadLeaves DEF ReloadAfterCopies, Loaded
<1>7. CASE FourStreamGroups
  BY <1>7 DEF FourStreamGroups, Skip
<1>8. CASE FourReload
  BY <1>8, FastReloadLeaves DEF FourReload, Loaded
<1>9. CASE SkipFourStreams
  BY <1>9 DEF SkipFourStreams
<1>10. CASE StreamReload
  BY <1>10, ReloadLeaves DEF StreamReload, Loaded
<1>11. CASE Group
  BY <1>11 DEF Group, GroupSize, Skip
<1>12. CASE TailSymbols
  BY <1>12 DEF TailSymbols, Skip
<1>13. CASE Pairs
  BY <1>13, ReloadLeaves DEF Pairs, Loaded
<1>14. CASE Entry
  BY <1>14 DEF Entry, Skip
<1>15. CASE Drain
  BY <1>15 DEF Drain, Skip
<1>16. CASE DrainEnds
  BY <1>16 DEF DrainEnds
<1>17. CASE decode_last_symbol_x2
  BY <1>17 DEF decode_last_symbol_x2
<1>18. CASE WeightsInit
  BY <1>18 DEF WeightsInit, Skip
<1>19. CASE WeightsCheck
  BY <1>19, ReloadLeaves DEF WeightsCheck, Loaded
<1>20. CASE WeightsReload
  BY <1>20, ReloadLeaves DEF WeightsReload, Loaded
<1>21. CASE WeightsGroup
  BY <1>21 DEF WeightsGroup, Skip
<1>22. CASE OneWeight
  BY <1>22 DEF OneWeight, Skip
<1>23. CASE WeightReload
  BY <1>23, ReloadLeaves DEF WeightReload, Loaded
<1>24. CASE UNCHANGED readerVars
  BY <1>24 DEF readerVars
<1> QED
  BY <1>1, <1>2, <1>3, <1>4, <1>5, <1>6, <1>7, <1>8, <1>9, <1>10, <1>11, <1>12, <1>13, <1>14,
     <1>15, <1>16, <1>17, <1>18, <1>19, <1>20, <1>21, <1>22, <1>23, <1>24 DEF ReaderNext

\* Whatever loop runs, over a stream of any length and any content: a bit is only
\* spent that was loaded, until the stream is loaded to its end, and no load starts
\* below the stream.
THEOREM BitsAreLoaded == ReaderSpec => []BitsWereLoaded
<1>1. ReaderInv => BitsWereLoaded
  BY DEF ReaderInv
<1> QED BY <1>1, ReaderInitInv, ReaderStep, PTL DEF ReaderSpec

-----------------------------------------------------------------------------
\* Writing.

\* A table's symbols fill a group of `unroll` of them: behind the seven bits a flush
\* may leave there is room for the whole group, and for what the last fast add, or
\* the one before a slow last add, leaves dirty.
GroupsFit ==
  /\ unroll \in 4..9 /\ table_log \in 1..HUF_TABLELOG_MAX /\ last_fast \in BOOLEAN
  /\ unroll * table_log <= 56
  /\ (unroll - 1) * table_log + Width(table_log) <= 57
  /\ last_fast => unroll * table_log + Width(table_log) <= 57

\* A container that n symbols of a group were added to, with `before` bits in it from
\* before the group.
HoldsGroup(bits, low, n, before) ==
  /\ bits <= before + n * table_log
  /\ low <= Width(table_log)
  /\ n = unroll => bits + low <= before + 57

\* The bits each step may find in the container.
BitsBefore ==
  /\ writer # "huff" =>
       /\ dirty = 0 /\ second = Empty
       /\ step \in {"symbols", "states", "weights_states", "close"} => bit_pos <= 7
       /\ step = "first" => bit_pos <= 7 /\ (writer = "sequences" => bit_pos = 0)
       /\ step = "extras" => bit_pos <= 49
       /\ step = "flush" => bit_pos <= 56
       /\ step \in {"states_flush", "weights_flush", "weights_states_flush", "done"} => bit_pos <= 31
  /\ writer = "huff" =>
       /\ GroupsFit
       /\ dirty <= Width(table_log)
       /\ step = "first" => group <= unroll - 1 /\ bit_pos <= 7 + group * table_log /\ dirty = 0
       /\ step \in {"odd_group", "group"} => group <= unroll /\ HoldsGroup(bit_pos, dirty, group, 7)
       /\ step = "second" =>
            bit_pos <= 7 /\ group <= unroll /\ HoldsGroup(second.bits, second.dirty, group, 0)
       /\ step # "second" => second = Empty
       /\ step = "huff_close" => bit_pos <= 7
       /\ step = "merged" => bit_pos + dirty <= CONTAINER_BITS /\ group = 0
       /\ step = "done" => bit_pos <= 8

WriterTypeOK ==
  /\ writer \in {"sequences", "weights", "huff"}
  /\ bit_pos \in Nat /\ dirty \in Nat /\ group \in Nat
  /\ second \in [bits : Nat, dirty : Nat]
  /\ writer = "sequences" => step \in {"first", "flush", "symbols", "extras", "states", "states_flush",
                                       "close", "done"}
  /\ writer = "weights" => step \in {"first", "weights_flush", "weights_states",
                                     "weights_states_flush", "close", "done"}
  /\ writer = "huff" => step \in {"first", "odd_group", "group", "second", "merged", "huff_close", "done"}

WriterInv == WriterTypeOK /\ BitsBefore

\* The unrolled loops' constants are small enough for every depth of table.
LEMMA UnrollFits ==
  ASSUME NEW l \in 1..12, NEW roomy \in BOOLEAN
  PROVE  /\ Unroll(l, roomy) \in 4..9 /\ LastFast(l, roomy) \in BOOLEAN
         /\ Unroll(l, roomy) * l <= 56
         /\ (Unroll(l, roomy) - 1) * l + Width(l) <= 57
         /\ LastFast(l, roomy) => Unroll(l, roomy) * l + Width(l) <= 57
<1>1. CASE l \in 1..6
  <2>1. l = 1 \/ l = 2 \/ l = 3 \/ l = 4 \/ l = 5 \/ l = 6
    BY <1>1
  <2> QED BY <2>1 DEF Unroll, LastFast, Width
<1>2. CASE l \in 7..12
  <2>1. l = 7 \/ l = 8 \/ l = 9 \/ l = 10 \/ l = 11 \/ l = 12
    BY <1>2
  <2> QED BY <2>1 DEF Unroll, LastFast, Width
<1> QED BY <1>1, <1>2

\* One more symbol of a group still fits.
LEMMA SymbolFits ==
  ASSUME GroupsFit, NEW c \in [bits : Nat, dirty : Nat], NEW n \in Nat, n < unroll,
         NEW before \in Nat, HoldsGroup(c.bits, c.dirty, n, before), NEW nb_bits \in 1..table_log,
         NEW d, d = IF AddsFast(n) THEN add_fast(c, nb_bits) ELSE add_slow(c, nb_bits)
  PROVE  d \in [bits : Nat, dirty : Nat] /\ HoldsGroup(d.bits, d.dirty, n + 1, before)
<1>1. Width(nb_bits) <= Width(table_log) /\ Width(nb_bits) \in 1..4 /\ Width(table_log) \in 1..4
  BY DEF Width, GroupsFit, HUF_TABLELOG_MAX
<1>2. (n + 1) * table_log = n * table_log + table_log
  BY DEF GroupsFit, HUF_TABLELOG_MAX
<1>3. n + 1 = unroll => n * table_log = (unroll - 1) * table_log
  BY DEF GroupsFit
<1>4. d \in [bits : Nat, dirty : Nat]
  BY <1>1 DEF add_fast, add_slow, Bigger, GroupsFit
<1>5. d.bits <= before + (n + 1) * table_log /\ d.dirty <= Width(table_log)
  BY <1>1, <1>2 DEF add_fast, add_slow, Bigger, GroupsFit, HoldsGroup, HUF_TABLELOG_MAX
<1>6. ASSUME n + 1 = unroll PROVE d.bits + d.dirty <= before + 57
  <2>1. n * table_log + Width(table_log) <= 57 /\ n * table_log + table_log <= 56
    BY <1>2, <1>3, <1>6 DEF GroupsFit
  <2>2. last_fast => n * table_log + table_log + Width(table_log) <= 57
    BY <1>2, <1>6 DEF GroupsFit
  <2>3. CASE last_fast
    <3>1. d.bits <= before + (n * table_log + table_log) /\ n * table_log \in Nat
      BY <1>2, <1>5 DEF GroupsFit, HUF_TABLELOG_MAX
    <3> QED BY <1>1, <1>4, <1>5, <2>2, <2>3, <3>1 DEF GroupsFit
  <2>4. CASE ~last_fast
    BY <2>4, <1>1, <1>6, <2>1 DEF AddsFast, add_slow, Bigger, GroupsFit, HoldsGroup
  <2> QED BY <2>3, <2>4
<1> QED BY <1>4, <1>5, <1>6 DEF HoldsGroup

\* Every loop starts with an empty container and whole tables.
LEMMA WriterInitInv == WriterInit => WriterInv
<1> SUFFICES ASSUME WriterInit PROVE WriterInv
  OBVIOUS
<1>1. writer \in {"sequences", "weights", "huff"}
  BY WriterAssumption DEF WriterInit
<1>2. ASSUME writer = "huff" PROVE GroupsFit
  <2>1. PICK roomy \in BOOLEAN :
          unroll = Unroll(table_log, roomy) /\ last_fast = LastFast(table_log, roomy)
    BY DEF WriterInit
  <2>2. table_log \in 1..12
    BY <1>2 DEF WriterInit, HUF_TABLELOG_MAX
  <2>3. /\ Unroll(table_log, roomy) \in 4..9 /\ LastFast(table_log, roomy) \in BOOLEAN
        /\ Unroll(table_log, roomy) * table_log <= 56
        /\ (Unroll(table_log, roomy) - 1) * table_log + Width(table_log) <= 57
        /\ LastFast(table_log, roomy) => Unroll(table_log, roomy) * table_log + Width(table_log) <= 57
    BY <2>2, UnrollFits
  <2> QED BY <2>1, <2>2, <2>3 DEF GroupsFit, HUF_TABLELOG_MAX
<1> QED
  BY <1>1, <1>2 DEF WriterInit, WriterInv, WriterTypeOK, BitsBefore, Empty, GroupsFit, Width,
     HUF_TABLELOG_MAX

\* What is true of a table stays true of it.
LEMMA TableKept ==
  UNCHANGED <<unroll, table_log, last_fast>> =>
    /\ GroupsFit' <=> GroupsFit
    /\ Width(table_log)' = Width(table_log) /\ Width(table_log) \in 1..4
BY DEF GroupsFit, Width

\* The length field of an entry has at most four bits.
LEMMA WidthSmall == Width(table_log) \in 1..4
BY DEF Width

\* At any symbol of a group there is room for what the last fast add left.
LEMMA GroupHeld ==
  ASSUME GroupsFit, NEW bits \in Nat, NEW low \in Nat, NEW n \in Nat, NEW before \in Nat,
         n <= unroll, HoldsGroup(bits, low, n, before)
  PROVE  bits + low <= before + 57
<1>1. CASE n = unroll
  BY <1>1 DEF HoldsGroup
<1>2. CASE n <= unroll - 1
  <2>1. n * table_log <= (unroll - 1) * table_log
    BY <1>2 DEF GroupsFit, HUF_TABLELOG_MAX
  <2>2. (unroll - 1) * table_log \in Nat /\ n * table_log \in Nat
    BY DEF GroupsFit, HUF_TABLELOG_MAX
  <2> QED BY <2>1, <2>2, WidthSmall DEF HoldsGroup, GroupsFit
<1> QED BY <1>1, <1>2 DEF GroupsFit

\* A group begins behind a flush, or in a container of its own.
LEMMA GroupBegins ==
  ASSUME GroupsFit, NEW bits \in Nat, NEW low \in Nat, NEW before \in Nat, bits <= before,
         low <= Width(table_log)
  PROVE  HoldsGroup(bits, low, 0, before)
<1>1. 0 * table_log = 0
  BY DEF GroupsFit, HUF_TABLELOG_MAX
<1> QED BY <1>1 DEF HoldsGroup, GroupsFit

\* No loop adds more bits than the flush before made room for.
LEMMA WriterStep == WriterInv /\ [WriterNext]_writerVars => WriterInv'
<1> SUFFICES ASSUME WriterInv, [WriterNext]_writerVars PROVE WriterInv'
  OBVIOUS
<1> USE DEF WriterInv, WriterTypeOK, BitsBefore, Config, Empty, CONTAINER_BITS, CONTAINER_BYTES,
            LL_LOG, OF_LOG, ML_LOG, WEIGHT_LOG, HUF_TABLELOG_MAX, LL_EXTRA, ML_EXTRA, OF_EXTRA
<1>1. CASE LastSequence
  BY <1>1 DEF LastSequence, add_bits_checked, STREAM_ACCUMULATOR_MIN
<1>2. CASE FlushLast
  BY <1>2 DEF FlushLast
<1>3. CASE EncodeSymbols
  BY <1>3 DEF EncodeSymbols, Add
<1>4. CASE AddExtras
  BY <1>4 DEF AddExtras, FlushesFor, STREAM_ACCUMULATOR_MIN
<1>5. CASE FlushStates
  BY <1>5 DEF FlushStates, add_bits_checked, STREAM_ACCUMULATOR_MIN
<1>6. CASE StatesFlush
  BY <1>6 DEF StatesFlush
<1>7. CASE Close
  BY <1>7 DEF Close
<1>8. CASE WeightSymbols
  BY <1>8 DEF WeightSymbols, Add
<1>9. CASE WeightsFlush
  BY <1>9 DEF WeightsFlush
<1>10. CASE WeightsStates
  BY <1>10 DEF WeightsStates, Add
<1>11. CASE WeightsStatesFlush
  BY <1>11 DEF WeightsStatesFlush
<1>12. CASE Remainder
  <2>1. PICK nb_bits \in 1..table_log : SetFirst(add_slow(First, nb_bits))
    BY <1>12 DEF Remainder
  <2>2. writer = "huff" /\ writer' = "huff" /\ GroupsFit /\ UNCHANGED <<unroll, table_log, last_fast>>
    BY <1>12 DEF Remainder
  <2>3. bit_pos' = bit_pos + nb_bits /\ dirty' = 0 /\ group' = group + 1
    BY <2>1, <2>2, <1>12 DEF Remainder, SetFirst, add_slow, First, Bigger
  <2>4. (group + 1) * table_log = group * table_log + table_log
    BY <2>2 DEF GroupsFit
  <2>5. bit_pos' <= 7 + (group + 1) * table_log
    BY <2>2, <2>3, <2>4, <1>12 DEF Remainder, GroupsFit
  <2> QED BY <2>2, <2>3, <2>5, <1>12, TableKept DEF Remainder, GroupsFit
<1>13. CASE RemainderFlush
  <2>1. writer = "huff" /\ writer' = "huff" /\ GroupsFit /\ UNCHANGED <<unroll, table_log, last_fast>>
    BY <1>13 DEF RemainderFlush
  <2>2. bit_pos' = bit_pos % 8 /\ dirty' = 0 /\ bit_pos' \in 0..7
    BY <1>13, <2>1 DEF RemainderFlush, SetFirst, First
  <2>3. HoldsGroup(bit_pos', dirty', 0, 7)
    BY <2>1, <2>2, TableKept, GroupBegins
  <2>4. HoldsGroup(bit_pos, dirty, group, 7)'
    BY <2>1, <2>3, <1>13 DEF RemainderFlush, HoldsGroup
  <2> QED BY <2>1, <2>2, <2>4, <1>13, TableKept DEF RemainderFlush, GroupsFit
<1>14. CASE GroupSymbol
  <2>1. PICK nb_bits \in 1..table_log : SetFirst(AddSymbol(First, nb_bits))
    BY <1>14 DEF GroupSymbol
  <2>2. writer = "huff" /\ writer' = "huff" /\ GroupsFit /\ UNCHANGED <<unroll, table_log, last_fast>>
    BY <1>14 DEF GroupSymbol
  <2>3. First \in [bits : Nat, dirty : Nat] /\ HoldsGroup(First.bits, First.dirty, group, 7)
    BY <1>14, <2>2 DEF GroupSymbol, First
  <2>4. /\ AddSymbol(First, nb_bits) \in [bits : Nat, dirty : Nat]
        /\ HoldsGroup(AddSymbol(First, nb_bits).bits, AddSymbol(First, nb_bits).dirty, group + 1, 7)
    BY <1>14, <2>2, <2>3, SymbolFits DEF GroupSymbol, AddSymbol
  <2>5. bit_pos' \in Nat /\ dirty' \in Nat /\ HoldsGroup(bit_pos', dirty', group + 1, 7)
    BY <2>1, <2>4 DEF SetFirst
  <2>6. HoldsGroup(bit_pos, dirty, group, 7)'
    BY <2>2, <2>5, <1>14 DEF GroupSymbol, HoldsGroup
  <2>7. dirty' <= Width(table_log)
    BY <2>5 DEF HoldsGroup
  <2>8. /\ step \in {"odd_group", "group"} /\ step' = step /\ second' = second
        /\ group' = group + 1 /\ group + 1 <= unroll
    BY <2>2, <1>14 DEF GroupSymbol, GroupsFit
  <2>9. GroupsFit' /\ dirty' <= Width(table_log)'
    BY <2>2, <2>7, TableKept
  <2>10. WriterTypeOK'
    BY <2>2, <2>5, <2>8
  <2>11. BitsBefore'
    BY <2>2, <2>5, <2>6, <2>8, <2>9 DEF HoldsGroup
  <2> QED BY <2>10, <2>11
<1>15. CASE GroupFlush
  <2>1. writer = "huff" /\ writer' = "huff" /\ GroupsFit /\ UNCHANGED <<unroll, table_log, last_fast>>
    BY <1>15 DEF GroupFlush
  <2>2. bit_pos' \in 0..7 /\ dirty' = dirty /\ dirty <= Width(table_log) /\ group' = 0 /\ second' = Empty
    BY <1>15, <2>1 DEF GroupFlush, SetFirst, First
  <2>3. HoldsGroup(bit_pos', dirty', 0, 7) /\ HoldsGroup(0, 0, 0, 0)
    BY <2>1, <2>2, TableKept, GroupBegins
  <2>4. HoldsGroup(bit_pos, dirty, group, 7)' /\ HoldsGroup(second.bits, second.dirty, group, 0)'
    BY <2>1, <2>2, <2>3 DEF HoldsGroup
  <2> QED BY <2>1, <2>2, <2>4, <1>15, TableKept DEF GroupFlush, GroupsFit
<1>16. CASE SecondSymbol
  <2>1. PICK nb_bits \in 1..table_log : second' = AddSymbol(second, nb_bits)
    BY <1>16 DEF SecondSymbol
  <2>2. writer = "huff" /\ writer' = "huff" /\ GroupsFit /\ UNCHANGED <<unroll, table_log, last_fast>>
    BY <1>16 DEF SecondSymbol
  <2>3. /\ AddSymbol(second, nb_bits) \in [bits : Nat, dirty : Nat]
        /\ HoldsGroup(AddSymbol(second, nb_bits).bits, AddSymbol(second, nb_bits).dirty, group + 1, 0)
    BY <1>16, <2>2, SymbolFits DEF SecondSymbol, AddSymbol
  <2> QED BY <2>1, <2>2, <2>3, <1>16, TableKept DEF SecondSymbol, HoldsGroup, GroupsFit
<1>17. CASE merge_index1
  BY <1>17, TableKept DEF merge_index1, SetFirst, HoldsGroup, Bigger, GroupsFit
<1>18. CASE MergedFlush
  <2>1. writer = "huff" /\ writer' = "huff" /\ GroupsFit /\ UNCHANGED <<unroll, table_log, last_fast>>
    BY <1>18 DEF MergedFlush
  <2>2. bit_pos' \in 0..7 /\ dirty' = dirty /\ dirty <= Width(table_log) /\ group = 0
    BY <1>18, <2>1 DEF MergedFlush, SetFirst, First
  <2>3. HoldsGroup(bit_pos', dirty', 0, 7)
    BY <2>1, <2>2, TableKept, GroupBegins
  <2>4. HoldsGroup(bit_pos, dirty, group, 7)'
    BY <2>1, <2>2, <2>3, <1>18 DEF MergedFlush, HoldsGroup
  <2> QED BY <2>1, <2>2, <2>4, <1>18, TableKept DEF MergedFlush, GroupsFit
<1>19. CASE HuffClose
  BY <1>19, TableKept DEF HuffClose, SetFirst, add_slow, First, Bigger, GroupsFit
<1>20. CASE UNCHANGED writerVars
  BY <1>20, TableKept DEF writerVars, HoldsGroup
<1> QED
  BY <1>1, <1>2, <1>3, <1>4, <1>5, <1>6, <1>7, <1>8, <1>9, <1>10, <1>11, <1>12, <1>13, <1>14,
     <1>15, <1>16, <1>17, <1>18, <1>19, <1>20 DEF WriterNext

\* Whatever loop runs, at every depth of table and however the symbols' widths fall:
\* no bit leaves a container before it was written, and what a fast add leaves at the
\* low end never meets a bit in use.
THEOREM NoBitIsLost == WriterSpec => []NoBitLost
<1>1. WriterInv => NoBitLost
  <2> SUFFICES ASSUME WriterInv PROVE NoBitLost
    OBVIOUS
  <2> USE DEF WriterInv, WriterTypeOK, BitsBefore, NoBitLost, CONTAINER_BITS, CONTAINER_BYTES, Empty
  <2>1. CASE writer # "huff"
    BY <2>1
  <2>2. CASE writer = "huff"
    <3>1. step \in {"odd_group", "group"} => bit_pos + dirty <= 64
      BY <2>2, GroupHeld
    <3>2. step = "second" => second.bits + second.dirty <= 57
      BY <2>2, GroupHeld
    <3>3. step = "first" => bit_pos + dirty <= 64
      <4> SUFFICES ASSUME step = "first" PROVE bit_pos + dirty <= 64
        OBVIOUS
      <4>1. group <= unroll /\ HoldsGroup(bit_pos, dirty, group, 7)
        BY <2>2, WidthSmall DEF HoldsGroup, GroupsFit
      <4> QED BY <2>2, <4>1, GroupHeld
    <3>4. step \in {"second", "huff_close", "done"} => bit_pos + dirty <= 64
      BY <2>2, WidthSmall
    <3> QED BY <2>2, <3>1, <3>2, <3>3, <3>4
  <2> QED BY <2>1, <2>2
<1> QED BY <1>1, WriterInitInv, WriterStep, PTL DEF WriterSpec
=============================================================================
